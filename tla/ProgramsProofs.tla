---------------------------- MODULE ProgramsProofs ---------------------------
(***************************************************************************)
(* The programs of the laboratories, for any number of threads, processes  *)
(* and messages.                                                           *)
(***************************************************************************)
EXTENDS MCPrograms, SumLemmas, SequenceTheorems

-----------------------------------------------------------------------------
(* prog22.c: the thread pool *)

P_TypeOK ==
    /\ work \in BOOLEAN /\ condition \in {0, 1} /\ idlethreads \in Int
    /\ mutex \in PoolThreads \cup {NoThread}
    /\ wpc \in [PoolThreads -> {"lock", "relock", "test", "wait", "asleep", "clear", "check",
                                "busy", "exit"}]
    /\ accepted \in Nat /\ started \in Nat

\* The threads idlethreads counts.
Idle == {t \in PoolThreads : wpc[t] \notin {"lock", "busy"}}

P_Mutex == \A t \in PoolThreads : wpc[t] \in {"test", "wait", "clear", "check"} => mutex = t

\* Unless SIGINT has come, a thread that leaves the waiting loop takes a request
\* with it.
P_Requests ==
    /\ started + condition <= accepted
    /\ \A t \in PoolThreads : wpc[t] = "clear" /\ work => condition = 1
    /\ \A t \in PoolThreads : wpc[t] = "check" /\ work => started + condition < accepted

P_Idle == idlethreads = Cardinality(Idle)

P_Inv == P_TypeOK /\ P_Mutex /\ P_Requests /\ P_Idle

LEMMA P_Constants == IsFiniteSet(PoolThreads) /\ NoThread \notin PoolThreads
  BY ProgramsAssumption DEF Pool!PoolConstants, Pool!IsFiniteSet, IsFiniteSet

\* A thread more, or a thread less.
LEMMA P_Counts ==
    ASSUME IsFiniteSet(Idle), NEW t \in PoolThreads
    PROVE  /\ Cardinality(Idle) \in Nat
           /\ t \notin Idle /\ Idle' = Idle \cup {t} => Cardinality(Idle') = Cardinality(Idle) + 1
           /\ t \in Idle /\ Idle' = Idle \ {t} => Cardinality(Idle') = Cardinality(Idle) - 1
  BY FS_CardinalityType, FS_AddElement, FS_RemoveElement

LEMMA P_Finite == IsFiniteSet(Idle)
<1>1. Idle \subseteq PoolThreads
  BY DEF Idle
<1> QED BY <1>1, P_Constants, FS_Subset

LEMMA P_Init == Pool!Init => P_Inv
<1> SUFFICES ASSUME Pool!Init PROVE P_Inv
  OBVIOUS
<1>1. P_TypeOK /\ P_Mutex /\ P_Requests
  BY DEF Pool!Init, P_TypeOK, P_Mutex, P_Requests
<1>2. Idle = {}
  BY DEF Pool!Init, Idle
<1>3. P_Idle
  BY <1>2, FS_EmptySet DEF P_Idle, Pool!Init
<1> QED BY <1>1, <1>3 DEF P_Inv

LEMMA P_Lock ==
    ASSUME P_Inv, NEW t \in PoolThreads, Pool!Lock(t) PROVE P_Inv'
<1> USE P_Constants
<1>1. /\ wpc[t] \in {"lock", "relock"} /\ mutex = NoThread /\ mutex' = t
      /\ wpc' = [wpc EXCEPT ![t] = "test"]
      /\ idlethreads' = IF wpc[t] = "lock" THEN idlethreads + 1 ELSE idlethreads
      /\ UNCHANGED <<work, condition, accepted, started>>
  BY DEF Pool!Lock, Pool!Goto
<1>2. P_TypeOK' /\ P_Mutex' /\ P_Requests'
  BY <1>1 DEF P_Inv, P_TypeOK, P_Mutex, P_Requests
<1>3. P_Idle'
  <2>1. CASE wpc[t] = "lock"
    <3>1. t \notin Idle /\ Idle' = Idle \cup {t}
      BY <1>1, <2>1 DEF Idle, P_Inv, P_TypeOK
    <3> QED BY <3>1, <1>1, <2>1, P_Counts, P_Finite DEF P_Idle, P_Inv
  <2>2. CASE wpc[t] = "relock"
    <3>1. Idle' = Idle
      BY <1>1, <2>2 DEF Idle, P_Inv, P_TypeOK
    <3> QED BY <3>1, <1>1, <2>2 DEF P_Idle, P_Inv
  <2> QED BY <1>1, <2>1, <2>2
<1> QED BY <1>2, <1>3 DEF P_Inv

LEMMA P_Check ==
    ASSUME P_Inv, NEW t \in PoolThreads, Pool!Check(t) PROVE P_Inv'
<1> USE P_Constants
<1>1. wpc[t] = "check" /\ mutex = t /\ mutex' = NoThread /\ UNCHANGED <<work, condition, accepted>>
  BY DEF Pool!Check, P_Inv, P_Mutex
<1>2. CASE work
  <2>1. /\ idlethreads' = idlethreads - 1 /\ started' = started + 1
        /\ wpc' = [wpc EXCEPT ![t] = "busy"]
    BY <1>2 DEF Pool!Check, Pool!Goto
  <2>2. P_TypeOK' /\ P_Mutex' /\ P_Requests'
    BY <1>1, <1>2, <2>1 DEF P_Inv, P_TypeOK, P_Mutex, P_Requests
  <2>3. t \in Idle /\ Idle' = Idle \ {t}
    BY <1>1, <2>1 DEF Idle, P_Inv, P_TypeOK
  <2>4. P_Idle'
    BY <2>1, <2>3, P_Counts, P_Finite DEF P_Idle, P_Inv
  <2> QED BY <2>2, <2>4 DEF P_Inv
<1>3. CASE ~work
  <2>1. wpc' = [wpc EXCEPT ![t] = "exit"] /\ UNCHANGED <<idlethreads, started>>
    BY <1>3 DEF Pool!Check, Pool!Goto
  <2>2. P_TypeOK' /\ P_Mutex' /\ P_Requests'
    BY <1>1, <1>3, <2>1 DEF P_Inv, P_TypeOK, P_Mutex, P_Requests
  <2>3. Idle' = Idle
    BY <1>1, <2>1 DEF Idle, P_Inv, P_TypeOK
  <2> QED BY <2>1, <2>2, <2>3 DEF P_Inv, P_Idle
<1> QED BY <1>2, <1>3

\* The steps between two labels of a thread that change no count.
LEMMA P_Quiet ==
    ASSUME P_Inv, NEW t \in PoolThreads,
           \/ Pool!Test(t) \/ Pool!Wait(t) \/ Pool!SpuriousWakeup(t) \/ Pool!Clear(t)
           \/ Pool!read_random(t)
    PROVE  P_Inv'
<1> USE P_Constants DEF Pool!Goto, Pool!shared
<1>1. /\ P_TypeOK' /\ P_Mutex' /\ P_Requests' /\ UNCHANGED idlethreads
      /\ \A u \in PoolThreads : wpc'[u] \in {"lock", "busy"} <=> wpc[u] \in {"lock", "busy"}
  <2>1. CASE Pool!Test(t)
    BY <2>1 DEF Pool!Test, P_Inv, P_TypeOK, P_Mutex, P_Requests
  <2>2. CASE Pool!Wait(t)
    BY <2>2 DEF Pool!Wait, P_Inv, P_TypeOK, P_Mutex, P_Requests
  <2>3. CASE Pool!SpuriousWakeup(t)
    BY <2>3 DEF Pool!SpuriousWakeup, Pool!Woken, P_Inv, P_TypeOK, P_Mutex, P_Requests
  <2>4. CASE Pool!Clear(t)
    BY <2>4 DEF Pool!Clear, P_Inv, P_TypeOK, P_Mutex, P_Requests
  <2>5. CASE Pool!read_random(t)
    BY <2>5 DEF Pool!read_random, P_Inv, P_TypeOK, P_Mutex, P_Requests
  <2> QED BY <2>1, <2>2, <2>3, <2>4, <2>5
<1>2. Idle' = Idle
  BY <1>1 DEF Idle
<1> QED BY <1>1, <1>2 DEF P_Inv, P_Idle

LEMMA P_Main ==
    ASSUME P_Inv, Pool!MainStep \/ Pool!Type \/ Pool!SigInt PROVE P_Inv'
<1> USE P_Constants DEF Pool!shared, Pool!Main
<1>1. /\ P_TypeOK' /\ P_Mutex' /\ P_Requests' /\ UNCHANGED idlethreads
      /\ \A u \in PoolThreads : wpc'[u] \in {"lock", "busy"} <=> wpc[u] \in {"lock", "busy"}
  <2>1. CASE Pool!Loop \/ Pool!Block \/ Pool!Type \/ Pool!Ask \/ Pool!Join
    BY <2>1 DEF Pool!Loop, Pool!Block, Pool!Type, Pool!Ask, Pool!Join, P_Inv, P_TypeOK, P_Mutex, P_Requests
  <2>2. CASE Pool!SigInt
    BY <2>2 DEF Pool!SigInt, P_Inv, P_TypeOK, P_Mutex, P_Requests
  <2>3. CASE Pool!SetCondition
    BY <2>3 DEF Pool!SetCondition, P_Inv, P_TypeOK, P_Mutex, P_Requests
  <2>4. CASE Pool!Signal \/ Pool!Broadcast
    <3>1. PICK S \in SUBSET Pool!Asleep :
              wpc' = [u \in PoolThreads |-> IF u \in S THEN "relock" ELSE wpc[u]]
      <4>1. CASE Pool!Signal /\ Pool!Asleep = {}
        <5>1. wpc' = [u \in PoolThreads |-> IF u \in {} THEN "relock" ELSE wpc[u]]
          BY <4>1 DEF Pool!Signal, P_Inv, P_TypeOK
        <5>2. {} \in SUBSET Pool!Asleep
          OBVIOUS
        <5> QED BY <5>1, <5>2
      <4>2. CASE Pool!Signal /\ Pool!Asleep # {}
        BY <4>2 DEF Pool!Signal, Pool!Woken
      <4>3. CASE Pool!Broadcast
        BY <4>3 DEF Pool!Broadcast, Pool!Woken
      <4> QED BY <2>4, <4>1, <4>2, <4>3
    <3>2. UNCHANGED <<work, condition, idlethreads, mutex, accepted, started>>
      BY <2>4 DEF Pool!Signal, Pool!Broadcast
    <3> QED BY <3>1, <3>2 DEF Pool!Asleep, P_Inv, P_TypeOK, P_Mutex, P_Requests
  <2> QED BY <2>1, <2>2, <2>3, <2>4 DEF Pool!MainStep
<1>2. Idle' = Idle
  BY <1>1 DEF Idle
<1> QED BY <1>1, <1>2 DEF P_Inv, P_Idle

\* A request to the pool starts one thread at most and idlethreads counts the
\* threads that are not at work, although main sets the flag and signals without
\* the mutex, waits end spuriously and SIGINT comes at any moment
\* (prog22.c:109-119, 148-161), for any number of threads and lines.
THEOREM StartsPerRequest == Pool!Spec => []OneStartPerRequest
<1>1. P_Inv /\ [Pool!Next]_Pool!vars => P_Inv'
  <2> SUFFICES ASSUME P_Inv, [Pool!Next]_Pool!vars PROVE P_Inv'
    OBVIOUS
  <2>1. CASE Pool!MainStep \/ Pool!Type \/ Pool!SigInt
    BY <2>1, P_Main
  <2>2. ASSUME NEW t \in PoolThreads, Pool!WorkerStep(t) \/ Pool!SpuriousWakeup(t)
        PROVE  P_Inv'
    BY <2>2, P_Lock, P_Check, P_Quiet DEF Pool!WorkerStep
  <2>3. CASE UNCHANGED Pool!vars
    BY <2>3 DEF Pool!vars, Pool!shared, P_Inv, P_TypeOK, P_Mutex, P_Requests, P_Idle, Idle
  <2> QED BY <2>1, <2>2, <2>3 DEF Pool!Next
<1>2. P_Inv => OneStartPerRequest
  BY DEF P_Inv, P_Requests, P_Idle, Idle, OneStartPerRequest, Pool!OneStartPerRequest,
         Pool!Cardinality, Cardinality
<1> QED BY <1>1, <1>2, P_Init, PTL DEF Pool!Spec

-----------------------------------------------------------------------------
(* prog23.c: the dice game *)

LEMMA ModOfSmall == ASSUME NEW m \in Nat \ {0}, NEW n \in 0 .. m - 1
                    PROVE  (n + 1) % m = IF n + 1 < m THEN n + 1 ELSE 0
<1> DEFINE p == (n + 1) \div m
           s == (n + 1) % m
<1>1. p \in Int /\ s \in 0 .. m - 1 /\ n + 1 = m * p + s
  BY SMTT(30)
<1>2. p \in {0, 1}
  <2>1. CASE p >= 2
    <3>1. m * p >= m + m
      BY <1>1, <2>1, SMTT(30)
    <3> QED BY <1>1, <3>1
  <2>2. CASE p <= -1
    <3>1. m * p <= -m
      BY <1>1, <2>2, SMTT(30)
    <3> QED BY <1>1, <3>1
  <2> QED BY <1>1, <2>1, <2>2
<1> QED BY <1>1, <1>2, SMTT(30)

G_TypeOK ==
    /\ rolls \in [Dice!Players -> Nat] /\ scores \in [Dice!Players -> Nat]
    /\ dpc \in [Dice!Players -> {"roll", "barrier", "max", "award", "again", "end"}]
    /\ rounds \in [Dice!Players -> Nat]
    /\ max \in Int /\ next \in Dice!Players

\* The two barriers keep the players in one phase of one round, and one of them
\* at most looks at the rolls.
G_Phases ==
    /\ \/ \A p \in Dice!Players : dpc[p] \in {"roll", "barrier"}
       \/ \A p \in Dice!Players : dpc[p] = "end"
       \/ /\ \A p \in Dice!Players : dpc[p] \in {"max", "award", "again"}
          /\ \A p, q \in Dice!Players :
                dpc[p] \in {"max", "award"} /\ dpc[q] \in {"max", "award"} => p = q
    /\ \A p, q \in Dice!Players : rounds[p] = rounds[q]

\* What the serial thread knows of the rolls it has looked at.
G_Maximum ==
    \A p \in Dice!Players :
        /\ dpc[p] = "max" =>
              /\ \A q \in Dice!Players : q < next => rolls[q] <= max
              /\ \/ next = 0 /\ max = -1
                 \/ \E q \in Dice!Players : q < next /\ rolls[q] = max
        /\ dpc[p] = "award" =>
              /\ \A q \in Dice!Players : rolls[q] <= max
              /\ \E q \in Dice!Players : rolls[q] = max

G_Inv == G_TypeOK /\ G_Phases /\ G_Maximum

LEMMA G_Constants == /\ PLAYER_COUNT \in Nat \ {0} /\ Faces \subseteq Nat
                     /\ Dice!Players = 0 .. PLAYER_COUNT - 1
  BY ProgramsAssumption DEF Dice!DiceConstants, Dice!Players

LEMMA G_Init == Dice!Init => G_Inv
  BY G_Constants DEF Dice!Init, G_Inv, G_TypeOK, G_Phases, G_Maximum

LEMMA G_Roll == ASSUME G_Inv, NEW p \in Dice!Players, Dice!Roll(p) PROVE G_Inv'
<1>1. PICK f \in Nat : rolls' = [rolls EXCEPT ![p] = f]
  BY G_Constants DEF Dice!Roll
<1>2. /\ dpc[p] = "roll" /\ dpc' = [dpc EXCEPT ![p] = "barrier"]
      /\ UNCHANGED <<scores, rounds, max, next>>
  BY DEF Dice!Roll
<1>3. \A q \in Dice!Players : dpc[q] \in {"roll", "barrier"} /\ dpc'[q] \in {"roll", "barrier"}
  BY <1>2 DEF G_Inv, G_TypeOK, G_Phases
<1> QED BY <1>1, <1>2, <1>3 DEF G_Inv, G_TypeOK, G_Phases, G_Maximum

LEMMA G_Open == ASSUME G_Inv, Dice!Open \/ Dice!OpenAgain PROVE G_Inv'
<1> USE G_Constants
<1>1. CASE Dice!Open
  BY <1>1 DEF Dice!Open, G_Inv, G_TypeOK, G_Phases, G_Maximum
<1>2. CASE Dice!OpenAgain
  <2>1. /\ UNCHANGED <<rolls, scores, max, next>>
        /\ \A p \in Dice!Players : rounds'[p] = rounds[p] + 1 /\ dpc'[p] = Dice!Following(p)
        /\ rounds' \in [Dice!Players -> Nat]
    BY <1>2 DEF Dice!OpenAgain, G_Inv, G_TypeOK
  <2>2. /\ \A p \in Dice!Players : Dice!Following(p) \in {"roll", "end"}
        /\ \A p, q \in Dice!Players : Dice!Following(p) = Dice!Following(q)
    BY DEF Dice!Following, G_Inv, G_Phases
  <2>3. dpc' \in [Dice!Players -> {"roll", "end"}]
    BY <1>2, <2>2 DEF Dice!OpenAgain
  <2>4. G_TypeOK'
    BY <2>1, <2>3 DEF G_Inv, G_TypeOK
  <2>5. G_Phases'
    BY <2>1, <2>2 DEF G_Inv, G_Phases
  <2>6. G_Maximum'
    BY <2>1, <2>2 DEF G_Maximum
  <2> QED BY <2>4, <2>5, <2>6 DEF G_Inv
<1> QED BY <1>1, <1>2

LEMMA G_FindMax == ASSUME G_Inv, NEW p \in Dice!Players, Dice!FindMax(p) PROVE G_Inv'
<1> USE G_Constants
<1> DEFINE l == IF next + 1 < PLAYER_COUNT THEN "max" ELSE "award"
<1>1. /\ dpc[p] = "max" /\ UNCHANGED <<rolls, scores, rounds>>
      /\ max' = (IF rolls[next] > max THEN rolls[next] ELSE max)
      /\ dpc' = [dpc EXCEPT ![p] = l]
  BY DEF Dice!FindMax
<1>2. next' = (next + 1) % PLAYER_COUNT /\ next \in 0 .. PLAYER_COUNT - 1
  BY DEF Dice!FindMax, G_Inv, G_TypeOK
<1>3. next' = IF next + 1 < PLAYER_COUNT THEN next + 1 ELSE 0
  BY <1>2, ModOfSmall
<1>4. l \in {"max", "award"} /\ (l = "max" <=> next + 1 < PLAYER_COUNT)
  OBVIOUS
<1> HIDE DEF l
<1>5. next' \in Dice!Players /\ max' \in Int /\ rolls[next] \in Nat /\ max \in Int
  BY <1>1, <1>2, <1>3 DEF G_Inv, G_TypeOK
<1>6. G_TypeOK'
  BY <1>1, <1>4, <1>5 DEF G_Inv, G_TypeOK
<1>7. \A q \in Dice!Players : dpc[q] \in {"max", "award", "again"} /\ (q # p => dpc[q] = "again")
  BY <1>1 DEF G_Inv, G_Phases
<1>8. dpc'[p] = l /\ \A q \in Dice!Players : q # p => dpc'[q] = "again"
  BY <1>1, <1>7 DEF G_Inv, G_TypeOK
<1>9. G_Phases'
  BY <1>1, <1>4, <1>8 DEF G_Inv, G_Phases
<1>10. \A q \in Dice!Players : q <= next => rolls[q] <= max'
  <2>1. \A q \in Dice!Players : q < next => rolls[q] <= max
    BY <1>1 DEF G_Inv, G_Maximum
  <2>2. \A q \in Dice!Players : rolls[q] \in Nat
    BY DEF G_Inv, G_TypeOK
  <2>3. max <= max' /\ rolls[next] <= max'
    BY <1>1, <1>5
  <2> QED BY <1>2, <1>5, <2>1, <2>2, <2>3
<1>11. \E q \in Dice!Players : q <= next /\ rolls[q] = max'
  <2>1. \/ next = 0 /\ max = -1
        \/ \E q \in Dice!Players : q < next /\ rolls[q] = max
    BY <1>1 DEF G_Inv, G_Maximum
  <2> QED BY <1>1, <1>2, <1>5, <2>1
<1>12. G_Maximum'
  <2>1. CASE next + 1 < PLAYER_COUNT
    <3>1. l = "max" /\ \A q \in Dice!Players : q < next' <=> q <= next
      BY <1>2, <1>3, <1>4, <2>1
    <3> QED BY <1>1, <1>8, <1>10, <1>11, <3>1 DEF G_Maximum
  <2>2. CASE ~(next + 1 < PLAYER_COUNT)
    <3>1. l = "award" /\ \A q \in Dice!Players : q <= next
      BY <1>2, <1>4, <2>2
    <3> QED BY <1>1, <1>8, <1>10, <1>11, <3>1 DEF G_Maximum
  <2> QED BY <2>1, <2>2
<1> QED BY <1>6, <1>9, <1>12 DEF G_Inv

LEMMA G_Award == ASSUME G_Inv, NEW p \in Dice!Players, Dice!Award(p) PROVE G_Inv'
<1> USE G_Constants
<1> DEFINE l == IF next + 1 < PLAYER_COUNT THEN "award" ELSE "again"
<1>1. /\ dpc[p] = "award" /\ dpc' = [dpc EXCEPT ![p] = l] /\ l \in {"award", "again"}
      /\ UNCHANGED <<rolls, rounds, max>>
  BY DEF Dice!Award
<1> HIDE DEF l
<1>2. next' = (next + 1) % PLAYER_COUNT /\ next \in 0 .. PLAYER_COUNT - 1
  BY DEF Dice!Award, G_Inv, G_TypeOK
<1>3. next' \in Dice!Players
  BY <1>2, ModOfSmall
<1>4. scores' \in [Dice!Players -> Nat]
  <2>1. scores \in [Dice!Players -> Nat] /\ next \in Dice!Players
    BY DEF G_Inv, G_TypeOK
  <2>2. scores' = [scores EXCEPT ![next] = @ + 1] \/ scores' = scores
    BY DEF Dice!Award
  <2> QED BY <2>1, <2>2
<1>5. G_TypeOK'
  BY <1>1, <1>3, <1>4 DEF G_Inv, G_TypeOK
<1>6. dpc'[p] = l /\ \A q \in Dice!Players : q # p => dpc'[q] = "again"
  BY <1>1 DEF G_Inv, G_TypeOK, G_Phases
<1>7. G_Phases'
  BY <1>1, <1>6 DEF G_Inv, G_Phases
<1>8. G_Maximum'
  BY <1>1, <1>6 DEF G_Maximum, G_Inv
<1> QED BY <1>5, <1>7, <1>8 DEF G_Inv

\* A step that changes a score gives a point for a highest roll of the round.
LEMMA G_Points ==
    ASSUME G_Inv, Dice!Next, NEW p \in Dice!Players, scores'[p] # scores[p]
    PROVE  /\ scores'[p] = scores[p] + 1 /\ rolls[p] = Dice!Max(Dice!Range(rolls))
           /\ \A q \in Dice!Players : dpc[q] \in {"again", "award"} /\ rounds[q] = rounds[p]
<1>1. PICK s \in Dice!Players : Dice!Award(s)
  BY DEF Dice!Next, Dice!Open, Dice!OpenAgain, Dice!PlayerStep, Dice!Roll, Dice!FindMax
<1>2. /\ dpc[s] = "award" /\ rolls[next] = max /\ p = next
      /\ scores'[p] = scores[p] + 1
  BY <1>1 DEF Dice!Award, G_Inv, G_TypeOK
<1>3. \A q \in Dice!Players : dpc[q] \in {"again", "award"} /\ rounds[q] = rounds[p]
  BY <1>2 DEF G_Inv, G_Phases
<1>4. max \in Dice!Range(rolls) /\ \A y \in Dice!Range(rolls) : y \in Nat /\ max >= y
  BY <1>2 DEF Dice!Range, G_Inv, G_TypeOK, G_Maximum
<1>5. Dice!Max(Dice!Range(rolls)) = max
  BY <1>4 DEF Dice!Max
<1> QED BY <1>2, <1>3, <1>5

LEMMA G_Kept == G_Inv /\ [Dice!Next]_Dice!vars => G_Inv'
<1> SUFFICES ASSUME G_Inv, [Dice!Next]_Dice!vars PROVE G_Inv'
  OBVIOUS
<1>1. CASE Dice!Open \/ Dice!OpenAgain
  BY <1>1, G_Open
<1>2. ASSUME NEW p \in Dice!Players, Dice!PlayerStep(p) PROVE G_Inv'
  BY <1>2, G_Roll, G_FindMax, G_Award DEF Dice!PlayerStep
<1>3. CASE UNCHANGED Dice!vars
  BY <1>3 DEF Dice!vars, G_Inv, G_TypeOK, G_Phases, G_Maximum
<1> QED BY <1>1, <1>2, <1>3 DEF Dice!Next

\* Points of the dice game are given for rolls of one round: whoever is the serial
\* thread, a score changes by one, for a highest roll, while nobody has rolled
\* again (prog23.c:28-47), for any number of players, rounds and faces.
THEOREM AwardsAreFair == Dice!Spec => FairAward
<1>1. G_Inv /\ [Dice!Next]_Dice!vars => [Dice!FairPoints]_scores
  BY G_Points DEF Dice!vars, Dice!FairPoints
<1> QED BY <1>1, G_Init, G_Kept, PTL DEF Dice!Spec, FairAward, Dice!FairAward

\* The points of the rounds that are over, and those given in this one so far.
G_Scores ==
    LET total == SumFunctionOnSet(scores, Dice!Players)
    IN  /\ (\A p \in Dice!Players : dpc[p] # "award") /\ (\E p \in Dice!Players : dpc[p] # "again")
              => /\ total >= rounds[0]
                 /\ \A p \in Dice!Players : scores[p] <= rounds[p]
        /\ (\E p \in Dice!Players : dpc[p] = "award")
              => /\ total >= rounds[0]
                 /\ (\E q \in Dice!Players : q < next /\ rolls[q] = max) => total >= rounds[0] + 1
                 /\ \A p \in Dice!Players : /\ scores[p] <= rounds[p] + 1
                                            /\ p >= next => scores[p] <= rounds[p]
        /\ (\A p \in Dice!Players : dpc[p] = "again")
              => /\ total >= rounds[0] + 1
                 /\ \A p \in Dice!Players : scores[p] <= rounds[p] + 1

LEMMA G_Players == /\ IsFiniteSet(Dice!Players) /\ 0 \in Dice!Players
                   /\ \A f : Dice!SumFunction(f) = SumFunctionOnSet(f, DOMAIN f)
<1>1. IsFiniteSet(Dice!Players) /\ 0 \in Dice!Players
  BY G_Constants, FS_Interval
<1>2. \A f : Dice!SumFunction(f) = SumFunctionOnSet(f, DOMAIN f)
  BY Zenon DEF Dice!SumFunction, Dice!SumFunctionOnSet, Dice!FoldFunctionOnSet,
               Dice!MapThenFoldSet, SumFunctionOnSet, FoldFunctionOnSet, MapThenFoldSet
<1> QED BY <1>1, <1>2

LEMMA G_ScoresInit == Dice!Init => G_Scores
<1> SUFFICES ASSUME Dice!Init PROVE G_Scores
  OBVIOUS
<1>1. \A p \in Dice!Players : scores[p] = 0 /\ rounds[p] = 0 /\ dpc[p] = "roll"
  BY DEF Dice!Init
<1>2. SumFunctionOnSet(scores, Dice!Players) = 0 * Cardinality(Dice!Players)
  BY <1>1, G_Players, SumOfEqual
<1>3. Cardinality(Dice!Players) \in Nat
  BY G_Players, FS_CardinalityType
<1>4. SumFunctionOnSet(scores, Dice!Players) = 0
  BY <1>2, <1>3
<1> QED BY <1>1, <1>4, G_Players DEF G_Scores

LEMMA G_ScoresKept ==
    ASSUME G_Inv, G_Scores, G_Inv', [Dice!Next]_Dice!vars
    PROVE  G_Scores'
<1> USE G_Constants, G_Players
<1> DEFINE T == SumFunctionOnSet(scores, Dice!Players)
<1>1. /\ scores \in [Dice!Players -> Nat] /\ rounds \in [Dice!Players -> Nat]
      /\ next \in 0 .. PLAYER_COUNT - 1
      /\ dpc \in [Dice!Players -> {"roll", "barrier", "max", "award", "again", "end"}]
  BY DEF G_Inv, G_TypeOK
<1>2. T \in Int
  BY <1>1, SumType
<1>3. ASSUME NEW p \in Dice!Players, Dice!Roll(p) PROVE G_Scores'
  <2>1. dpc[p] = "roll" /\ dpc' = [dpc EXCEPT ![p] = "barrier"] /\ UNCHANGED <<scores, rounds>>
    BY <1>3 DEF Dice!Roll
  <2>2. \A q \in Dice!Players : dpc[q] \in {"roll", "barrier"}
    BY <2>1 DEF G_Inv, G_Phases
  <2>3. \A q \in Dice!Players : dpc'[q] \in {"roll", "barrier"}
    BY <1>1, <2>1, <2>2
  <2> QED BY <2>1, <2>2, <2>3 DEF G_Scores
<1>4. CASE Dice!Open
  <2>1. PICK s \in Dice!Players : dpc' = [p \in Dice!Players |-> IF p = s THEN "max" ELSE "again"]
    BY <1>4 DEF Dice!Open
  <2>2. UNCHANGED <<scores, rounds>> /\ \A p \in Dice!Players : dpc[p] = "barrier"
    BY <1>4 DEF Dice!Open
  <2>3. dpc'[s] = "max" /\ \A p \in Dice!Players : dpc'[p] # "award"
    BY <2>1
  <2> QED BY <2>2, <2>3 DEF G_Scores
<1>5. ASSUME NEW p \in Dice!Players, Dice!FindMax(p) PROVE G_Scores'
  <2> DEFINE l == IF next + 1 < PLAYER_COUNT THEN "max" ELSE "award"
  <2>1. /\ dpc[p] = "max" /\ dpc' = [dpc EXCEPT ![p] = l] /\ UNCHANGED <<scores, rounds>>
        /\ next' = (next + 1) % PLAYER_COUNT
    BY <1>5 DEF Dice!FindMax
  <2>2. next' = IF next + 1 < PLAYER_COUNT THEN next + 1 ELSE 0
    BY <1>1, <2>1, ModOfSmall
  <2>3. l \in {"max", "award"} /\ (l = "award" => next' = 0)
    BY <2>2
  <2> HIDE DEF l
  <2>4. \A q \in Dice!Players : q # p => dpc[q] = "again"
    BY <2>1 DEF G_Inv, G_Phases
  <2>5. dpc'[p] = l /\ \A q \in Dice!Players : q # p => dpc'[q] = "again"
    BY <1>1, <2>1, <2>4
  <2>6. T >= rounds[0] /\ \A q \in Dice!Players : scores[q] <= rounds[q]
    BY <2>1, <2>4 DEF G_Scores
  <2>7. \A q \in Dice!Players : scores[q] <= rounds[q] + 1 /\ (next' = 0 => ~(q < next'))
    BY <1>1, <2>6
  <2> QED BY <2>1, <2>3, <2>5, <2>6, <2>7 DEF G_Scores
<1>6. ASSUME NEW p \in Dice!Players, Dice!Award(p) PROVE G_Scores'
  <2> DEFINE l == IF next + 1 < PLAYER_COUNT THEN "award" ELSE "again"
             U == SumFunctionOnSet(scores', Dice!Players)
  <2>1. /\ dpc[p] = "award" /\ dpc' = [dpc EXCEPT ![p] = l] /\ UNCHANGED <<rolls, rounds, max>>
        /\ next' = (next + 1) % PLAYER_COUNT
    BY <1>6 DEF Dice!Award
  <2>2. next' = IF next + 1 < PLAYER_COUNT THEN next + 1 ELSE 0
    BY <1>1, <2>1, ModOfSmall
  <2>3. \/ l = "award" /\ next' = next + 1
        \/ l = "again" /\ next = PLAYER_COUNT - 1
    BY <1>1, <2>2
  <2> HIDE DEF l
  <2>4. dpc'[p] = l /\ \A q \in Dice!Players : q # p => dpc'[q] = "again"
    <3>1. \A q \in Dice!Players : q # p => dpc[q] = "again"
      BY <2>1 DEF G_Inv, G_Phases
    <3> QED BY <1>1, <2>1, <3>1
  <2>5. /\ T >= rounds[0]
        /\ (\E q \in Dice!Players : q < next /\ rolls[q] = max) => T >= rounds[0] + 1
        /\ \A q \in Dice!Players : /\ scores[q] <= rounds[q] + 1
                                   /\ q >= next => scores[q] <= rounds[q]
    BY <2>1 DEF G_Scores
  <2>6. /\ rolls[next] = max => U = T + 1 /\ scores' = [scores EXCEPT ![next] = @ + 1]
        /\ rolls[next] # max => U = T /\ scores' = scores
    <3>1. CASE rolls[next] = max
      <4> DEFINE n == scores[next] + 1
      <4>1. scores' = [scores EXCEPT ![next] = n] /\ n \in Int /\ n - scores[next] = 1
        BY <1>1, <1>6, <3>1 DEF Dice!Award
      <4> HIDE DEF n
      <4>2. scores \in [Dice!Players -> Int]
        BY <1>1
      <4>3. next \in Dice!Players /\ n \in Int /\ IsFiniteSet(Dice!Players)
        BY <1>1, <4>1
      <4>4. SumFunctionOnSet([scores EXCEPT ![next] = n], Dice!Players) = T + (n - scores[next])
        BY ONLY <4>2, <4>3, SumExcept
      <4> QED BY <3>1, <4>1, <4>4 DEF n
    <3>2. CASE rolls[next] # max
      BY <1>6, <3>2 DEF Dice!Award
    <3> QED BY <3>1, <3>2
  <2> HIDE DEF T, U
  <2>7. U >= T /\ (rolls[next] = max => U >= T + 1)
    BY <1>2, <2>6
  <2>8. \A q \in Dice!Players : scores'[q] <= rounds[q] + 1 /\ (q >= next + 1 => scores'[q] <= rounds[q])
    <3> TAKE q \in Dice!Players
    <3>1. scores[q] \in Nat /\ rounds[q] \in Nat
      BY <1>1
    <3>2. scores'[q] = scores[q] \/ (q = next /\ scores'[q] = scores[q] + 1)
      BY <1>1, <2>6
    <3> QED BY <1>1, <2>5, <3>1, <3>2
  <2>9. rounds[0] \in Nat
    BY <1>1
  <2>10. (\E q \in Dice!Players : q <= next /\ rolls[q] = max) => U >= rounds[0] + 1
    <3> SUFFICES ASSUME NEW q \in Dice!Players, q <= next, rolls[q] = max PROVE U >= rounds[0] + 1
      OBVIOUS
    <3>1. CASE q = next
      BY <1>2, <2>5, <2>6, <2>9, <3>1
    <3>2. CASE q < next
      BY <1>2, <2>5, <2>6, <2>9, <3>2
    <3> QED BY <1>1, <3>1, <3>2
  <2>11. U >= rounds[0]
    BY <1>2, <2>5, <2>6, <2>9
  <2>12. CASE l = "award" /\ next' = next + 1
    <3>1. \A q \in Dice!Players : q < next' <=> q <= next
      BY <1>1, <2>12
    <3> QED BY <2>1, <2>4, <2>8, <2>10, <2>11, <2>12, <3>1 DEF G_Scores, U
  <2>13. CASE l = "again" /\ next = PLAYER_COUNT - 1
    <3>1. \E q \in Dice!Players : q <= next /\ rolls[q] = max
      <4>1. \E q \in Dice!Players : rolls[q] = max
        BY <2>1 DEF G_Inv, G_Maximum
      <4> QED BY <2>13, <4>1
    <3>2. \A q \in Dice!Players : dpc'[q] = "again"
      BY <2>4, <2>13
    <3> QED BY <2>1, <2>8, <2>10, <3>1, <3>2 DEF G_Scores, U
  <2> QED BY <2>3, <2>12, <2>13
<1>7. CASE Dice!OpenAgain
  <2>1. /\ UNCHANGED scores /\ \A p \in Dice!Players : dpc[p] = "again"
        /\ \A p \in Dice!Players : rounds'[p] = rounds[p] + 1 /\ dpc'[p] \in {"roll", "end"}
    BY <1>7 DEF Dice!OpenAgain, Dice!Following
  <2>2. T >= rounds[0] + 1 /\ \A p \in Dice!Players : scores[p] <= rounds[p] + 1
    BY <2>1 DEF G_Scores
  <2> QED BY <2>1, <2>2 DEF G_Scores
<1>8. CASE UNCHANGED Dice!vars
  BY <1>8 DEF Dice!vars, G_Scores
<1> QED BY <1>3, <1>4, <1>5, <1>6, <1>7, <1>8 DEF Dice!Next, Dice!PlayerStep

LEMMA G_Printed == Dice!Spec => []Dice!PointsPerRound
<1>1. G_Inv /\ G_Scores => Dice!PointsPerRound
  <2> SUFFICES ASSUME G_Inv, G_Scores, \A p \in Dice!Players : dpc[p] \in {"roll", "end"}
               PROVE  /\ Dice!SumFunction(scores) >= rounds[0]
                      /\ \A p \in Dice!Players : scores[p] <= rounds[p]
    BY DEF Dice!PointsPerRound
  <2>1. DOMAIN scores = Dice!Players
    BY DEF G_Inv, G_TypeOK
  <2>2. Dice!SumFunction(scores) = SumFunctionOnSet(scores, Dice!Players)
    BY <2>1, G_Players
  <2> QED BY <2>2, G_Players DEF G_Scores
<1>2. G_Inv /\ G_Scores /\ G_Inv' /\ [Dice!Next]_Dice!vars => G_Scores'
  BY G_ScoresKept
<1> QED BY <1>1, <1>2, G_Init, G_Kept, G_ScoresInit, PTL DEF Dice!Spec

-----------------------------------------------------------------------------
(* prog20.c: the students *)

T_TypeOK ==
    /\ values \in [0 .. 3 -> Int]
    /\ spc \in [StudentThreads -> {"increment", "nap", "asleep", "decrement", "cleanup",
                                   "engineer", "expelled"}]
    /\ year \in [StudentThreads -> 0 .. 3]
    /\ cancelled \subseteq StudentThreads /\ dean \in {"kick", "join", "print"}

\* A student who naps is in one of the first three years, and is cleaned up after
\* only when cancelled; main prints when all have ended.
T_Years ==
    /\ \A s \in StudentThreads :
          /\ spc[s] = "engineer" => year[s] = 3
          /\ spc[s] \in {"nap", "asleep", "decrement", "cleanup", "expelled"} => year[s] # 3
          /\ spc[s] \in {"cleanup", "expelled"} => s \in cancelled
    /\ dean = "print" => \A s \in StudentThreads : Student!Ended(s)

T_Counts == \A y \in 0 .. 3 : values[y] = Cardinality(Student!InYear(y))

T_Inv == T_TypeOK /\ T_Years /\ T_Counts

LEMMA T_Constants == IsFiniteSet(StudentThreads)
BY ProgramsAssumption DEF Student!StudentConstants, Student!IsFiniteSet, IsFiniteSet

LEMMA T_Finite ==
    /\ \A y \in 0 .. 3 : /\ IsFiniteSet(Student!InYear(y))
                         /\ Cardinality(Student!InYear(y)) \in Nat
<1>1. \A y \in 0 .. 3 : Student!InYear(y) \in SUBSET StudentThreads
  BY DEF Student!InYear
<1> QED BY <1>1, T_Constants, FS_Subset, FS_CardinalityType

LEMMA T_Init == Student!Init => T_Inv
<1> SUFFICES ASSUME Student!Init PROVE T_Inv
  OBVIOUS
<1>1. T_TypeOK /\ T_Years
  BY DEF Student!Init, T_TypeOK, T_Years, Student!Ended
<1>2. \A y \in 0 .. 3 : Student!InYear(y) = {} /\ values[y] = 0
  BY DEF Student!Init, Student!InYear
<1>3. T_Counts
  BY <1>2, FS_EmptySet DEF T_Counts
<1> QED BY <1>1, <1>3 DEF T_Inv

\* A student moves within a year, or comes into one, or leaves it.
LEMMA T_SameYears ==
    ASSUME T_Inv, UNCHANGED values, \A y \in 0 .. 3 : Student!InYear(y)' = Student!InYear(y)
    PROVE  T_Counts'
BY DEF T_Inv, T_Counts

LEMMA T_Increment ==
    ASSUME T_Inv, NEW s \in StudentThreads, Student!increment_counter(s)
    PROVE  T_Inv'
<1> DEFINE l == IF year[s] = 3 THEN "engineer" ELSE "nap"
           n == values[year[s]] + 1
<1>1. /\ spc[s] = "increment" /\ spc' = [spc EXCEPT ![s] = l]
      /\ values' = [values EXCEPT ![year[s]] = n] /\ UNCHANGED <<year, cancelled, dean>>
  BY DEF Student!increment_counter, Student!Goto
<1>2. l \in {"engineer", "nap"} /\ (l = "engineer" <=> year[s] = 3)
  OBVIOUS
<1>3. year[s] \in 0 .. 3 /\ n \in Int
  BY DEF T_Inv, T_TypeOK
<1> HIDE DEF l, n
<1>4. T_TypeOK'
  BY <1>1, <1>2, <1>3 DEF T_Inv, T_TypeOK
<1>5. \A t \in StudentThreads : spc'[t] = IF t = s THEN l ELSE spc[t]
  BY <1>1 DEF T_Inv, T_TypeOK
<1>6. T_Years'
  <2>1. dean # "print"
    BY <1>1 DEF T_Inv, T_Years, Student!Ended
  <2> QED BY <1>1, <1>2, <1>5, <2>1 DEF T_Inv, T_Years
<1>7. T_Counts'
  <2> SUFFICES ASSUME NEW y \in 0 .. 3 PROVE values'[y] = Cardinality(Student!InYear(y)')
    BY DEF T_Counts
  <2>1. values[y] = Cardinality(Student!InYear(y))
    BY DEF T_Inv, T_Counts
  <2>2. CASE y = year[s]
    <3>1. Student!InYear(y)' = Student!InYear(y) \cup {s} /\ s \notin Student!InYear(y)
      BY <1>1, <1>2, <1>5, <2>2 DEF Student!InYear
    <3>2. Cardinality(Student!InYear(y)') = Cardinality(Student!InYear(y)) + 1
      BY <3>1, T_Finite, FS_AddElement
    <3>3. values'[y] = values[y] + 1
      BY <1>1, <1>3, <2>2 DEF T_Inv, T_TypeOK, n
    <3> QED BY <2>1, <3>2, <3>3
  <2>3. CASE y # year[s]
    <3>1. Student!InYear(y)' = Student!InYear(y)
      BY <1>1, <1>5, <2>3 DEF Student!InYear
    <3>2. values'[y] = values[y]
      BY <1>1, <1>3, <2>3 DEF T_Inv, T_TypeOK
    <3> QED BY <2>1, <3>1, <3>2
  <2> QED BY <2>2, <2>3
<1> QED BY <1>4, <1>6, <1>7 DEF T_Inv

LEMMA T_Naps ==
    ASSUME T_Inv, NEW s \in StudentThreads, Student!msleep(s) \/ Student!Wake(s)
    PROVE  T_Inv'
<1>1. PICK l \in {"asleep", "decrement", "cleanup"} :
         /\ spc[s] \in {"nap", "asleep"} /\ spc' = [spc EXCEPT ![s] = l]
         /\ l = "cleanup" => s \in cancelled
         /\ UNCHANGED <<values, year, cancelled, dean>>
  BY DEF Student!msleep, Student!Wake, Student!Goto
<1>2. \A t \in StudentThreads : spc'[t] = IF t = s THEN l ELSE spc[t]
  BY <1>1 DEF T_Inv, T_TypeOK
<1>3. T_TypeOK'
  BY <1>1 DEF T_Inv, T_TypeOK
<1>4. T_Years'
  <2>1. dean # "print"
    BY <1>1 DEF T_Inv, T_Years, Student!Ended
  <2> QED BY <1>1, <1>2, <2>1 DEF T_Inv, T_Years
<1>5. \A y \in 0 .. 3 : Student!InYear(y)' = Student!InYear(y)
  BY <1>1, <1>2 DEF Student!InYear
<1> QED BY <1>1, <1>3, <1>4, <1>5, T_SameYears DEF T_Inv

LEMMA T_Decrement ==
    ASSUME T_Inv, NEW s \in StudentThreads, Student!decrement_counter(s)
    PROVE  T_Inv'
<1> DEFINE n == values[year[s]] - 1
<1>1. PICK l \in {"expelled", "increment"}, z \in 0 .. 3 :
         /\ spc[s] \in {"decrement", "cleanup"} /\ (l = "expelled" <=> spc[s] = "cleanup")
         /\ spc' = [spc EXCEPT ![s] = l] /\ year' = [year EXCEPT ![s] = z]
         /\ l = "expelled" => z = year[s]
         /\ values' = [values EXCEPT ![year[s]] = n] /\ UNCHANGED <<cancelled, dean>>
  <2>1. year[s] \in 0 .. 3 /\ (spc[s] \in {"decrement", "cleanup"} => year[s] + 1 \in 0 .. 3)
    BY DEF T_Inv, T_TypeOK, T_Years
  <2>2. year = [year EXCEPT ![s] = year[s]]
    BY DEF T_Inv, T_TypeOK
  <2>3. CASE spc[s] = "cleanup"
    BY <2>1, <2>2, <2>3 DEF Student!decrement_counter, Student!Goto
  <2>4. CASE spc[s] = "decrement"
    BY <2>1, <2>4 DEF Student!decrement_counter, Student!Goto
  <2> QED BY <2>3, <2>4 DEF Student!decrement_counter
<1>2. year[s] \in 0 .. 3 /\ n \in Int
  BY DEF T_Inv, T_TypeOK
<1> HIDE DEF n
<1>3. T_TypeOK'
  BY <1>1, <1>2 DEF T_Inv, T_TypeOK
<1>4. \A t \in StudentThreads : /\ spc'[t] = IF t = s THEN l ELSE spc[t]
                                /\ year'[t] = IF t = s THEN z ELSE year[t]
  BY <1>1 DEF T_Inv, T_TypeOK
<1>5. T_Years'
  <2>1. dean # "print"
    BY <1>1 DEF T_Inv, T_Years, Student!Ended
  <2> QED BY <1>1, <1>4, <2>1 DEF T_Inv, T_Years
<1>6. T_Counts'
  <2> SUFFICES ASSUME NEW y \in 0 .. 3 PROVE values'[y] = Cardinality(Student!InYear(y)')
    BY DEF T_Counts
  <2>1. values[y] = Cardinality(Student!InYear(y))
    BY DEF T_Inv, T_Counts
  <2>2. CASE y = year[s]
    <3>1. Student!InYear(y)' = Student!InYear(y) \ {s} /\ s \in Student!InYear(y)
      BY <1>1, <1>4, <2>2 DEF Student!InYear
    <3>2. Cardinality(Student!InYear(y)') = Cardinality(Student!InYear(y)) - 1
      BY <3>1, T_Finite, FS_RemoveElement
    <3>3. values'[y] = values[y] - 1
      BY <1>1, <1>2, <2>2 DEF T_Inv, T_TypeOK, n
    <3> QED BY <2>1, <3>2, <3>3
  <2>3. CASE y # year[s]
    <3>1. Student!InYear(y)' = Student!InYear(y)
      BY <1>1, <1>4, <2>3 DEF Student!InYear
    <3>2. values'[y] = values[y]
      BY <1>1, <1>2, <2>3 DEF T_Inv, T_TypeOK
    <3> QED BY <2>1, <3>1, <3>2
  <2> QED BY <2>2, <2>3
<1> QED BY <1>3, <1>5, <1>6 DEF T_Inv

LEMMA T_Dean ==
    ASSUME T_Inv, Student!kick_student \/ Student!TimeIsUp \/ Student!Join
    PROVE  T_Inv'
<1>1. /\ UNCHANGED <<values, spc, year>> /\ cancelled \subseteq cancelled'
      /\ cancelled' \subseteq StudentThreads /\ dean' \in {"kick", "join", "print"}
      /\ dean' = "print" => \A s \in StudentThreads : Student!Ended(s)
  BY DEF Student!kick_student, Student!TimeIsUp, Student!Join, T_Inv, T_TypeOK
<1>2. \A y \in 0 .. 3 : Student!InYear(y)' = Student!InYear(y)
  BY <1>1 DEF Student!InYear
<1>3. T_TypeOK' /\ T_Years'
  BY <1>1 DEF T_Inv, T_TypeOK, T_Years, Student!Ended
<1> QED BY <1>1, <1>2, <1>3, T_SameYears DEF T_Inv

\* When main prints, everybody is an engineer or expelled, and counted once.
LEMMA T_Correct == T_Inv => Student!CountersExact
<1> SUFFICES ASSUME T_Inv PROVE Student!CountersExact
  OBVIOUS
<1>1. \A y \in 0 .. 3 : values[y] = Cardinality(Student!InYear(y))
  BY DEF T_Inv, T_Counts
<1>2. ASSUME dean = "print"
      PROVE  /\ \A y \in 0 .. 2 : values[y] = 0
             /\ values[3] + Cardinality({s \in cancelled : spc[s] = "expelled"})
                  = Cardinality(StudentThreads)
  <2> DEFINE out == {s \in cancelled : spc[s] = "expelled"}
             in  == Student!InYear(3)
  <2>1. \A s \in StudentThreads : /\ spc[s] \in {"engineer", "expelled"}
                                  /\ spc[s] = "engineer" => year[s] = 3
                                  /\ spc[s] = "expelled" => s \in cancelled /\ year[s] # 3
    BY <1>2 DEF T_Inv, T_Years, Student!Ended
  <2>2. \A y \in 0 .. 2 : Student!InYear(y) = {}
    BY <2>1 DEF Student!InYear
  <2>3. \A y \in 0 .. 2 : values[y] = 0
    BY <1>1, <2>2, FS_EmptySet
  <2>4. out \cup in = StudentThreads /\ out \cap in = {} /\ out \subseteq StudentThreads
    BY <2>1 DEF Student!InYear, T_Inv, T_TypeOK
  <2>5. IsFiniteSet(out) /\ IsFiniteSet(in)
    BY <2>4, T_Constants, T_Finite, FS_Subset
  <2> HIDE DEF out, in
  <2>6. Cardinality(StudentThreads) = Cardinality(out) + Cardinality(in) - Cardinality(out \cap in)
    BY <2>4, <2>5, FS_Union
  <2>7. Cardinality(out) \in Nat /\ Cardinality(in) \in Nat /\ Cardinality(out \cap in) = 0
    BY <2>4, <2>5, FS_CardinalityType, FS_EmptySet
  <2>8. values[3] = Cardinality(in)
    BY <1>1 DEF in
  <2> QED BY <2>3, <2>6, <2>7, <2>8 DEF out
<1>3. \A S : Student!Cardinality(S) = Cardinality(S)
  BY DEF Student!Cardinality, Cardinality
<1> QED BY <1>1, <1>2, <1>3 DEF Student!CountersExact

LEMMA T_Printed == Student!Spec => []Student!CountersExact
<1>1. T_Inv /\ [Student!Next]_Student!vars => T_Inv'
  <2> SUFFICES ASSUME T_Inv, [Student!Next]_Student!vars PROVE T_Inv'
    OBVIOUS
  <2>1. CASE Student!kick_student \/ Student!TimeIsUp \/ Student!Join
    BY <2>1, T_Dean
  <2>2. ASSUME NEW s \in StudentThreads, Student!StudentStep(s) PROVE T_Inv'
    BY <2>2, T_Increment, T_Naps, T_Decrement DEF Student!StudentStep
  <2>3. CASE UNCHANGED Student!vars
    <3>1. UNCHANGED <<values, spc, year, cancelled, dean>>
      BY <2>3 DEF Student!vars
    <3>2. \A y \in 0 .. 3 : Student!InYear(y)' = Student!InYear(y)
      BY <3>1 DEF Student!InYear
    <3>3. T_TypeOK' /\ T_Years'
      BY <3>1 DEF T_Inv, T_TypeOK, T_Years, Student!Ended
    <3> QED BY <3>1, <3>2, <3>3, T_SameYears DEF T_Inv
  <2> QED BY <2>1, <2>2, <2>3 DEF Student!Next
<1> QED BY <1>1, T_Init, T_Correct, PTL DEF Student!Spec

-----------------------------------------------------------------------------
(* prog18.c: the ball throwers *)

B_TypeOK ==
    /\ balls_waiting \in Nat /\ balls_thrown \in Nat /\ bins \in [Balls!Bins -> Nat]
    /\ tpc \in [Throwers -> {"take", "throw", "count", "end"}]
    /\ final_balls_count \in Int
    /\ poll \in {<<"poll">>, <<"exit">>} \cup {<<"sum", b>> : b \in Balls!Bins}

At(l) == {t \in Throwers : tpc[t] = l}

\* Every ball waits, is in a hand, has landed or is counted; a ball in a bin is
\* counted, or is about to be.
B_Balls ==
    /\ balls_waiting + Cardinality(At("throw")) + Cardinality(At("count")) + balls_thrown
         = balls_count
    /\ SumFunctionOnSet(bins, Balls!Bins) = balls_thrown + Cardinality(At("count"))

\* The bins main has read when it comes to bin n.
Read(n) == [b \in Balls!Bins |-> IF b < n THEN bins[b] ELSE 0]

B_Main ==
    /\ poll = <<"poll">> => final_balls_count = 0
    /\ poll # <<"poll">> => balls_thrown >= balls_count
    /\ \A b \in Balls!Bins : poll = <<"sum", b>> =>
          final_balls_count = SumFunctionOnSet(Read(b), Balls!Bins)
    /\ poll = <<"exit">> => final_balls_count = balls_count

B_Inv == B_TypeOK /\ B_Balls /\ B_Main

LEMMA B_Constants ==
    /\ IsFiniteSet(Throwers) /\ balls_count \in Nat /\ BIN_COUNT \in Nat \ {0}
    /\ Balls!Bins = 0 .. BIN_COUNT - 1 /\ IsFiniteSet(Balls!Bins)
<1>1. IsFiniteSet(Throwers) /\ balls_count \in Nat /\ BIN_COUNT \in Nat \ {0}
  BY ProgramsAssumption DEF Balls!BallConstants, Balls!IsFiniteSet, IsFiniteSet
<1>2. Balls!Bins = 0 .. BIN_COUNT - 1
  BY DEF Balls!Bins
<1> QED BY <1>1, <1>2, FS_Interval

LEMMA B_Finite == \A l : IsFiniteSet(At(l)) /\ Cardinality(At(l)) \in Nat
<1>1. \A l : At(l) \in SUBSET Throwers
  BY DEF At
<1> QED BY <1>1, B_Constants, FS_Subset, FS_CardinalityType

\* Once all balls are counted nobody holds one.
LEMMA B_AllThrown ==
    ASSUME B_Inv, balls_thrown >= balls_count
    PROVE  /\ balls_waiting = 0 /\ balls_thrown = balls_count
           /\ \A t \in Throwers : tpc[t] \in {"take", "end"}
           /\ SumFunctionOnSet(bins, Balls!Bins) = balls_count
<1>1. /\ balls_waiting \in Nat /\ balls_thrown \in Nat /\ balls_count \in Nat
      /\ Cardinality(At("throw")) \in Nat /\ Cardinality(At("count")) \in Nat
  BY B_Constants, B_Finite DEF B_Inv, B_TypeOK
<1>2. /\ balls_waiting + Cardinality(At("throw")) + Cardinality(At("count")) + balls_thrown
           = balls_count
      /\ SumFunctionOnSet(bins, Balls!Bins) = balls_thrown + Cardinality(At("count"))
  BY DEF B_Inv, B_Balls
<1>3. /\ balls_waiting = 0 /\ balls_thrown = balls_count
      /\ Cardinality(At("throw")) = 0 /\ Cardinality(At("count")) = 0
  BY <1>1, <1>2
<1>4. At("throw") = {} /\ At("count") = {}
  BY <1>3, B_Finite, FS_EmptySet
<1>5. \A t \in Throwers : tpc[t] \in {"take", "end"}
  BY <1>4 DEF At, B_Inv, B_TypeOK
<1> QED BY <1>1, <1>2, <1>3, <1>5

LEMMA B_Init == Balls!Init => B_Inv
<1> SUFFICES ASSUME Balls!Init PROVE B_Inv
  OBVIOUS
<1>1. B_TypeOK /\ B_Main
  BY B_Constants DEF Balls!Init, B_TypeOK, B_Main
<1>2. At("throw") = {} /\ At("count") = {}
  BY DEF Balls!Init, At
<1>3. Cardinality(At("throw")) = 0 /\ Cardinality(At("count")) = 0
  BY <1>2, FS_EmptySet
<1>4. SumFunctionOnSet(bins, Balls!Bins) = 0 * Cardinality(Balls!Bins)
  BY B_Constants, SumOfEqual DEF Balls!Init
<1>5. Cardinality(Balls!Bins) \in Nat
  BY B_Constants, FS_CardinalityType
<1>6. SumFunctionOnSet(bins, Balls!Bins) = 0
  BY <1>4, <1>5
<1>7. B_Balls
  BY <1>3, <1>6, B_Constants DEF Balls!Init, B_Balls
<1> QED BY <1>1, <1>7 DEF B_Inv

\* A thrower goes from one label to another.
LEMMA B_Goto ==
    ASSUME B_TypeOK, NEW t \in Throwers, NEW l, NEW m, l # m, tpc[t] = l, Balls!Goto(t, m)
    PROVE  /\ Cardinality(At(l)') = Cardinality(At(l)) - 1
           /\ Cardinality(At(m)') = Cardinality(At(m)) + 1
           /\ \A k : k # l /\ k # m => Cardinality(At(k)') = Cardinality(At(k))
<1>1. \A u \in Throwers : tpc'[u] = IF u = t THEN m ELSE tpc[u]
  BY DEF Balls!Goto, B_TypeOK
<1>2. At(l)' = At(l) \ {t} /\ t \in At(l)
  BY <1>1 DEF At
<1>3. At(m)' = At(m) \cup {t} /\ t \notin At(m)
  BY <1>1 DEF At
<1>4. \A k : k # l /\ k # m => At(k)' = At(k)
  BY <1>1 DEF At
<1>5. Cardinality(At(l)') = Cardinality(At(l)) - 1
  BY <1>2, B_Finite, FS_RemoveElement
<1>6. Cardinality(At(m)') = Cardinality(At(m)) + 1
  BY <1>3, B_Finite, FS_AddElement
<1>7. \A k : k # l /\ k # m => Cardinality(At(k)') = Cardinality(At(k))
  BY <1>4
<1> QED BY <1>5, <1>6, <1>7

LEMMA B_Take == ASSUME B_Inv, NEW t \in Throwers, Balls!Take(t) PROVE B_Inv'
<1> USE DEF B_Inv
<1>1. /\ tpc[t] = "take" /\ UNCHANGED <<bins, balls_thrown, poll, final_balls_count>>
  BY DEF Balls!Take
<1>2. B_Main'
  BY <1>1 DEF B_Main, Read
<1>3. CASE balls_waiting > 0 /\ balls_waiting' = balls_waiting - 1 /\ Balls!Goto(t, "throw")
  <2>1. B_TypeOK'
    BY <1>1, <1>3 DEF B_TypeOK, Balls!Goto
  <2>2. /\ Cardinality(At("throw")') = Cardinality(At("throw")) + 1
        /\ Cardinality(At("count")') = Cardinality(At("count"))
    BY <1>1, <1>3, B_Goto
  <2>3. /\ Cardinality(At("throw")) \in Nat /\ Cardinality(At("count")) \in Nat
        /\ balls_waiting \in Nat /\ balls_thrown \in Nat
    BY B_Finite DEF B_TypeOK
  <2>4. B_Balls'
    BY <1>1, <1>3, <2>2, <2>3 DEF B_Balls
  <2> QED BY <1>2, <2>1, <2>4
<1>4. CASE UNCHANGED balls_waiting /\ Balls!Goto(t, "end")
  <2>1. B_TypeOK'
    BY <1>1, <1>4 DEF B_TypeOK, Balls!Goto
  <2>2. /\ Cardinality(At("throw")') = Cardinality(At("throw"))
        /\ Cardinality(At("count")') = Cardinality(At("count"))
    BY <1>1, <1>4, B_Goto
  <2>3. B_Balls'
    BY <1>1, <1>4, <2>2 DEF B_Balls
  <2> QED BY <1>2, <2>1, <2>3
<1> QED BY <1>3, <1>4 DEF Balls!Take

LEMMA B_Throw == ASSUME B_Inv, NEW t \in Throwers, Balls!Land(t) \/ Balls!Count(t) PROVE B_Inv'
<1> USE DEF B_Inv
<1>1. /\ tpc[t] \in {"throw", "count"} /\ UNCHANGED <<balls_waiting, poll, final_balls_count>>
  BY DEF Balls!Land, Balls!Count
<1>2. balls_thrown \in Nat /\ ~(balls_thrown >= balls_count)
  BY <1>1, B_AllThrown DEF B_TypeOK
<1>3. poll = <<"poll">> /\ final_balls_count = 0
  BY <1>2 DEF B_Main
<1>4. B_Main'
  <2>1. <<"poll">> # <<"exit">> /\ \A b \in Balls!Bins : <<"poll">> # <<"sum", b>>
    OBVIOUS
  <2> QED BY <1>1, <1>3, <2>1 DEF B_Main
<1>5. /\ Cardinality(At("throw")) \in Nat /\ Cardinality(At("count")) \in Nat
      /\ balls_waiting \in Nat
  BY B_Finite DEF B_TypeOK
<1>6. CASE Balls!Land(t)
  <2>1. PICK b \in Balls!Bins : bins' = [bins EXCEPT ![b] = @ + 1]
    BY <1>6 DEF Balls!Land
  <2>2. tpc[t] = "throw" /\ Balls!Goto(t, "count") /\ UNCHANGED balls_thrown
    BY <1>6 DEF Balls!Land
  <2>3. B_TypeOK'
    BY <1>1, <2>1, <2>2 DEF B_TypeOK, Balls!Goto
  <2>4. /\ Cardinality(At("throw")') = Cardinality(At("throw")) - 1
        /\ Cardinality(At("count")') = Cardinality(At("count")) + 1
    BY <2>2, B_Goto
  <2>5. SumFunctionOnSet(bins', Balls!Bins) = SumFunctionOnSet(bins, Balls!Bins) + 1
    <3> DEFINE n == bins[b] + 1
    <3>1. bins \in [Balls!Bins -> Int] /\ bins[b] \in Int /\ bins' = [bins EXCEPT ![b] = n]
      BY <2>1 DEF B_TypeOK
    <3>2. n \in Int /\ n - bins[b] = 1
      BY <3>1
    <3> HIDE DEF n
    <3>3. IsFiniteSet(Balls!Bins) /\ b \in Balls!Bins
      BY B_Constants
    <3>4. SumFunctionOnSet([bins EXCEPT ![b] = n], Balls!Bins)
            = SumFunctionOnSet(bins, Balls!Bins) + (n - bins[b])
      BY ONLY <3>1, <3>2, <3>3, SumExcept
    <3> QED BY <3>1, <3>2, <3>4
  <2>6. SumFunctionOnSet(bins, Balls!Bins) = balls_thrown + Cardinality(At("count"))
    BY DEF B_Balls
  <2>7. B_Balls'
    BY <1>1, <1>2, <1>5, <2>2, <2>4, <2>5, <2>6 DEF B_Balls
  <2> QED BY <1>4, <2>3, <2>7
<1>7. CASE Balls!Count(t)
  <2>1. /\ tpc[t] = "count" /\ Balls!Goto(t, "take") /\ UNCHANGED bins
        /\ balls_thrown' = balls_thrown + 1
    BY <1>7 DEF Balls!Count
  <2>2. B_TypeOK'
    BY <1>1, <2>1 DEF B_TypeOK, Balls!Goto
  <2>3. /\ Cardinality(At("throw")') = Cardinality(At("throw"))
        /\ Cardinality(At("count")') = Cardinality(At("count")) - 1
    BY <2>1, B_Goto
  <2>4. B_Balls'
    BY <1>1, <1>2, <1>5, <2>1, <2>3 DEF B_Balls
  <2> QED BY <1>4, <2>2, <2>4
<1> QED BY <1>6, <1>7

\* Reading one more bin adds what is in it.
LEMMA B_ReadOne ==
    ASSUME B_TypeOK, NEW b \in Balls!Bins
    PROVE  /\ SumFunctionOnSet(Read(0), Balls!Bins) = 0
           /\ SumFunctionOnSet(Read(b + 1), Balls!Bins)
                = SumFunctionOnSet(Read(b), Balls!Bins) + bins[b]
           /\ SumFunctionOnSet(Read(BIN_COUNT), Balls!Bins) = SumFunctionOnSet(bins, Balls!Bins)
<1> USE B_Constants
<1>1. \A n \in Nat : \A c \in Balls!Bins : Read(n)[c] = IF c < n THEN bins[c] ELSE 0
  BY DEF Read
<1>2. \A c \in Balls!Bins : bins[c] \in Int /\ c \in Nat
  BY DEF B_TypeOK
<1>3. \A n \in Nat : \A c \in Balls!Bins : Read(n)[c] \in Int
  BY <1>1, <1>2
<1>4. SumFunctionOnSet(Read(0), Balls!Bins) = 0
  <2>1. \A c \in Balls!Bins : Read(0)[c] = 0
    BY <1>1, <1>2
  <2>2. SumFunctionOnSet(Read(0), Balls!Bins) = 0 * Cardinality(Balls!Bins)
    BY <2>1, SumOfEqual
  <2>3. Cardinality(Balls!Bins) \in Nat
    BY FS_CardinalityType
  <2> QED BY <2>2, <2>3
<1>5. SumFunctionOnSet(Read(b + 1), Balls!Bins) = SumFunctionOnSet(Read(b), Balls!Bins) + bins[b]
  <2> DEFINE f == Read(b)
             g == Read(b + 1)
  <2>1. b \in Nat /\ b + 1 \in Nat
    BY <1>2
  <2>2. /\ \A c \in Balls!Bins : f[c] \in Int /\ g[c] \in Int
        /\ \A c \in Balls!Bins : c # b => g[c] = f[c]
        /\ f[b] = 0 /\ g[b] = bins[b]
    BY <1>1, <1>2, <1>3, <2>1
  <2> HIDE DEF f, g
  <2>3. SumFunctionOnSet(g, Balls!Bins) = SumFunctionOnSet(f, Balls!Bins) + (g[b] - f[b])
    <3>1. IsFiniteSet(Balls!Bins)
      OBVIOUS
    <3>2. \A c \in Balls!Bins : f[c] \in Int /\ g[c] \in Int
      BY <2>2
    <3>3. \A c \in Balls!Bins : c # b => g[c] = f[c]
      BY <2>2
    <3> QED BY ONLY <3>1, <3>2, <3>3, b \in Balls!Bins, SumUpdate
  <2>4. g[b] - f[b] = bins[b]
    BY <1>2, <2>2
  <2> QED BY <2>3, <2>4 DEF f, g
<1>6. SumFunctionOnSet(Read(BIN_COUNT), Balls!Bins) = SumFunctionOnSet(bins, Balls!Bins)
  <2>1. \A c \in Balls!Bins : Read(BIN_COUNT)[c] = bins[c]
    BY <1>1
  <2> QED BY <1>2, <2>1, SumSame
<1> QED BY <1>4, <1>5, <1>6

LEMMA B_MainSteps == ASSUME B_Inv, Balls!MainStep PROVE B_Inv'
<1> USE DEF B_Inv
<1>1. UNCHANGED <<balls_waiting, bins, balls_thrown, tpc>>
  BY DEF Balls!MainStep, Balls!Poll, Balls!Sum, Balls!ballVars
<1>2. B_Balls' /\ \A n : Read(n)' = Read(n)
  BY <1>1 DEF B_Balls, At, Read
<1>3. CASE Balls!Poll
  <2>1. poll = <<"poll">> /\ poll' = <<"sum", 0>> /\ balls_thrown >= balls_count
        /\ UNCHANGED final_balls_count /\ 0 \in Balls!Bins
    BY <1>3, B_Constants DEF Balls!Poll
  <2>2. B_TypeOK'
    BY <1>1, <2>1 DEF B_TypeOK
  <2>3. final_balls_count' = SumFunctionOnSet(Read(0), Balls!Bins)
    BY <2>1, B_ReadOne DEF B_Main
  <2>4. B_Main'
    <3>1. poll' # <<"poll">> /\ poll' # <<"exit">> /\ \A b : poll' = <<"sum", b>> => b = 0
      BY <2>1
    <3> QED BY <1>1, <1>2, <2>1, <2>3, <3>1 DEF B_Main
  <2> QED BY <1>2, <2>2, <2>4
<1>4. CASE Balls!Sum
  <2>1. poll[1] = "sum"
    BY <1>4 DEF Balls!Sum
  <2>2. PICK b \in Balls!Bins : poll = <<"sum", b>>
    BY <2>1 DEF B_TypeOK
  <2>3. /\ final_balls_count' = final_balls_count + bins[b]
        /\ poll' = IF b + 1 < BIN_COUNT THEN <<"sum", b + 1>> ELSE <<"exit">>
    BY <1>4, <2>2 DEF Balls!Sum
  <2>4. b \in Nat /\ bins[b] \in Nat /\ b < BIN_COUNT
    BY <2>2, B_Constants DEF B_TypeOK
  <2>5. balls_thrown >= balls_count
    BY <2>2 DEF B_Main
  <2>6. final_balls_count' = SumFunctionOnSet(Read(b + 1), Balls!Bins)
    BY <2>2, <2>3, B_ReadOne DEF B_Main
  <2>7. CASE b + 1 < BIN_COUNT
    <3>1. poll' = <<"sum", b + 1>> /\ b + 1 \in Balls!Bins
      BY <2>3, <2>4, <2>7, B_Constants
    <3>2. B_TypeOK'
      BY <1>1, <2>3, <2>4, <3>1 DEF B_TypeOK
    <3>3. poll' # <<"poll">> /\ poll' # <<"exit">> /\ \A c : poll' = <<"sum", c>> => c = b + 1
      BY <3>1
    <3>4. B_Main'
      BY <1>1, <1>2, <2>5, <2>6, <3>3 DEF B_Main
    <3> QED BY <1>2, <3>2, <3>4
  <2>8. CASE ~(b + 1 < BIN_COUNT)
    <3>1. poll' = <<"exit">> /\ b + 1 = BIN_COUNT
      BY <2>3, <2>4, <2>8, B_Constants
    <3>2. B_TypeOK'
      BY <1>1, <2>3, <2>4, <3>1 DEF B_TypeOK
    <3>3. final_balls_count' = balls_count
      BY <2>2, <2>5, <2>6, <3>1, B_ReadOne, B_AllThrown
    <3>4. poll' # <<"poll">> /\ \A c : poll' # <<"sum", c>>
      BY <3>1
    <3>5. B_Main'
      BY <1>1, <2>5, <3>3, <3>4 DEF B_Main
    <3> QED BY <1>2, <3>2, <3>5
  <2> QED BY <2>7, <2>8
<1> QED BY <1>3, <1>4 DEF Balls!MainStep

LEMMA B_Printed == Balls!Spec => []Balls!UnlockedReadsSafe
<1>1. B_Inv /\ [Balls!Next]_Balls!vars => B_Inv'
  <2> SUFFICES ASSUME B_Inv, [Balls!Next]_Balls!vars PROVE B_Inv'
    OBVIOUS
  <2>1. CASE Balls!MainStep
    BY <2>1, B_MainSteps
  <2>2. ASSUME NEW t \in Throwers, Balls!ThrowerStep(t) PROVE B_Inv'
    BY <2>2, B_Take, B_Throw DEF Balls!ThrowerStep
  <2>3. CASE UNCHANGED Balls!vars
    BY <2>3 DEF Balls!vars, Balls!ballVars, B_Inv, B_TypeOK, B_Balls, B_Main, At, Read
  <2> QED BY <2>1, <2>2, <2>3 DEF Balls!Next
<1>2. B_Inv => Balls!UnlockedReadsSafe
  <2> SUFFICES ASSUME B_Inv PROVE Balls!UnlockedReadsSafe
    OBVIOUS
  <2>1. poll # <<"poll">> => \A t \in Throwers : tpc[t] \in {"take", "end"}
    BY B_AllThrown DEF B_Inv, B_Main
  <2>2. poll = <<"exit">> => final_balls_count = balls_count
    BY DEF B_Inv, B_Main
  <2> QED BY <2>1, <2>2 DEF Balls!UnlockedReadsSafe
<1> QED BY <1>1, <1>2, B_Init, PTL DEF Balls!Spec

-----------------------------------------------------------------------------
(* prog19.c: the thread that handles signals *)

I_TypeOK ==
    /\ array \in [1 .. arraySize -> Int] /\ arrayCount \in Int /\ sent \in Int
    /\ mxArray \in BOOLEAN /\ printed \in Seq(Int)
    /\ main \in {<<"flag">>, <<"join">>, <<"end">>} \cup {<<"print", i>> : i \in 1 .. arraySize}

\* The items a signal may still remove: one that is pending, one that is handled.
I_Owed == (IF "SIGINT" \in pending THEN 1 ELSE 0) + (IF handler = "SIGINT" THEN 1 ELSE 0)

I_Count ==
    /\ arrayCount = Cardinality(Signal!Left(arraySize))
    /\ arrayCount >= arraySize - sent + I_Owed

\* The line holds the items left among the first n.
I_Line(n) ==
    /\ Len(printed) = Cardinality(Signal!Left(n))
    /\ \A i \in Signal!Left(n) : printed[Cardinality(Signal!Left(i))] = array[i]

\* While main prints it holds the mutex.
I_Printed == main[1] = "print" => mxArray /\ I_Line(main[2] - 1)

I_Inv == I_TypeOK /\ I_Count /\ I_Printed

LEMMA I_Constants == arraySize \in Nat \ {0} /\ INTS \in Nat
BY ProgramsAssumption DEF Signal!SignalConstants

\* The items left are counted one place at a time.
LEMMA I_Left ==
    /\ \A n \in Nat : IsFiniteSet(Signal!Left(n)) /\ Cardinality(Signal!Left(n)) \in Nat
    /\ Signal!Left(0) = {} /\ Cardinality(Signal!Left(0)) = 0
    /\ \A n \in Nat, m \in Nat : m <= n => Cardinality(Signal!Left(m)) <= Cardinality(Signal!Left(n))
    /\ \A n \in Nat : n # 0 =>
          IF array[n] = -1 THEN Signal!Left(n) = Signal!Left(n - 1)
          ELSE /\ Signal!Left(n) = Signal!Left(n - 1) \cup {n}
               /\ Cardinality(Signal!Left(n)) = Cardinality(Signal!Left(n - 1)) + 1
<1>1. \A n \in Nat : IsFiniteSet(Signal!Left(n)) /\ Cardinality(Signal!Left(n)) \in Nat
  <2> TAKE n \in Nat
  <2>1. IsFiniteSet(1 .. n) /\ Signal!Left(n) \in SUBSET (1 .. n)
    BY FS_Interval DEF Signal!Left
  <2> QED BY <2>1, FS_Subset, FS_CardinalityType
<1>2. Signal!Left(0) = {} /\ Cardinality(Signal!Left(0)) = 0
  <2>1. Signal!Left(0) = {}
    BY DEF Signal!Left
  <2> QED BY <2>1, FS_EmptySet
<1>3. ASSUME NEW n \in Nat, NEW m \in Nat, m <= n
      PROVE  Cardinality(Signal!Left(m)) <= Cardinality(Signal!Left(n))
  <2>1. Signal!Left(m) \in SUBSET Signal!Left(n)
    BY <1>3 DEF Signal!Left
  <2> QED BY <1>1, <2>1, FS_Subset
<1>4. ASSUME NEW n \in Nat, n # 0
      PROVE  IF array[n] = -1 THEN Signal!Left(n) = Signal!Left(n - 1)
             ELSE /\ Signal!Left(n) = Signal!Left(n - 1) \cup {n}
                  /\ Cardinality(Signal!Left(n)) = Cardinality(Signal!Left(n - 1)) + 1
  <2>1. /\ array[n] = -1 => Signal!Left(n) = Signal!Left(n - 1)
        /\ array[n] # -1 => Signal!Left(n) = Signal!Left(n - 1) \cup {n}
    BY <1>4 DEF Signal!Left, Signal!DELETED_ITEM
  <2>2. n \notin Signal!Left(n - 1) /\ n - 1 \in Nat
    BY <1>4 DEF Signal!Left
  <2>3. Cardinality(Signal!Left(n - 1) \cup {n}) = Cardinality(Signal!Left(n - 1)) + 1
    BY <1>1, <2>2, FS_AddElement
  <2> QED BY <2>1, <2>3
<1> QED BY <1>1, <1>2, <1>3, <1>4

LEMMA I_Init == Signal!Init => I_Inv
<1> SUFFICES ASSUME Signal!Init PROVE I_Inv
  OBVIOUS
<1> USE I_Constants
<1>1. main = <<"flag">> /\ I_Owed = 0 /\ sent = 0 /\ arrayCount = arraySize
  BY DEF Signal!Init, I_Owed
<1>2. I_TypeOK
  <2>1. array \in [1 .. arraySize -> Int]
    BY DEF Signal!Init
  <2>4. mxArray \in BOOLEAN
    BY Zenon DEF Signal!Init
  <2>2. printed \in Seq(Int)
    BY DEF Signal!Init
  <2>3. arrayCount \in Int /\ sent \in Int /\ main \in {<<"flag">>, <<"join">>, <<"end">>}
    BY <1>1
  <2> QED BY <2>1, <2>2, <2>3, <2>4 DEF I_TypeOK
<1>3. Signal!Left(arraySize) = 1 .. arraySize
  BY DEF Signal!Init, Signal!Left, Signal!DELETED_ITEM
<1>4. Cardinality(1 .. arraySize) = arraySize
  BY FS_Interval
<1> QED BY <1>1, <1>2, <1>3, <1>4 DEF I_Inv, I_Count, I_Printed

\* What changes neither the array nor the line.
LEMMA I_Same ==
    ASSUME I_Inv, UNCHANGED <<array, arrayCount, printed>>, sent' \in Int,
           I_TypeOK', arraySize - sent' + I_Owed' <= arrayCount,
           main'[1] = "print" => UNCHANGED <<main, mxArray>>
    PROVE  I_Inv'
<1>1. \A n : Signal!Left(n)' = Signal!Left(n)
  BY DEF Signal!Left
<1>2. I_Count'
  BY <1>1, I_Constants DEF I_Inv, I_Count, I_TypeOK
<1>3. I_Printed'
  BY <1>1 DEF I_Inv, I_Printed, I_Line
<1> QED BY <1>2, <1>3 DEF I_Inv

LEMMA I_Signals ==
    ASSUME I_Inv, \/ Signal!SigWait \/ Signal!HandleQuit \/ Signal!Join
                  \/ \E sig \in {"SIGINT", "SIGQUIT"} : Signal!Kill(sig)
    PROVE  I_Inv'
<1> USE I_Constants
<1>1. UNCHANGED <<array, arrayCount, printed, mxArray>> /\ I_TypeOK
  BY DEF Signal!SigWait, Signal!HandleQuit, Signal!Join, Signal!Kill, Signal!arrayVars, I_Inv
<1>2. main' = main \/ main' = <<"end">>
  BY DEF Signal!SigWait, Signal!HandleQuit, Signal!Join, Signal!Kill
<1>3. sent' \in Int /\ sent' - I_Owed' >= sent - I_Owed
  <2> USE DEF I_TypeOK, I_Owed
  <2>1. CASE Signal!SigWait
    BY <1>1, <2>1 DEF Signal!SigWait
  <2>2. CASE Signal!HandleQuit \/ Signal!Join
    BY <1>1, <2>2 DEF Signal!HandleQuit, Signal!Join
  <2>3. CASE Signal!Kill("SIGINT")
    BY <1>1, <2>3 DEF Signal!Kill
  <2>4. CASE Signal!Kill("SIGQUIT")
    BY <1>1, <2>4 DEF Signal!Kill
  <2> QED BY <2>1, <2>2, <2>3, <2>4
<1>4. I_TypeOK'
  BY <1>1, <1>2, <1>3 DEF I_TypeOK
<1>5. arraySize - sent' + I_Owed' <= arrayCount
  <2>1. arrayCount >= arraySize - sent + I_Owed /\ arrayCount \in Int /\ sent \in Int
    BY DEF I_Inv, I_Count, I_TypeOK
  <2>2. I_Owed \in Int /\ I_Owed' \in Int
    BY DEF I_Owed
  <2>3. ASSUME NEW o \in Int, NEW p \in Int, NEW s \in Int, o = I_Owed, p = I_Owed', s = sent'
        PROVE  arraySize - s + p <= arrayCount
    <3>1. s - p >= sent - o /\ arrayCount >= arraySize - sent + o
      BY <1>3, <2>1, <2>3
    <3> QED BY ONLY <2>1, <3>1, o \in Int, p \in Int, s \in Int, I_Constants
  <2> QED BY <1>3, <2>2, <2>3
<1>6. main'[1] = "print" => UNCHANGED <<main, mxArray>>
  BY <1>1, <1>2
<1> QED BY <1>1, <1>3, <1>4, <1>5, <1>6, I_Same

LEMMA I_HandleInt == I_Inv /\ Signal!HandleInt => I_Inv'
<1> SUFFICES ASSUME I_Inv, Signal!HandleInt PROVE I_Inv'
  OBVIOUS
<1> USE I_Constants
<1>1. /\ handler = "SIGINT" /\ ~mxArray /\ handler' = "sigwait" /\ I_TypeOK
      /\ UNCHANGED <<mxArray, pending, sent, main, printed>>
  BY DEF Signal!HandleInt, I_Inv
<1>2. main[1] # "print"
  BY <1>1 DEF I_Inv, I_Printed
<1>3. I_Owed' = I_Owed - 1 /\ I_Owed \in Int
  BY <1>1 DEF I_Owed
<1>4. /\ arrayCount = Cardinality(Signal!Left(arraySize))
      /\ arrayCount >= arraySize - sent + I_Owed
  BY DEF I_Inv, I_Count
<1>5. CASE arrayCount > 0
  <2>1. PICK i \in Signal!Left(arraySize) : array' = [array EXCEPT ![i] = -1] /\ arrayCount' = arrayCount - 1
    BY <1>5 DEF Signal!HandleInt, Signal!removeItem, Signal!DELETED_ITEM
  <2>2. i \in 1 .. arraySize /\ Signal!Left(arraySize)' = Signal!Left(arraySize) \ {i}
    BY <1>1, <2>1 DEF Signal!Left, Signal!DELETED_ITEM, I_TypeOK
  <2>3. Cardinality(Signal!Left(arraySize) \ {i}) = Cardinality(Signal!Left(arraySize)) - 1
    BY <2>1, I_Left, FS_RemoveElement
  <2>4. I_Count'
    BY <1>1, <1>3, <1>4, <2>1, <2>2, <2>3 DEF I_Count, I_TypeOK
  <2>5. I_TypeOK'
    BY <1>1, <2>1, <2>2 DEF I_TypeOK
  <2> QED BY <1>1, <1>2, <2>4, <2>5 DEF I_Inv, I_Printed
<1>6. CASE ~(arrayCount > 0)
  <2>1. UNCHANGED <<array, arrayCount>>
    BY <1>6 DEF Signal!HandleInt, Signal!arrayVars
  <2>2. I_TypeOK' /\ arraySize - sent' + I_Owed' <= arrayCount
    BY <1>1, <1>3, <1>4, <2>1 DEF I_TypeOK
  <2> QED BY <1>1, <2>1, <2>2, I_Same DEF I_TypeOK
<1> QED BY <1>5, <1>6

LEMMA I_TestFlag == I_Inv /\ Signal!TestFlag => I_Inv'
<1> SUFFICES ASSUME I_Inv, Signal!TestFlag PROVE I_Inv'
  OBVIOUS
<1> USE I_Constants
<1>1. UNCHANGED <<array, arrayCount, pending, sent, handler>> /\ I_TypeOK
  BY DEF Signal!TestFlag, Signal!arrayVars, I_Inv
<1>2. \A n : Signal!Left(n)' = Signal!Left(n)
  BY <1>1 DEF Signal!Left
<1>3. I_Count'
  BY <1>1, <1>2 DEF I_Inv, I_Count, I_Owed
<1>4. CASE main' = <<"join">> /\ UNCHANGED <<mxArray, printed>>
  BY <1>1, <1>3, <1>4 DEF I_Inv, I_TypeOK, I_Printed
<1>5. CASE main' = <<"print", 1>> /\ mxArray' = TRUE /\ printed' = <<>>
  <2>1. I_TypeOK'
    BY <1>1, <1>5 DEF I_TypeOK
  <2>2. main'[2] - 1 = 0 /\ Len(printed') = 0
    BY <1>5
  <2>3. I_Line(0)'
    BY <1>2, <2>2, I_Left DEF I_Line
  <2> QED BY <1>3, <1>5, <2>1, <2>2, <2>3 DEF I_Inv, I_Printed
<1> QED BY <1>4, <1>5 DEF Signal!TestFlag

LEMMA I_printArray == I_Inv /\ Signal!printArray => I_Inv'
<1> SUFFICES ASSUME I_Inv, Signal!printArray PROVE I_Inv'
  OBVIOUS
<1> USE I_Constants
<1>1. PICK i \in 1 .. arraySize : i = main[2] /\ I_Line(i - 1)
  BY DEF Signal!printArray, I_TypeOK, I_Inv, I_Printed
<1>2. /\ UNCHANGED <<array, arrayCount, pending, sent, handler>> /\ I_TypeOK
      /\ printed' = IF array[i] = -1 THEN printed ELSE Append(printed, array[i])
      /\ main' = IF i < arraySize THEN <<"print", i + 1>> ELSE <<"flag">>
      /\ mxArray' = (i < arraySize)
  BY <1>1 DEF Signal!printArray, Signal!arrayVars, Signal!DELETED_ITEM, I_Inv
<1>3. \A n : Signal!Left(n)' = Signal!Left(n)
  BY <1>2 DEF Signal!Left
<1>4. I_Count'
  BY <1>2, <1>3 DEF I_Inv, I_Count, I_Owed
<1>5. array[i] \in Int /\ printed \in Seq(Int)
  BY <1>2, <1>1 DEF I_TypeOK
<1>6. I_TypeOK'
  BY <1>1, <1>2, <1>5 DEF I_TypeOK
<1>7. /\ Len(printed') = Cardinality(Signal!Left(i))
      /\ \A j \in Signal!Left(i) : printed'[Cardinality(Signal!Left(j))] = array[j]
  <2>1. CASE array[i] = -1
    <3>1. Signal!Left(i) = Signal!Left(i - 1) /\ printed' = printed
      BY <1>2, <2>1, I_Left
    <3> QED BY <1>1, <3>1 DEF I_Line
  <2>2. CASE array[i] # -1
    <3>1. printed' = Append(printed, array[i]) /\ i \in Nat /\ i # 0
      BY <1>1, <1>2, <2>2
    <3>2. /\ Signal!Left(i) = Signal!Left(i - 1) \cup {i}
          /\ Cardinality(Signal!Left(i)) = Cardinality(Signal!Left(i - 1)) + 1
      BY <2>2, <3>1, I_Left
    <3>3. Len(printed) = Cardinality(Signal!Left(i - 1))
      BY <1>1 DEF I_Line
    <3>4. Len(printed') = Len(printed) + 1 /\ printed'[Len(printed) + 1] = array[i]
      BY <1>5, <3>1
    <3>5. ASSUME NEW j \in Signal!Left(i - 1)
          PROVE  printed'[Cardinality(Signal!Left(j))] = array[j]
      <4>1. j \in 1 .. i - 1 /\ array[j] # -1
        BY DEF Signal!Left, Signal!DELETED_ITEM
      <4>2. j \in Nat /\ j # 0 /\ j - 1 \in Nat /\ i - 1 \in Nat /\ j <= i - 1
        BY <3>1, <4>1
      <4>3. /\ Cardinality(Signal!Left(j)) = Cardinality(Signal!Left(j - 1)) + 1
            /\ Cardinality(Signal!Left(j - 1)) \in Nat
            /\ Cardinality(Signal!Left(j)) <= Cardinality(Signal!Left(i - 1))
        BY <4>1, <4>2, I_Left
      <4>4. Cardinality(Signal!Left(j)) \in 1 .. Len(printed)
        BY <1>5, <3>3, <4>3
      <4>5. printed[Cardinality(Signal!Left(j))] = array[j]
        BY <1>1 DEF I_Line
      <4> QED BY <1>5, <3>1, <4>4, <4>5
    <3> QED BY <3>2, <3>3, <3>4, <3>5
  <2> QED BY <2>1, <2>2
<1>8. I_Printed'
  <2>1. CASE i < arraySize
    <3>1. main'[1] = "print" /\ main'[2] - 1 = i
      BY <1>2, <2>1
    <3>2. I_Line(i)'
      BY <1>2, <1>3, <1>7 DEF I_Line
    <3>3. mxArray'
      BY <1>2, <2>1, Zenon
    <3> QED BY <3>1, <3>2, <3>3 DEF I_Printed
  <2>2. CASE ~(i < arraySize)
    BY <1>2, <2>2 DEF I_Printed
  <2> QED BY <2>1, <2>2
<1> QED BY <1>4, <1>6, <1>8 DEF I_Inv

LEMMA I_Exact == Signal!Spec => []Signal!ArrayExact
<1>1. I_Inv /\ [Signal!Next]_Signal!vars => I_Inv'
  <2> SUFFICES ASSUME I_Inv, [Signal!Next]_Signal!vars PROVE I_Inv'
    OBVIOUS
  <2>1. CASE Signal!Next
    BY <2>1, I_Signals, I_HandleInt, I_TestFlag, I_printArray
       DEF Signal!Next, Signal!MainStep, Signal!HandlerStep
  <2>2. CASE UNCHANGED Signal!vars
    BY <2>2 DEF Signal!vars, Signal!arrayVars, I_Inv, I_TypeOK, I_Count, I_Owed, I_Printed, I_Line,
                Signal!Left
  <2> QED BY <2>1, <2>2
<1>2. I_Inv => Signal!ArrayExact
  <2> SUFFICES ASSUME I_Inv PROVE Signal!ArrayExact
    OBVIOUS
  <2>1. I_TypeOK /\ I_Count /\ I_Printed /\ I_Owed >= 0 /\ I_Owed \in Int
    BY DEF I_Inv, I_Owed
  <2>2. /\ arrayCount = Cardinality(Signal!Left(arraySize)) /\ arrayCount >= arraySize - sent
    BY <2>1, I_Constants DEF I_TypeOK, I_Count
  <2> QED BY <2>1, <2>2 DEF Signal!ArrayExact, I_Printed, I_Line, Signal!Cardinality, Cardinality
<1> QED BY <1>1, <1>2, I_Init, PTL DEF Signal!Spec

\* What main prints at the end of the programs of laboratories 3 and 4 is what
\* their threads did, for any number of threads, items, signals, rounds and faces:
\* the sum of the bins it reads without their mutexes is the number of balls
\* (prog18.c:128-146), the line printed is the array at one moment whenever a
\* signal comes (prog19.c:100-138), the counters are the years the students ended
\* in, cancelled or not (prog20.c:73-128), and the scores are the points of the
\* rounds that are over (prog23.c:39-45).
THEOREM WhatIsPrintedIsTrue ==
    Balls!Spec /\ Signal!Spec /\ Student!Spec /\ Dice!Spec => []PrintedIsTrue
BY B_Printed, I_Exact, T_Printed, G_Printed, PTL DEF PrintedIsTrue

-----------------------------------------------------------------------------
(* l5_5-2.c: persons and their message queues *)

Q_TypeOK ==
    /\ unread \in [Persons -> 0 .. MAX_MSG_COUNT] /\ notify \in [Persons -> BOOLEAN]
    /\ readers \in [Persons -> [register : Nat, drain : Nat]]
    /\ ppc \in [Persons -> {"handle_messages", "send", "gone"}]
    /\ group \in BOOLEAN

Q_Inv == Q_TypeOK /\ Person!SomebodyReads

LEMMA Q_Constants == MAX_MSG_COUNT \in Nat \ {0}
  BY ProgramsAssumption DEF Person!PersonConstants

LEMMA Q_Init == Person!Init => Q_Inv
  BY Q_Constants DEF Person!Init, Q_Inv, Q_TypeOK, Person!SomebodyReads, Person!Alive

\* A step that leaves the group alive and disturbs one person only.
LEMMA Q_OnePerson ==
    ASSUME Q_Inv, group, group', Q_TypeOK', NEW p \in Persons,
           \A q \in Persons : q # p => /\ unread'[q] = unread[q] /\ notify'[q] = notify[q]
                                       /\ readers'[q] = readers[q] /\ ppc'[q] = ppc[q],
           ppc'[p] # "gone" =>
               /\ unread'[p] > 0 => readers'[p].register + readers'[p].drain > 0
               /\ readers'[p].register = IF notify'[p] THEN 0 ELSE 1
    PROVE  Q_Inv'
  BY DEF Q_Inv, Person!SomebodyReads, Person!Alive

\* What an assignment to one person's readers leaves.
LEMMA Q_Assign ==
    ASSUME Q_TypeOK, NEW p \in Persons, NEW new \in [register : Nat, drain : Nat],
           readers' = [readers EXCEPT ![p] = new]
    PROVE  /\ readers' \in [Persons -> [register : Nat, drain : Nat]] /\ readers'[p] = new
           /\ \A q \in Persons : q # p => readers'[q] = readers[q]
  BY DEF Q_TypeOK

LEMMA Q_Reader ==
    ASSUME Q_Inv, NEW p \in Persons,
           Person!register_notification(p) \/ Person!Read(p) \/ Person!Drained(p)
    PROVE  Q_Inv'
<1>1. /\ group /\ ppc[p] # "gone"
      /\ unread[p] > 0 => readers[p].register + readers[p].drain > 0
      /\ readers[p].register = IF notify[p] THEN 0 ELSE 1
  BY DEF Person!register_notification, Person!Read, Person!Drained, Person!Alive, Q_Inv,
       Person!SomebodyReads
<1>2. /\ readers[p] \in [register : Nat, drain : Nat] /\ unread[p] \in 0 .. MAX_MSG_COUNT
      /\ notify[p] \in BOOLEAN
  BY DEF Q_Inv, Q_TypeOK
<1>3. CASE Person!register_notification(p)
  <2>1. /\ readers[p].register > 0 /\ notify' = [notify EXCEPT ![p] = TRUE] /\ group' = ~notify[p]
        /\ readers' = [readers EXCEPT ![p]["register"] = @ - 1, ![p]["drain"] = @ + 1]
        /\ UNCHANGED <<unread, ppc>>
    BY <1>3 DEF Person!register_notification, Person!Becomes
  <2>2. readers[p].register = 1 /\ ~notify[p]
    BY <1>1, <1>2, <2>1
  <2> DEFINE new == [readers[p] EXCEPT !["register"] = @ - 1, !["drain"] = @ + 1]
  <2>3. /\ new \in [register : Nat, drain : Nat] /\ new.register = 0
        /\ new.drain = readers[p].drain + 1 /\ new.drain > 0
    BY <1>2, <2>2
  <2>4. readers' = [readers EXCEPT ![p] = new]
    BY <2>1
  <2> HIDE DEF new
  <2>5. /\ readers' \in [Persons -> [register : Nat, drain : Nat]] /\ readers'[p] = new
        /\ \A q \in Persons : q # p => readers'[q] = readers[q]
    BY <2>3, <2>4, Q_Assign DEF Q_Inv
  <2>6. /\ Q_TypeOK' /\ group' /\ notify'[p]
        /\ \A q \in Persons : q # p => notify'[q] = notify[q]
    BY <2>1, <2>2, <2>5 DEF Q_Inv, Q_TypeOK
  <2> QED BY <1>1, <2>1, <2>3, <2>5, <2>6, Q_OnePerson
<1>4. CASE Person!Read(p)
  <2>1. /\ readers[p].drain > 0 /\ unread[p] > 0 /\ unread' = [unread EXCEPT ![p] = @ - 1]
        /\ UNCHANGED <<notify, readers, ppc, group>>
    BY <1>4 DEF Person!Read
  <2>2. unread[p] - 1 \in 0 .. MAX_MSG_COUNT
    BY <1>2, <2>1, Q_Constants
  <2>3. Q_TypeOK' /\ \A q \in Persons : q # p => unread'[q] = unread[q]
    BY <2>1, <2>2 DEF Q_Inv, Q_TypeOK
  <2>4. readers[p].register + readers[p].drain > 0
    BY <1>2, <2>1
  <2> QED BY <1>1, <2>1, <2>3, <2>4, Q_OnePerson
<1>5. CASE Person!Drained(p)
  <2>1. /\ readers[p].drain > 0 /\ unread[p] = 0
        /\ readers' = [readers EXCEPT ![p].drain = @ - 1] /\ UNCHANGED <<unread, notify, group>>
        /\ ppc' = [ppc EXCEPT ![p] = "send"] \/ ppc' = ppc
    BY <1>5 DEF Person!Drained
  <2> DEFINE new == [readers[p] EXCEPT !.drain = @ - 1]
  <2>2. new \in [register : Nat, drain : Nat] /\ new.register = readers[p].register
    BY <1>2, <2>1
  <2>3. readers' = [readers EXCEPT ![p] = new]
    BY <2>1
  <2> HIDE DEF new
  <2>4. /\ readers' \in [Persons -> [register : Nat, drain : Nat]] /\ readers'[p] = new
        /\ \A q \in Persons : q # p => readers'[q] = readers[q]
    BY <2>2, <2>3, Q_Assign DEF Q_Inv
  <2>5. Q_TypeOK' /\ \A q \in Persons : q # p => ppc'[q] = ppc[q]
    BY <2>1, <2>4 DEF Q_Inv, Q_TypeOK
  <2> QED BY <1>1, <2>1, <2>2, <2>4, <2>5, Q_OnePerson
<1> QED BY <1>3, <1>4, <1>5

LEMMA Q_Leave == ASSUME Q_Inv, NEW p \in Persons, Person!Leave(p) PROVE Q_Inv'
<1>1. /\ group /\ ppc' = [ppc EXCEPT ![p] = "gone"] /\ notify' = [notify EXCEPT ![p] = FALSE]
      /\ readers' = [readers EXCEPT ![p] = [register |-> 0, drain |-> 0]]
      /\ UNCHANGED <<unread, group>>
  BY DEF Person!Leave, Person!Alive
<1>2. Q_TypeOK'
  BY <1>1 DEF Q_Inv, Q_TypeOK
<1>3. /\ ppc'[p] = "gone"
      /\ \A q \in Persons : q # p => /\ readers'[q] = readers[q] /\ ppc'[q] = ppc[q]
                                     /\ notify'[q] = notify[q]
  BY <1>1 DEF Q_Inv, Q_TypeOK
<1> QED BY <1>1, <1>2, <1>3, Q_OnePerson

LEMMA Q_Send ==
    ASSUME Q_Inv, NEW p \in Persons, NEW r \in Persons, Person!send_message(p, r)
    PROVE  Q_Inv'
<1> USE Q_Constants
<1>1. group /\ UNCHANGED ppc
  BY DEF Person!send_message, Person!Alive
<1>2. /\ readers[r] \in [register : Nat, drain : Nat] /\ unread[r] \in 0 .. MAX_MSG_COUNT
      /\ notify[r] \in BOOLEAN
  BY DEF Q_Inv, Q_TypeOK
<1>3. ppc[r] # "gone" => /\ unread[r] > 0 => readers[r].register + readers[r].drain > 0
                         /\ readers[r].register = IF notify[r] THEN 0 ELSE 1
  BY <1>1 DEF Q_Inv, Person!SomebodyReads, Person!Alive
<1>4. CASE ~(unread[r] < MAX_MSG_COUNT)
  <2>1. group' = FALSE /\ UNCHANGED <<unread, notify, readers>>
    BY <1>4 DEF Person!send_message
  <2>2. unread[r] = MAX_MSG_COUNT
    BY <1>2, <1>4
  <2>3. Q_TypeOK'
    BY <1>1, <2>1 DEF Q_Inv, Q_TypeOK
  <2> QED BY <2>1, <2>2, <2>3 DEF Q_Inv, Person!SomebodyReads
<1>5. CASE unread[r] < MAX_MSG_COUNT
  <2>1. /\ unread' = [unread EXCEPT ![r] = @ + 1] /\ Person!Notification(r) /\ UNCHANGED group
    BY <1>5 DEF Person!send_message
  <2>2. /\ unread' \in [Persons -> 0 .. MAX_MSG_COUNT] /\ unread'[r] = unread[r] + 1
        /\ \A q \in Persons : q # r => unread'[q] = unread[q]
    <3>1. unread[r] + 1 \in 0 .. MAX_MSG_COUNT
      BY <1>2, <1>5
    <3> QED BY <2>1, <3>1 DEF Q_Inv, Q_TypeOK
  <2>3. CASE unread[r] = 0 /\ notify[r]
    <3>1. /\ readers' = [readers EXCEPT ![r].register = @ + 1]
          /\ notify' = [notify EXCEPT ![r] = FALSE]
      BY <2>1, <2>3 DEF Person!Notification
    <3> DEFINE new == [readers[r] EXCEPT !.register = @ + 1]
    <3>2. /\ new \in [register : Nat, drain : Nat] /\ new.register = readers[r].register + 1
          /\ new.register + new.drain > 0
      BY <1>2
    <3>3. readers' = [readers EXCEPT ![r] = new]
      BY <3>1
    <3> HIDE DEF new
    <3>4. /\ readers' \in [Persons -> [register : Nat, drain : Nat]] /\ readers'[r] = new
          /\ \A q \in Persons : q # r => readers'[q] = readers[q]
      BY <3>2, <3>3, Q_Assign DEF Q_Inv
    <3>5. /\ Q_TypeOK' /\ ~notify'[r] /\ \A q \in Persons : q # r => notify'[q] = notify[q]
      BY <1>1, <2>1, <2>2, <3>1, <3>4 DEF Q_Inv, Q_TypeOK
    <3>6. ppc[r] # "gone" => new.register = 1
      BY <1>3, <2>3, <3>2
    <3> QED BY <1>1, <2>1, <2>2, <3>2, <3>4, <3>5, <3>6, Q_OnePerson
  <2>4. CASE ~(unread[r] = 0 /\ notify[r])
    <3>1. UNCHANGED <<notify, readers>>
      BY <2>1, <2>4 DEF Person!Notification
    <3>2. Q_TypeOK'
      BY <1>1, <2>1, <2>2, <3>1 DEF Q_Inv, Q_TypeOK
    <3>3. ppc[r] # "gone" => readers[r].register + readers[r].drain > 0
      BY <1>2, <1>3, <2>4
    <3> QED BY <1>1, <1>3, <2>1, <2>2, <3>1, <3>2, <3>3, Q_OnePerson
  <2> QED BY <2>3, <2>4
<1> QED BY <1>4, <1>5

\* Who is there reads what is in its queue, at most one registration is pending or
\* about to be made, and the persons are killed only because a queue is full
\* (l5_5-2.c:45-77, 99-104, 117), for any number of persons and messages.
LEMMA Q_Reads == Person!Spec => []Person!SomebodyReads
<1>1. Q_Inv /\ [Person!Next]_Person!vars => Q_Inv'
  <2> SUFFICES ASSUME Q_Inv, [Person!Next]_Person!vars PROVE Q_Inv'
    OBVIOUS
  <2>1. ASSUME NEW p \in Persons, Person!PersonStep(p) PROVE Q_Inv'
    BY <2>1, Q_Reader, Q_Leave, Q_Send DEF Person!PersonStep
  <2>2. CASE UNCHANGED Person!vars
    BY <2>2 DEF Person!vars, Q_Inv, Q_TypeOK, Person!SomebodyReads, Person!Alive
  <2> QED BY <2>1, <2>2 DEF Person!Next
<1>2. Q_Inv => Person!SomebodyReads
  BY DEF Q_Inv
<1> QED BY <1>1, <1>2, Q_Init, PTL DEF Person!Spec

-----------------------------------------------------------------------------
(* prog22b.c: letters through pipes *)

W_Kinds == {"length", "data"}

W_TypeOK ==
    /\ living \subseteq Twins
    /\ mail \in [Twins -> Seq(Nat \ {0})] /\ holding \in [Twins -> Nat]
    /\ fds \in [Twins -> BOOLEAN] /\ R \in Seq(W_Kinds \X Nat)
    /\ posted \in Nat /\ shown \subseteq Nat /\ header \in Nat

\* Where letters are.
Mailed(k) == {mail[k][i] : i \in 1 .. Len(mail[k])}
Held(k)   == {holding[k]} \ {0}
Back      == {R[i][2] : i \in {j \in 1 .. Len(R) : R[j][1] = "data"}}

\* A letter is at one place,
W_Apart ==
    /\ \A k, j \in Twins : Mailed(k) \cap Held(j) = {}
    /\ \A k, j \in Twins : k # j => Mailed(k) \cap Mailed(j) = {} /\ Held(k) \cap Held(j) = {}
    /\ \A k \in Twins : (Mailed(k) \cup Held(k)) \cap (Back \cup shown) = {}
    /\ Back \cap shown = {} /\ Back \cup shown \subseteq 1 .. posted
    /\ \A k \in Twins : Mailed(k) \cup Held(k) \subseteq 1 .. posted

\* once,
W_Once ==
    /\ \A k \in Twins : \A i, j \in 1 .. Len(mail[k]) : mail[k][i] = mail[k][j] => i = j
    /\ \A i, j \in 1 .. Len(R) :
          R[i][1] = "data" /\ R[j][1] = "data" /\ R[i][2] = R[j][2] => i = j

\* and its packet is whole but for the length the parent has read.
W_Packets ==
    /\ \A i \in 1 .. Len(R) :
          R[i][1] = "length" => i < Len(R) /\ R[i + 1][1] = "data" /\ R[i + 1][2] = R[i][2]
    /\ \A i \in 2 .. Len(R) : R[i][1] = "data" => R[i - 1][1] = "length"
    /\ rpc = "data" => R # <<>> /\ R[1][1] = "data" /\ R[1][2] = header
    /\ rpc # "data" /\ R # <<>> => R[1][1] = "length"

W_Living == rpc \in {"echild", "killed"} => living = {}

W_Inv == W_TypeOK /\ W_Apart /\ W_Once /\ W_Packets /\ W_Living

LEMMA W_Init == Pipes!Init => W_Inv
<1> SUFFICES ASSUME Pipes!Init PROVE W_Inv
  OBVIOUS
<1>1. /\ living \subseteq Twins /\ mail = [k \in Twins |-> <<>>] /\ holding = [k \in Twins |-> 0]
      /\ fds \in [Twins -> BOOLEAN] /\ R = <<>> /\ posted = 0 /\ shown = {} /\ header = 0
      /\ rpc = "test"
  BY DEF Pipes!Init
<1>2. W_TypeOK
  BY <1>1, EmptySeq DEF W_TypeOK
<1>3. Len(R) = 0 /\ \A k \in Twins : Len(mail[k]) = 0
  BY <1>1
<1>4. Back = {} /\ \A k \in Twins : Mailed(k) = {} /\ Held(k) = {}
  BY <1>1, <1>3 DEF Back, Mailed, Held
<1>5. W_Apart
  BY <1>1, <1>4 DEF W_Apart
<1>6. W_Once /\ W_Packets /\ W_Living
  BY <1>1, <1>3 DEF W_Once, W_Packets, W_Living
<1> QED BY <1>2, <1>5, <1>6 DEF W_Inv

\* The first of what is in a pipe, and the rest.
LEMMA W_First ==
    ASSUME NEW S, NEW s \in Seq(S), s # <<>>
    PROVE  /\ Len(s) \in Nat \ {0} /\ Head(s) = s[1] /\ s[1] \in S
           /\ Tail(s) \in Seq(S) /\ Len(Tail(s)) = Len(s) - 1
           /\ \A i \in 1 .. Len(s) - 1 : Tail(s)[i] = s[i + 1]
<1>1. Len(s) \in Nat \ {0}
  BY EmptySeq
<1> QED BY <1>1, HeadTailProperties, ElementOfSeq

\* Steps that leave the letters where they are.
LEMMA W_Quiet ==
    ASSUME W_Inv, UNCHANGED <<mail, holding, R, posted, shown, header>>,
           living' \subseteq living, fds' \in [Twins -> BOOLEAN],
           rpc' = "data" <=> rpc = "data",
           rpc' \in {"echild", "killed"} => rpc \in {"echild", "killed"} \/ living = {}
    PROVE  W_Inv'
<1>1. W_TypeOK'
  BY DEF W_Inv, W_TypeOK
<1>2. Back' = Back /\ \A k \in Twins : Mailed(k)' = Mailed(k) /\ Held(k)' = Held(k)
  BY DEF Back, Mailed, Held
<1>3. W_Apart'
  BY <1>2 DEF W_Inv, W_Apart
<1>4. W_Once' /\ W_Packets'
  BY DEF W_Inv, W_Once, W_Packets
<1>5. W_Living'
  BY DEF W_Inv, W_Living
<1> QED BY <1>1, <1>3, <1>4, <1>5 DEF W_Inv

LEMMA W_ReadLetter == ASSUME W_Inv, NEW k \in Twins, Pipes!ReadLetter(k) PROVE W_Inv'
<1> DEFINE n == mail[k][1]
<1>1. /\ holding[k] = 0 /\ mail[k] # <<>> /\ mail' = [mail EXCEPT ![k] = Tail(mail[k])]
      /\ holding' = [holding EXCEPT ![k] = Head(mail[k])]
      /\ UNCHANGED <<living, R, fds, rpc, header, posted, shown>>
  BY DEF Pipes!ReadLetter, Pipes!parent
<1>2. mail[k] \in Seq(Nat \ {0})
  BY DEF W_Inv, W_TypeOK
<1>3. /\ Len(mail[k]) \in Nat \ {0} /\ Head(mail[k]) = n /\ n \in Nat \ {0}
      /\ Tail(mail[k]) \in Seq(Nat \ {0}) /\ Len(Tail(mail[k])) = Len(mail[k]) - 1
      /\ \A i \in 1 .. Len(mail[k]) - 1 : Tail(mail[k])[i] = mail[k][i + 1]
  BY <1>1, <1>2, W_First
<1>4. /\ mail'[k] = Tail(mail[k]) /\ holding'[k] = n
      /\ \A j \in Twins : j # k => mail'[j] = mail[j] /\ holding'[j] = holding[j]
  BY <1>1, <1>3 DEF W_Inv, W_TypeOK
<1>5. W_TypeOK'
  BY <1>1, <1>3 DEF W_Inv, W_TypeOK
<1>6. \A i, j \in 1 .. Len(mail[k]) : mail[k][i] = mail[k][j] => i = j
  BY DEF W_Inv, W_Once
<1>7. Mailed(k)' \subseteq Mailed(k) \ {n} /\ n \in Mailed(k)
  <2>1. ASSUME NEW x \in Mailed(k)' PROVE x \in Mailed(k) \ {n}
    <3>1. PICK i \in 1 .. Len(mail'[k]) : x = mail'[k][i]
      BY <2>1 DEF Mailed
    <3>2. i \in 1 .. Len(mail[k]) - 1 /\ x = mail[k][i + 1]
      BY <1>3, <1>4, <3>1
    <3>3. i + 1 \in 1 .. Len(mail[k]) /\ 1 \in 1 .. Len(mail[k]) /\ i + 1 # 1
      BY <1>3, <3>2
    <3>4. x # n
      BY <1>6, <3>2, <3>3
    <3> QED BY <3>2, <3>3, <3>4 DEF Mailed
  <2>2. 1 \in 1 .. Len(mail[k])
    BY <1>3
  <2> QED BY <2>1, <2>2 DEF Mailed
<1>8. Held(k)' = {n} /\ Back' = Back
  BY <1>1, <1>3, <1>4 DEF Held, Back
<1>9. \A j \in Twins : j # k => Mailed(j)' = Mailed(j) /\ Held(j)' = Held(j)
  BY <1>4 DEF Mailed, Held
<1> HIDE DEF n
<1>10. W_Apart'
  <2>1. /\ \A j, l \in Twins : Mailed(j) \cap Held(l) = {}
        /\ \A j, l \in Twins : j # l => Mailed(j) \cap Mailed(l) = {} /\ Held(j) \cap Held(l) = {}
        /\ \A j \in Twins : (Mailed(j) \cup Held(j)) \cap (Back \cup shown) = {}
        /\ Back \cap shown = {} /\ Back \cup shown \subseteq 1 .. posted
        /\ \A j \in Twins : Mailed(j) \cup Held(j) \subseteq 1 .. posted
    BY DEF W_Inv, W_Apart
  <2>2. \A j, l \in Twins : Mailed(j)' \cap Held(l)' = {}
    BY <1>7, <1>8, <1>9, <2>1
  <2>3. \A j, l \in Twins : j # l => Mailed(j)' \cap Mailed(l)' = {} /\ Held(j)' \cap Held(l)' = {}
    BY <1>7, <1>8, <1>9, <2>1
  <2>4. \A j \in Twins : (Mailed(j)' \cup Held(j)') \cap (Back' \cup shown') = {}
    BY <1>1, <1>7, <1>8, <1>9, <2>1
  <2>5. \A j \in Twins : Mailed(j)' \cup Held(j)' \subseteq 1 .. posted'
    BY <1>1, <1>7, <1>8, <1>9, <2>1
  <2> QED BY <1>1, <1>8, <2>1, <2>2, <2>3, <2>4, <2>5 DEF W_Apart
<1>11. W_Once'
  <2>1. \A i, j \in 1 .. Len(mail'[k]) : mail'[k][i] = mail'[k][j] => i = j
    BY <1>3, <1>4, <1>6
  <2>2. \A l \in Twins : \A i, j \in 1 .. Len(mail'[l]) : mail'[l][i] = mail'[l][j] => i = j
    BY <1>4, <2>1 DEF W_Inv, W_Once
  <2> QED BY <1>1, <2>2 DEF W_Inv, W_Once
<1>12. W_Packets' /\ W_Living'
  BY <1>1 DEF W_Inv, W_Packets, W_Living
<1> QED BY <1>5, <1>10, <1>11, <1>12 DEF W_Inv

\* The packet a child writes.
LEMMA W_Packet ==
    ASSUME W_Inv, NEW n \in Nat, R' = R \o <<<<"length", n>>, <<"data", n>>>>
    PROVE  /\ R' \in Seq(W_Kinds \X Nat) /\ Len(R') = Len(R) + 2 /\ Len(R) \in Nat
           /\ \A i \in 1 .. Len(R) : R'[i] = R[i]
           /\ R'[Len(R) + 1] = <<"length", n>> /\ R'[Len(R) + 2] = <<"data", n>>
<1> DEFINE s == <<<<"length", n>>, <<"data", n>>>>
<1>1. R \in Seq(W_Kinds \X Nat) /\ Len(R) \in Nat
  BY DEF W_Inv, W_TypeOK
<1>2. s \in Seq(W_Kinds \X Nat) /\ Len(s) = 2 /\ s[1] = <<"length", n>> /\ s[2] = <<"data", n>>
  BY DEF W_Kinds
<1> HIDE DEF s
<1>3. R' = R \o s
  BY DEF s
<1>4. /\ R \o s \in Seq(W_Kinds \X Nat) /\ Len(R \o s) = Len(R) + Len(s)
      /\ \A i \in 1 .. Len(R) + Len(s) : (R \o s)[i] = IF i <= Len(R) THEN R[i] ELSE s[i - Len(R)]
  BY <1>1, <1>2, ConcatProperties
<1>5. \A i \in 1 .. Len(R) : R'[i] = R[i]
  BY <1>1, <1>2, <1>3, <1>4
<1>6. R'[Len(R) + 1] = s[Len(R) + 1 - Len(R)] /\ R'[Len(R) + 2] = s[Len(R) + 2 - Len(R)]
  BY <1>1, <1>2, <1>3, <1>4
<1>7. Len(R) + 1 - Len(R) = 1 /\ Len(R) + 2 - Len(R) = 2
  BY <1>1
<1> QED BY <1>1, <1>2, <1>3, <1>4, <1>5, <1>6, <1>7

LEMMA W_WritePacket == ASSUME W_Inv, NEW k \in Twins, Pipes!WritePacket(k) PROVE W_Inv'
<1> DEFINE n == holding[k]
<1>1. /\ n # 0 /\ R' = R \o <<<<"length", n>>, <<"data", n>>>>
      /\ holding' = [holding EXCEPT ![k] = 0]
      /\ UNCHANGED <<living, mail, fds, rpc, header, posted, shown>>
  BY DEF Pipes!WritePacket, Pipes!parent
<1>2. n \in Nat
  BY DEF W_Inv, W_TypeOK
<1>3. n \in Held(k)
  BY <1>1, <1>2 DEF Held
<1>4. holding'[k] = 0 /\ \A j \in Twins : j # k => holding'[j] = holding[j]
  BY <1>1 DEF W_Inv, W_TypeOK
<1> HIDE DEF n
<1>5. /\ R' \in Seq(W_Kinds \X Nat) /\ Len(R') = Len(R) + 2 /\ Len(R) \in Nat
      /\ \A i \in 1 .. Len(R) : R'[i] = R[i]
      /\ R'[Len(R) + 1] = <<"length", n>> /\ R'[Len(R) + 2] = <<"data", n>>
  BY <1>1, <1>2, W_Packet
<1>6. W_TypeOK'
  BY <1>1, <1>5 DEF W_Inv, W_TypeOK
<1>7. Held(k)' = {} /\ \A j \in Twins : j # k => Held(j)' = Held(j)
  BY <1>4 DEF Held
<1>8. \A j \in Twins : Mailed(j)' = Mailed(j)
  BY <1>1 DEF Mailed
<1>9. Back' \subseteq Back \cup {n}
  <2>1. ASSUME NEW x \in Back' PROVE x \in Back \cup {n}
    <3>1. PICK i \in 1 .. Len(R') : R'[i][1] = "data" /\ x = R'[i][2]
      BY <2>1 DEF Back
    <3>2. i \in 1 .. Len(R) \/ i = Len(R) + 1 \/ i = Len(R) + 2
      BY <1>5, <3>1
    <3>3. CASE i \in 1 .. Len(R)
      BY <1>5, <3>1, <3>3 DEF Back
    <3>4. CASE i = Len(R) + 1 \/ i = Len(R) + 2
      BY <1>5, <3>1, <3>4
    <3> QED BY <3>2, <3>3, <3>4
  <2> QED BY <2>1
<1>10. W_Apart'
  <2>1. /\ \A j, l \in Twins : Mailed(j) \cap Held(l) = {}
        /\ \A j, l \in Twins : j # l => Mailed(j) \cap Mailed(l) = {} /\ Held(j) \cap Held(l) = {}
        /\ \A j \in Twins : (Mailed(j) \cup Held(j)) \cap (Back \cup shown) = {}
        /\ Back \cap shown = {} /\ Back \cup shown \subseteq 1 .. posted
        /\ \A j \in Twins : Mailed(j) \cup Held(j) \subseteq 1 .. posted
    BY DEF W_Inv, W_Apart
  <2>2. /\ \A j, l \in Twins : Mailed(j)' \cap Held(l)' = {}
        /\ \A j, l \in Twins : j # l => /\ Mailed(j)' \cap Mailed(l)' = {}
                                        /\ Held(j)' \cap Held(l)' = {}
    BY <1>7, <1>8, <2>1
  <2>3. \A j \in Twins : n \notin Mailed(j) /\ n \notin Held(j)'
    BY <1>3, <1>7, <2>1
  <2>4. \A j \in Twins : (Mailed(j)' \cup Held(j)') \cap (Back' \cup shown') = {}
    <3>1. shown' = shown
      BY <1>1
    <3>2. ASSUME NEW j \in Twins, NEW x \in Mailed(j)' \cup Held(j)' PROVE x \notin Back' \cup shown'
      <4>1. x \in Mailed(j) \cup Held(j) /\ x # n
        BY <1>7, <1>8, <2>3, <3>2
      <4>2. x \notin Back /\ x \notin shown
        BY <2>1, <4>1
      <4> QED BY <1>9, <3>1, <4>1, <4>2
    <3> QED BY <3>2
  <2>5. n \in 1 .. posted /\ n \notin shown
    BY <1>3, <2>1
  <2>6. /\ Back' \cap shown' = {} /\ Back' \cup shown' \subseteq 1 .. posted'
        /\ \A j \in Twins : Mailed(j)' \cup Held(j)' \subseteq 1 .. posted'
    BY <1>1, <1>7, <1>8, <1>9, <2>1, <2>5
  <2> QED BY <2>2, <2>4, <2>6 DEF W_Apart
<1>11. n \notin Back
  BY <1>3 DEF W_Inv, W_Apart
<1>12. \A i \in 1 .. Len(R) : R[i][1] = "data" => R[i][2] # n
  BY <1>11 DEF Back
<1>13. W_Once'
  <2>1. ASSUME NEW i \in 1 .. Len(R'), NEW j \in 1 .. Len(R'),
               R'[i][1] = "data", R'[j][1] = "data", R'[i][2] = R'[j][2]
        PROVE  i = j
    <3>1. (i \in 1 .. Len(R) \/ i = Len(R) + 2) /\ (j \in 1 .. Len(R) \/ j = Len(R) + 2)
      <4>1. R'[Len(R) + 1][1] = "length"
        BY <1>5
      <4>2. i # Len(R) + 1 /\ j # Len(R) + 1
        BY <2>1, <4>1
      <4> QED BY <1>5, <4>2
    <3>2. R'[Len(R) + 2][2] = n
      BY <1>5
    <3>3. CASE i \in 1 .. Len(R) /\ j \in 1 .. Len(R)
      BY <1>5, <2>1, <3>3 DEF W_Inv, W_Once
    <3>4. CASE i \in 1 .. Len(R) /\ j = Len(R) + 2
      BY <1>5, <1>12, <2>1, <3>2, <3>4
    <3>5. CASE j \in 1 .. Len(R) /\ i = Len(R) + 2
      BY <1>5, <1>12, <2>1, <3>2, <3>5
    <3> QED BY <3>1, <3>3, <3>4, <3>5
  <2> QED BY <1>1, <2>1 DEF W_Inv, W_Once
<1>14. W_Packets'
  <2>1. /\ R'[Len(R) + 1][1] = "length" /\ R'[Len(R) + 1][2] = n
        /\ R'[Len(R) + 2][1] = "data" /\ R'[Len(R) + 2][2] = n
    BY <1>5
  <2>2. ASSUME NEW i \in 1 .. Len(R'), R'[i][1] = "length"
        PROVE  i < Len(R') /\ R'[i + 1][1] = "data" /\ R'[i + 1][2] = R'[i][2]
    <3>1. CASE i \in 1 .. Len(R)
      <4>1. R[i][1] = "length"
        BY <1>5, <2>2, <3>1
      <4>2. i < Len(R) /\ R[i + 1][1] = "data" /\ R[i + 1][2] = R[i][2]
        BY <3>1, <4>1 DEF W_Inv, W_Packets
      <4>3. i + 1 \in 1 .. Len(R)
        BY <1>5, <3>1, <4>2
      <4> QED BY <1>5, <3>1, <4>2, <4>3
    <3>2. CASE i = Len(R) + 1
      <4>1. i + 1 = Len(R) + 2
        BY <1>5, <3>2
      <4> QED BY <1>5, <2>1, <3>2, <4>1
    <3>3. i # Len(R) + 2
      BY <2>1, <2>2
    <3> QED BY <1>5, <3>1, <3>2, <3>3
  <2>3. ASSUME NEW i \in 2 .. Len(R'), R'[i][1] = "data" PROVE R'[i - 1][1] = "length"
    <3>1. CASE i \in 1 .. Len(R)
      <4>1. i - 1 \in 1 .. Len(R) /\ i \in 2 .. Len(R)
        BY <1>5, <2>3, <3>1
      <4>2. R[i - 1][1] = "length"
        BY <1>5, <2>3, <3>1, <4>1 DEF W_Inv, W_Packets
      <4> QED BY <1>5, <4>1, <4>2
    <3>2. CASE i = Len(R) + 2
      <4>1. i - 1 = Len(R) + 1
        BY <1>5, <3>2
      <4> QED BY <2>1, <4>1
    <3>3. i # Len(R) + 1
      BY <2>1, <2>3
    <3>4. i \in 1 .. Len(R) \/ i = Len(R) + 1 \/ i = Len(R) + 2
      BY <1>5, <2>3
    <3> QED BY <3>1, <3>2, <3>3, <3>4
  <2>4. R # <<>> => R'[1] = R[1]
    <3>1. R # <<>> => Len(R) # 0
      BY EmptySeq DEF W_Inv, W_TypeOK
    <3> QED BY <1>5, <3>1
  <2>5. R = <<>> => R'[1][1] = "length"
    <3>1. R = <<>> => Len(R) + 1 = 1
      OBVIOUS
    <3> QED BY <2>1, <3>1
  <2>6. R' # <<>>
    BY <1>5
  <2> QED BY <1>1, <2>2, <2>3, <2>4, <2>5, <2>6 DEF W_Inv, W_Packets
<1>15. W_Living'
  BY <1>1 DEF W_Inv, W_Living
<1> QED BY <1>6, <1>10, <1>13, <1>14, <1>15 DEF W_Inv

LEMMA W_Killme == ASSUME W_Inv, NEW k \in Twins, Pipes!sig_killme(k) PROVE W_Inv'
<1>1. UNCHANGED <<R, fds, rpc, header, posted, shown>>
  BY DEF Pipes!sig_killme, Pipes!parent
<1>2. CASE UNCHANGED <<living, holding, mail>>
  <2>1. fds' \in [Twins -> BOOLEAN]
    BY <1>1 DEF W_Inv, W_TypeOK
  <2> QED BY <1>1, <1>2, <2>1, W_Quiet
<1>3. CASE /\ living' = living \ {k} /\ mail' = [mail EXCEPT ![k] = <<>>]
           /\ holding' = [holding EXCEPT ![k] = 0]
  <2>1. <<>> \in Seq(Nat \ {0})
    BY EmptySeq
  <2>2. W_TypeOK'
    BY <1>1, <1>3, <2>1 DEF W_Inv, W_TypeOK
  <2>3. /\ mail'[k] = <<>> /\ holding'[k] = 0
        /\ \A j \in Twins : j # k => mail'[j] = mail[j] /\ holding'[j] = holding[j]
    BY <1>3 DEF W_Inv, W_TypeOK
  <2>4. Mailed(k)' = {} /\ Held(k)' = {} /\ Back' = Back
    BY <1>1, <2>3 DEF Mailed, Held, Back
  <2>5. \A j \in Twins : j # k => Mailed(j)' = Mailed(j) /\ Held(j)' = Held(j)
    BY <2>3 DEF Mailed, Held
  <2>6. W_Apart'
    BY <1>1, <2>4, <2>5 DEF W_Inv, W_Apart
  <2>7. W_Once'
    <3>1. \A i \in 1 .. Len(mail'[k]) : FALSE
      BY <2>3
    <3> QED BY <1>1, <2>3, <3>1 DEF W_Inv, W_Once
  <2>8. W_Packets' /\ W_Living'
    BY <1>1, <1>3 DEF W_Inv, W_Packets, W_Living
  <2> QED BY <2>2, <2>6, <2>7, <2>8 DEF W_Inv
<1> QED BY <1>2, <1>3 DEF Pipes!sig_killme, Pipes!kids

LEMMA W_SendLetter == ASSUME W_Inv, Pipes!SendLetter PROVE W_Inv'
<1>1. /\ rpc = "send" /\ rpc' = "reset" /\ UNCHANGED <<living, holding, R, header, shown>>
  BY DEF Pipes!SendLetter, Pipes!kids
<1>2. CASE UNCHANGED <<mail, fds, posted>>
  <2>1. fds' \in [Twins -> BOOLEAN]
    BY <1>2 DEF W_Inv, W_TypeOK
  <2> QED BY <1>1, <1>2, <2>1, W_Quiet
<1>3. ASSUME NEW k \in Twins, posted' = posted + 1,
             \/ mail' = [mail EXCEPT ![k] = Append(@, posted')] /\ UNCHANGED fds
             \/ fds' = [fds EXCEPT ![k] = FALSE] /\ UNCHANGED mail
      PROVE  W_Inv'
  <2> DEFINE n == posted + 1
  <2>1. posted \in Nat /\ n \in Nat \ {0} /\ n \notin 1 .. posted /\ n \in 1 .. posted'
    BY <1>3 DEF W_Inv, W_TypeOK
  <2>2. 1 .. posted \subseteq 1 .. posted'
    BY <1>3, <2>1
  <2>3. mail[k] \in Seq(Nat \ {0})
    BY DEF W_Inv, W_TypeOK
  <2>4. /\ Append(mail[k], n) \in Seq(Nat \ {0}) /\ Len(Append(mail[k], n)) = Len(mail[k]) + 1
        /\ \A i \in 1 .. Len(mail[k]) : Append(mail[k], n)[i] = mail[k][i]
        /\ Append(mail[k], n)[Len(mail[k]) + 1] = n /\ Len(mail[k]) \in Nat
    BY <2>1, <2>3, AppendProperties
  <2>5. /\ W_TypeOK' /\ \A j \in Twins : j # k => mail'[j] = mail[j]
        /\ mail'[k] = mail[k] \/ mail'[k] = Append(mail[k], n)
    BY <1>1, <1>3, <2>1, <2>4 DEF W_Inv, W_TypeOK
  <2> HIDE DEF n
  <2>6. Back' = Back /\ \A j \in Twins : Held(j)' = Held(j)
    BY <1>1 DEF Back, Held
  <2>7. \A j \in Twins : j # k => Mailed(j)' = Mailed(j)
    BY <2>5 DEF Mailed
  <2>8. Mailed(k)' \subseteq Mailed(k) \cup {n}
    <3>1. CASE mail'[k] = mail[k]
      BY <3>1 DEF Mailed
    <3>2. CASE mail'[k] = Append(mail[k], n)
      <4>1. \A i \in 1 .. Len(mail'[k]) : i \in 1 .. Len(mail[k]) \/ i = Len(mail[k]) + 1
        BY <2>4, <3>2
      <4> QED BY <2>4, <3>2, <4>1 DEF Mailed
    <3> QED BY <2>5, <3>1, <3>2
  <2>9. W_Apart'
    <3>1. /\ \A j, l \in Twins : Mailed(j) \cap Held(l) = {}
          /\ \A j, l \in Twins : j # l => Mailed(j) \cap Mailed(l) = {} /\ Held(j) \cap Held(l) = {}
          /\ \A j \in Twins : (Mailed(j) \cup Held(j)) \cap (Back \cup shown) = {}
          /\ Back \cap shown = {} /\ Back \cup shown \subseteq 1 .. posted
          /\ \A j \in Twins : Mailed(j) \cup Held(j) \subseteq 1 .. posted
      BY DEF W_Inv, W_Apart
    <3>2. n \notin Back \cup shown /\ \A j \in Twins : n \notin Mailed(j) \cup Held(j)
      BY <2>1, <3>1
    <3>3. \A j, l \in Twins : Mailed(j)' \cap Held(l)' = {}
      BY <2>6, <2>7, <2>8, <3>1, <3>2
    <3>4. \A j, l \in Twins : j # l => Mailed(j)' \cap Mailed(l)' = {} /\ Held(j)' \cap Held(l)' = {}
      BY <2>6, <2>7, <2>8, <3>1, <3>2
    <3>5. \A j \in Twins : (Mailed(j)' \cup Held(j)') \cap (Back' \cup shown') = {}
      BY <1>1, <2>6, <2>7, <2>8, <3>1, <3>2
    <3>6. \A j \in Twins : Mailed(j)' \cup Held(j)' \subseteq 1 .. posted'
      BY <2>1, <2>2, <2>6, <2>7, <2>8, <3>1
    <3>7. Back' \cap shown' = {} /\ Back' \cup shown' \subseteq 1 .. posted'
      BY <1>1, <2>2, <2>6, <3>1
    <3> QED BY <3>3, <3>4, <3>5, <3>6, <3>7 DEF W_Apart
  <2>10. W_Once'
    <3>1. \A i \in 1 .. Len(mail[k]) : mail[k][i] # n
      <4>1. n \notin Mailed(k)
        BY <2>1 DEF W_Inv, W_Apart
      <4> QED BY <4>1 DEF Mailed
    <3>2. \A i, j \in 1 .. Len(mail[k]) : mail[k][i] = mail[k][j] => i = j
      BY DEF W_Inv, W_Once
    <3>3. \A i, j \in 1 .. Len(mail'[k]) : mail'[k][i] = mail'[k][j] => i = j
      <4>1. CASE mail'[k] = mail[k]
        BY <3>2, <4>1
      <4>2. CASE mail'[k] = Append(mail[k], n)
        <5>1. \A i \in 1 .. Len(mail'[k]) : i \in 1 .. Len(mail[k]) \/ i = Len(mail[k]) + 1
          BY <2>4, <4>2
        <5> QED BY <2>4, <3>1, <3>2, <4>2, <5>1
      <4> QED BY <2>5, <4>1, <4>2
    <3> QED BY <1>1, <2>5, <3>3 DEF W_Inv, W_Once
  <2>11. W_Packets' /\ W_Living'
    BY <1>1 DEF W_Inv, W_Packets, W_Living
  <2> QED BY <2>5, <2>9, <2>10, <2>11 DEF W_Inv
<1> QED BY <1>2, <1>3 DEF Pipes!SendLetter

LEMMA W_Read == ASSUME W_Inv, Pipes!ReadLength \/ Pipes!ReadData PROVE W_Inv'
<1>1. UNCHANGED <<living, holding, mail, fds, posted>>
  BY DEF Pipes!ReadLength, Pipes!ReadData, Pipes!kids
<1>2. CASE UNCHANGED <<header, R>> /\ Pipes!ReadLength
  <2>1. fds' \in [Twins -> BOOLEAN] /\ UNCHANGED shown
    BY <1>1, <1>2 DEF W_Inv, W_TypeOK, Pipes!ReadLength
  <2>2. rpc' = "data" => FALSE
    <3>1. Len(R) \in Nat /\ R # <<>> => Len(R) \in Nat \ {0}
      BY EmptySeq DEF W_Inv, W_TypeOK
    <3>2. R # <<>> => Tail(R) # R
      <4>1. R # <<>> => Len(Tail(R)) = Len(R) - 1
        BY W_First DEF W_Inv, W_TypeOK
      <4>2. Len(R) \in Nat
        BY DEF W_Inv, W_TypeOK
      <4>3. R # <<>> => Len(Tail(R)) # Len(R)
        BY <4>1, <4>2
      <4> QED BY <4>3
    <3> QED BY <1>2, <3>2 DEF Pipes!ReadLength
  <2>3. rpc # "data" /\ rpc' \notin {"echild", "killed"}
    BY <1>2, <2>2 DEF Pipes!ReadLength
  <2> QED BY <1>1, <1>2, <2>1, <2>2, <2>3, W_Quiet
<1>3. CASE R # <<>> /\ R' = Tail(R)
  <2>1. R \in Seq(W_Kinds \X Nat)
    BY DEF W_Inv, W_TypeOK
  <2>2. /\ Len(R) \in Nat \ {0} /\ Head(R) = R[1] /\ R[1] \in W_Kinds \X Nat
        /\ R' \in Seq(W_Kinds \X Nat) /\ Len(R') = Len(R) - 1
        /\ \A i \in 1 .. Len(R) - 1 : R'[i] = R[i + 1]
    BY <1>3, <2>1, W_First
  <2>3. R[1][2] \in Nat
    BY <2>2
  <2>4. /\ \A i \in 1 .. Len(R) :
              R[i][1] = "length" => i < Len(R) /\ R[i + 1][1] = "data" /\ R[i + 1][2] = R[i][2]
        /\ \A i \in 2 .. Len(R) : R[i][1] = "data" => R[i - 1][1] = "length"
        /\ rpc = "data" => R[1][1] = "data"
        /\ rpc # "data" => R[1][1] = "length"
    BY <1>3 DEF W_Inv, W_Packets
  <2>5. \A i \in 1 .. Len(R') : i + 1 \in 1 .. Len(R) /\ R'[i] = R[i + 1]
    <3>1. \A i \in 1 .. Len(R) - 1 : i + 1 \in 1 .. Len(R)
      BY <2>2
    <3>2. 1 .. Len(R') = 1 .. Len(R) - 1
      BY <2>2
    <3> QED BY <2>2, <3>1, <3>2
  <2>6. /\ Back' \subseteq Back /\ \A j \in Twins : Mailed(j)' = Mailed(j) /\ Held(j)' = Held(j)
    <3>1. \A j \in Twins : Mailed(j)' = Mailed(j) /\ Held(j)' = Held(j)
      BY <1>1 DEF Mailed, Held
    <3> QED BY <2>5, <3>1 DEF Back
  <2>7. W_Once'
    <3>1. ASSUME NEW i \in 1 .. Len(R'), NEW j \in 1 .. Len(R'),
                 R'[i][1] = "data", R'[j][1] = "data", R'[i][2] = R'[j][2]
          PROVE  i = j
      <4>1. i + 1 = j + 1
        BY <2>5, <3>1 DEF W_Inv, W_Once
      <4> QED BY <2>2, <4>1
    <3> QED BY <1>1, <3>1 DEF W_Inv, W_Once
  <2>8. /\ \A i \in 1 .. Len(R') :
              R'[i][1] = "length" => i < Len(R') /\ R'[i + 1][1] = "data" /\ R'[i + 1][2] = R'[i][2]
        /\ \A i \in 2 .. Len(R') : R'[i][1] = "data" => R'[i - 1][1] = "length"
    <3>1. ASSUME NEW i \in 1 .. Len(R'), R'[i][1] = "length"
          PROVE  i < Len(R') /\ R'[i + 1][1] = "data" /\ R'[i + 1][2] = R'[i][2]
      <4>1. i + 1 < Len(R) /\ R[i + 1 + 1][1] = "data" /\ R[i + 1 + 1][2] = R[i + 1][2]
        BY <2>4, <2>5, <3>1
      <4>2. i < Len(R') /\ i + 1 \in 1 .. Len(R')
        BY <2>2, <4>1
      <4> QED BY <2>5, <4>1, <4>2
    <3>2. ASSUME NEW i \in 2 .. Len(R'), R'[i][1] = "data" PROVE R'[i - 1][1] = "length"
      <4>1. i \in 1 .. Len(R') /\ i - 1 \in 1 .. Len(R') /\ i + 1 \in 2 .. Len(R)
            /\ i + 1 - 1 = i /\ i - 1 + 1 = i
        BY <2>2
      <4>2. R[i][1] = "length"
        BY <2>4, <2>5, <3>2, <4>1
      <4> QED BY <2>5, <4>1, <4>2
    <3> QED BY <3>1, <3>2
  <2>9. CASE Pipes!ReadLength
    <3>1. /\ rpc # "data" /\ rpc' = "data" /\ header' = R[1][2] /\ UNCHANGED shown
      BY <1>3, <2>2, <2>9 DEF Pipes!ReadLength
    <3>2. W_TypeOK'
      BY <1>1, <2>2, <2>3, <3>1 DEF W_Inv, W_TypeOK
    <3>3. W_Apart'
      BY <1>1, <2>6, <3>1 DEF W_Inv, W_Apart
    <3>4. 1 < Len(R) /\ R[2][1] = "data" /\ R[2][2] = R[1][2]
      <4>1. 1 \in 1 .. Len(R) /\ 1 + 1 = 2
        BY <2>2
      <4>2. 1 < Len(R) /\ R[1 + 1][1] = "data" /\ R[1 + 1][2] = R[1][2]
        BY <2>4, <3>1, <4>1
      <4> QED BY <4>1, <4>2
    <3>5. R' # <<>> /\ R'[1] = R[2]
      <4>1. 1 \in 1 .. Len(R) - 1 /\ 1 + 1 = 2 /\ Len(R') # 0
        <5> DEFINE l == Len(R)
                   m == Len(R')
        <5>1. l \in Nat /\ 1 < l /\ m = l - 1
          BY <2>2, <3>4
        <5> HIDE DEF l, m
        <5>2. 1 \in 1 .. l - 1 /\ 1 + 1 = 2 /\ m # 0
          BY <5>1
        <5> QED BY <5>2 DEF l, m
      <4> QED BY <2>2, <4>1
    <3>6. W_Packets' /\ W_Living'
      BY <2>8, <3>1, <3>4, <3>5 DEF W_Packets, W_Living
    <3> QED BY <2>7, <3>2, <3>3, <3>6 DEF W_Inv
  <2>10. CASE Pipes!ReadData
    <3> DEFINE n == R[1][2]
    <3>1. rpc = "data" /\ rpc' = "test" /\ shown' = shown \cup {n} /\ UNCHANGED header
      BY <2>2, <2>10 DEF Pipes!ReadData
    <3>2. W_TypeOK'
      BY <1>1, <2>2, <2>3, <3>1 DEF W_Inv, W_TypeOK
    <3>3. R[1][1] = "data" /\ 1 \in 1 .. Len(R)
      BY <2>2, <2>4, <3>1
    <3>4. n \in Back /\ n \notin Back'
      <4>1. n \in Back
        BY <3>3 DEF Back
      <4>2. \A i \in 1 .. Len(R') : R'[i][1] = "data" => R'[i][2] # n
        <5>1. \A i \in 1 .. Len(R') : i + 1 # 1
          BY <2>2
        <5> QED BY <2>5, <3>3, <5>1 DEF W_Inv, W_Once
      <4> QED BY <4>1, <4>2 DEF Back
    <3> HIDE DEF n
    <3>5. W_Apart'
      <4>1. /\ \A j, l \in Twins : Mailed(j) \cap Held(l) = {}
            /\ \A j, l \in Twins : j # l => Mailed(j) \cap Mailed(l) = {} /\ Held(j) \cap Held(l) = {}
            /\ \A j \in Twins : (Mailed(j) \cup Held(j)) \cap (Back \cup shown) = {}
            /\ Back \cap shown = {} /\ Back \cup shown \subseteq 1 .. posted
            /\ \A j \in Twins : Mailed(j) \cup Held(j) \subseteq 1 .. posted
        BY DEF W_Inv, W_Apart
      <4>2. \A j \in Twins : (Mailed(j)' \cup Held(j)') \cap (Back' \cup shown') = {}
        BY <2>6, <3>1, <3>4, <4>1
      <4>3. Back' \cap shown' = {} /\ Back' \cup shown' \subseteq 1 .. posted'
        BY <1>1, <2>6, <3>1, <3>4, <4>1
      <4> QED BY <1>1, <2>6, <4>1, <4>2, <4>3 DEF W_Apart
    <3>6. R' # <<>> => R'[1][1] = "length"
      <4>1. R' # <<>> => Len(R') # 0
        BY <2>2, EmptySeq
      <4>2. R' # <<>> => 1 \in 1 .. Len(R) - 1 /\ 1 + 1 = 2 /\ 2 \in 1 .. Len(R) /\ 2 \in 2 .. Len(R)
                         /\ 2 - 1 = 1
        BY <2>2, <4>1
      <4>3. R' # <<>> => R'[1] = R[2] /\ R[2] \in W_Kinds \X Nat
        BY <2>1, <2>2, <4>2, ElementOfSeq
      <4>4. R' # <<>> => R[2][1] # "data"
        BY <2>4, <3>3, <4>2
      <4>5. R' # <<>> => R[2][1] \in W_Kinds
        BY <4>3
      <4> QED BY <4>3, <4>4, <4>5 DEF W_Kinds
    <3>7. W_Packets' /\ W_Living'
      BY <2>8, <3>1, <3>6 DEF W_Packets, W_Living
    <3> QED BY <2>7, <3>2, <3>5, <3>7 DEF W_Inv
  <2> QED BY <2>9, <2>10
<1> QED BY <1>2, <1>3 DEF Pipes!ReadLength, Pipes!ReadData

LEMMA W_Rest ==
    ASSUME W_Inv, \/ Pipes!SigInt \/ Pipes!TestSignal \/ Pipes!Reset \/ Pipes!CheckErrno
                  \/ Pipes!sig_handler \/ Pipes!sigchld_handler \/ UNCHANGED Pipes!vars
    PROVE  W_Inv'
<1>1. UNCHANGED <<mail, holding, R, posted, shown, header, living, fds>>
  BY DEF Pipes!SigInt, Pipes!TestSignal, Pipes!Reset, Pipes!CheckErrno, Pipes!sig_handler,
       Pipes!sigchld_handler, Pipes!vars, Pipes!kids, Pipes!parent
<1>2. fds' \in [Twins -> BOOLEAN]
  BY <1>1 DEF W_Inv, W_TypeOK
<1>3. /\ rpc' = "data" <=> rpc = "data"
      /\ rpc' \in {"echild", "killed"} => rpc \in {"echild", "killed"} \/ living = {}
  BY DEF Pipes!SigInt, Pipes!TestSignal, Pipes!Reset, Pipes!CheckErrno, Pipes!sig_handler,
       Pipes!sigchld_handler, Pipes!vars, Pipes!Interrupts, Pipes!parent
<1> QED BY <1>1, <1>2, <1>3, W_Quiet

LEMMA W_Kept == W_Inv => Pipes!LettersKept
<1> SUFFICES ASSUME W_Inv PROVE Pipes!LettersKept
  OBVIOUS
<1> DEFINE back  == {R[i][2] : i \in {j \in DOMAIN R : R[j][1] = "data"}}
           there == UNION {Pipes!ToSet(mail[k]) \cup ({holding[k]} \ {0}) : k \in Twins}
<1>1. R \in Seq(W_Kinds \X Nat) /\ DOMAIN R = 1 .. Len(R)
  BY DEF W_Inv, W_TypeOK
<1>2. back = Back
  BY <1>1 DEF Back
<1>3. \A k \in Twins : Pipes!ToSet(mail[k]) = Mailed(k) /\ {holding[k]} \ {0} = Held(k)
  <2>1. \A k \in Twins : DOMAIN mail[k] = 1 .. Len(mail[k])
    BY DEF W_Inv, W_TypeOK
  <2> QED BY <2>1 DEF Pipes!ToSet, Mailed, Held
<1>4. \A x \in there : \E k \in Twins : x \in Mailed(k) \cup Held(k)
  BY <1>3
<1> HIDE DEF back, there
<1>5. /\ back \cap there = {} /\ shown \cap (back \cup there) = {}
      /\ back \cup there \cup shown \subseteq 1 .. posted
  BY <1>2, <1>4 DEF W_Inv, W_Apart
<1>6. rpc = "data" => R # <<>> /\ Head(R) = <<"data", header>>
  <2>1. ASSUME rpc = "data" PROVE R # <<>> /\ Head(R) = <<"data", header>>
    <3>1. R # <<>> /\ R[1][1] = "data" /\ R[1][2] = header
      BY <2>1 DEF W_Inv, W_Packets
    <3>2. Head(R) = R[1] /\ R[1] \in W_Kinds \X Nat
      BY <1>1, <3>1, W_First
    <3>3. R[1] = <<R[1][1], R[1][2]>>
      BY <3>2
    <3> QED BY <3>1, <3>2, <3>3
  <2> QED BY <2>1
<1>7. rpc = "killed" => living = {}
  BY DEF W_Inv, W_Living
<1> QED BY <1>5, <1>6, <1>7 DEF Pipes!LettersKept, back, there

\* A letter is with one child, on its way back or printed, never twice; its packet
\* arrives whole and behind its own length (prog22b.c:63-69, 89-112), for any
\* number of children and of C-c.
LEMMA W_Letters == Pipes!Spec => []Pipes!LettersKept
<1>1. W_Inv /\ [Pipes!Next]_Pipes!vars => W_Inv'
  <2> SUFFICES ASSUME W_Inv, [Pipes!Next]_Pipes!vars PROVE W_Inv'
    OBVIOUS
  <2>1. ASSUME NEW k \in Twins, Pipes!KidStep(k) PROVE W_Inv'
    BY <2>1, W_ReadLetter, W_WritePacket, W_Killme DEF Pipes!KidStep
  <2>2. CASE Pipes!ParentStep
    BY <2>2, W_SendLetter, W_Read, W_Rest DEF Pipes!ParentStep
  <2>3. CASE Pipes!SigInt \/ Pipes!Handlers \/ UNCHANGED Pipes!vars
    BY <2>3, W_Rest DEF Pipes!Handlers
  <2> QED BY <2>1, <2>2, <2>3 DEF Pipes!Next
<1> QED BY <1>1, W_Kept, W_Init, PTL DEF Pipes!Spec

-----------------------------------------------------------------------------
(* l5_5-1.c: bingo *)

N_Main     == {"fork", "store", "notify", "test", "send", "blocked", "interrupted", "retry",
               "end"} \cup Game!Sources
N_Handlers == {"register", "receive", "check", "wait", "echild"}

N_TypeOK ==
    /\ pin \in 0 .. QueueSize /\ pout \in Nat /\ registered \in BOOLEAN
    /\ signals \subseteq {"SIGRTMIN", "SIGCHLD"}
    /\ stack \in Seq(N_Main \cup N_Handlers) /\ Len(stack) >= 1
    /\ children_left \in Int /\ loaded \in Int /\ errno \in {"none", "EAGAIN", "ECHILD", "EINTR"}
    /\ kid \in [Kids -> {"unborn", "play", "bingo", "timeout", "exit", "zombie", "reaped"}]

\* A handler runs, which is at l.
In(l) == \E d \in 2 .. Len(stack) : stack[d] = l

\* Before the parent asks for notifications nothing is sent and nobody leaves.
Early == stack[1] \in {"fork", "store", "notify"}

N_Stack ==
    /\ stack[1] \in N_Main /\ \A d \in 2 .. Len(stack) : stack[d] \in N_Handlers
    /\ Early \/ Game!Killed \/ stack[1] \in {"end", "blocked"} => Len(stack) = 1

N_Early == Early => /\ pin = 0 /\ pout = 0 /\ ~registered /\ signals = {} /\ errno = "none"
                    /\ \A k \in Kids : kid[k] \in {"unborn", "play"}

\* Who is to read the answers, and who is to wait for the children.
N_Notified ==
    ~Early /\ ~Game!Killed =>
        /\ registered \/ "SIGRTMIN" \in signals \/ In("register")
        /\ pin > 0 => "SIGRTMIN" \in signals \/ In("register") \/ In("receive")
        /\ (\E k \in Kids : kid[k] = "zombie") => "SIGCHLD" \in signals \/ In("wait")

Alive == {k \in Kids : kid[k] \notin {"unborn", "reaped"}}

N_Count ==
    IF stack[1] = "store" THEN loaded = Cardinality(Alive) - 1
                          ELSE children_left = Cardinality(Alive)

\* What errno can be where it is tested.  Nobody is born after the last child has
\* been reaped.
N_Errno ==
    /\ errno = "ECHILD" => Game!NoChild
    /\ In("check") => errno \in {"EAGAIN", "ECHILD"}
    /\ In("echild") => Game!NoChild
    /\ stack[1] = "retry" => errno # "none"

N_Killed ==
    Game!Killed => \/ pin = QueueSize /\ stack[1] = "mq_send_pin"
                   \/ Game!NoChild
                   \/ errno = "EAGAIN" /\ stack[1] = "mq_send_pout"

N_Inv == N_TypeOK /\ N_Stack /\ N_Early /\ N_Notified /\ N_Count /\ N_Errno /\ N_Killed

LEMMA N_Constants == IsFiniteSet(Kids) /\ QueueSize \in Nat \ {0}
  BY ProgramsAssumption DEF Game!BingoConstants, Game!IsFiniteSet, IsFiniteSet

\* A child more, or a child less.
LEMMA N_Counts ==
    /\ IsFiniteSet(Alive) /\ Cardinality(Alive) \in Nat
    /\ \A k \in Kids :
          /\ k \notin Alive /\ Alive' = Alive \cup {k} => Cardinality(Alive') = Cardinality(Alive) + 1
          /\ k \in Alive /\ Alive' = Alive \ {k} => Cardinality(Alive') = Cardinality(Alive) - 1
<1>1. Alive \subseteq Kids
  BY DEF Alive
<1>2. IsFiniteSet(Alive)
  BY <1>1, N_Constants, FS_Subset
<1> QED BY <1>2, FS_CardinalityType, FS_AddElement, FS_RemoveElement

LEMMA N_Init == Game!Init => N_Inv
<1> SUFFICES ASSUME Game!Init PROVE N_Inv
  OBVIOUS
<1>1. /\ pin = 0 /\ pout = 0 /\ registered = FALSE /\ signals = {} /\ stack = <<"fork">>
      /\ children_left = 0 /\ loaded = 0 /\ errno = "none" /\ kid = [k \in Kids |-> "unborn"]
  BY DEF Game!Init
<1>2. stack[1] = "fork" /\ Len(stack) = 1 /\ stack \in Seq(N_Main \cup N_Handlers)
  BY <1>1 DEF N_Main, N_Handlers
<1>3. N_TypeOK
  <2>1. pin \in 0 .. QueueSize
    BY <1>1, N_Constants
  <2>2. kid \in [Kids -> {"unborn", "play", "bingo", "timeout", "exit", "zombie", "reaped"}]
    BY <1>1
  <2>3. registered \in BOOLEAN
    BY <1>1
  <2>4. Len(stack) >= 1 /\ pout \in Nat /\ children_left \in Int /\ loaded \in Int
    BY <1>1, <1>2
  <2>5. errno \in {"none", "EAGAIN", "ECHILD", "EINTR"} /\ signals \subseteq {"SIGRTMIN", "SIGCHLD"}
    BY <1>1
  <2> QED BY <1>2, <2>1, <2>2, <2>3, <2>4, <2>5 DEF N_TypeOK
<1>4. N_Stack /\ N_Early /\ N_Notified /\ N_Errno /\ N_Killed
  BY <1>1, <1>2 DEF N_Stack, N_Early, N_Notified, N_Errno, N_Killed, Early, In, N_Main, Game!Killed,
                    Game!Sources
<1>5. Alive = {}
  BY <1>1 DEF Alive
<1>6. N_Count
  BY <1>1, <1>2, <1>5, FS_EmptySet DEF N_Count
<1> QED BY <1>3, <1>4, <1>6 DEF N_Inv

LEMMA N_Labels ==
    /\ N_Main \cap N_Handlers = {} /\ Game!Sources \subseteq N_Main
    /\ Game!Sources \cap {"fork", "store", "notify", "test", "send", "blocked", "interrupted",
                         "retry", "end"} = {}
BY DEF N_Main, N_Handlers, Game!Sources

\* Main runs when no handler does.
LEMMA N_Top ==
    ASSUME N_Inv
    PROVE  /\ Len(stack) \in Nat \ {0}
           /\ Game!Top \in N_Main => Len(stack) = 1 /\ stack[1] = Game!Top
           /\ Game!Top \in N_Handlers => /\ Len(stack) >= 2 /\ ~Early /\ ~Game!Killed
                                         /\ stack[1] \notin {"end", "blocked"}
<1>1. Len(stack) \in Nat \ {0} /\ stack \in Seq(N_Main \cup N_Handlers)
  BY DEF N_Inv, N_TypeOK
<1>2. /\ stack[1] \in N_Main /\ \A d \in 2 .. Len(stack) : stack[d] \in N_Handlers
      /\ Early \/ Game!Killed \/ stack[1] \in {"end", "blocked"} => Len(stack) = 1
  BY DEF N_Inv, N_Stack
<1>3. Len(stack) # 1 => Len(stack) \in 2 .. Len(stack)
  BY <1>1
<1>4. Game!Top \in N_Main => Len(stack) = 1 /\ stack[1] = Game!Top
  BY <1>2, <1>3, N_Labels DEF Game!Top
<1>5. Game!Top \in N_Handlers => Len(stack) # 1
  BY <1>2, N_Labels DEF Game!Top
<1>6. Len(stack) # 1 => Len(stack) >= 2
  BY <1>1
<1> QED BY <1>1, <1>2, <1>4, <1>5, <1>6

\* What a jump leaves, and what a return.
LEMMA N_Goto ==
    ASSUME N_Inv, NEW l \in N_Main \cup N_Handlers, Game!Goto(l)
    PROVE  /\ stack' \in Seq(N_Main \cup N_Handlers) /\ Len(stack') = Len(stack)
           /\ stack'[Len(stack)] = l
           /\ \A d \in 1 .. Len(stack) : d # Len(stack) => stack'[d] = stack[d]
<1>1. stack \in Seq(N_Main \cup N_Handlers) /\ Len(stack) \in Nat \ {0}
  BY DEF N_Inv, N_TypeOK
<1>2. stack' = [stack EXCEPT ![Len(stack)] = l]
  BY DEF Game!Goto
<1> QED BY <1>1, <1>2

LEMMA N_Return ==
    ASSUME N_Inv, Len(stack) >= 2, Game!Return
    PROVE  /\ stack' \in Seq(N_Main \cup N_Handlers) /\ Len(stack') = Len(stack) - 1
           /\ \A d \in 1 .. Len(stack) - 1 : stack'[d] = stack[d]
<1>1. stack \in Seq(N_Main \cup N_Handlers) /\ Len(stack) \in Nat \ {0}
  BY DEF N_Inv, N_TypeOK
<1>2. stack' = SubSeq(stack, 1, Len(stack) - 1)
  BY DEF Game!Return
<1>3. \A i \in 1 .. Len(stack) - 1 : stack[i] \in N_Main \cup N_Handlers
  BY <1>1, ElementOfSeq
<1>4. 1 \in Int /\ Len(stack) - 1 \in Int /\ 1 <= Len(stack) - 1
  BY <1>1
<1>5. /\ SubSeq(stack, 1, Len(stack) - 1) \in Seq(N_Main \cup N_Handlers)
      /\ Len(SubSeq(stack, 1, Len(stack) - 1)) = Len(stack) - 1 - 1 + 1
      /\ \A i \in 1 .. Len(stack) - 1 - 1 + 1 :
            SubSeq(stack, 1, Len(stack) - 1)[i] = stack[1 + i - 1]
  BY <1>3, <1>4, SubSeqProperties
<1>6. Len(stack) - 1 - 1 + 1 = Len(stack) - 1 /\ \A i \in 1 .. Len(stack) - 1 : 1 + i - 1 = i
  BY <1>1
<1> QED BY <1>2, <1>5, <1>6

\* A step of main: no handler runs, and the stack is where main is.
LEMMA N_Jump ==
    ASSUME N_Inv, NEW l \in N_Main, Game!Top \in N_Main, Game!Goto(l)
    PROVE  /\ stack' \in Seq(N_Main \cup N_Handlers) /\ Len(stack') = 1 /\ stack'[1] = l
           /\ \A m : ~In(m) /\ ~In(m)'
<1>1. Len(stack) = 1
  BY N_Top
<1>2. /\ stack' \in Seq(N_Main \cup N_Handlers) /\ Len(stack') = Len(stack)
      /\ stack'[Len(stack)] = l
  BY N_Goto
<1> QED BY <1>1, <1>2 DEF In

\* Steps that kill nobody, once the children are there.
LEMMA N_Beside ==
    ASSUME N_TypeOK', ~Early', ~(Game!Killed'), stack'[1] \in N_Main,
           \A d \in 2 .. Len(stack') : stack'[d] \in N_Handlers,
           stack'[1] \in {"end", "blocked"} => Len(stack') = 1,
           N_Errno',
           registered' \/ "SIGRTMIN" \in signals' \/ In("register")',
           pin' > 0 => "SIGRTMIN" \in signals' \/ In("register")' \/ In("receive")',
           (\E k \in Kids : kid'[k] = "zombie") => "SIGCHLD" \in signals' \/ In("wait")',
           children_left' = Cardinality(Alive')
    PROVE  N_Inv'
<1>1. stack'[1] # "store"
  BY DEF Early
<1>2. N_Stack'
  BY DEF N_Stack
<1>3. N_Early' /\ N_Notified'
  BY DEF N_Early, N_Notified
<1>4. N_Count' /\ N_Killed'
  BY <1>1 DEF N_Count, N_Killed
<1> QED BY <1>2, <1>3, <1>4 DEF N_Inv

LEMMA N_SameErrno ==
    ASSUME N_Inv, errno' = errno, Game!NoChild => Game!NoChild',
           In("check")' => In("check"), In("echild")' => In("echild"),
           stack'[1] = "retry" => stack[1] = "retry"
    PROVE  N_Errno'
BY DEF N_Inv, N_Errno

\* ERR, where its reasons are those of N_Killed.
LEMMA N_ERR ==
    ASSUME N_Inv, ~Early, NEW s \in Game!Sources, Game!ERR(s),
           UNCHANGED <<pin, pout, registered, signals, children_left, loaded, errno, kid>>,
           \/ pin = QueueSize /\ s = "mq_send_pin"
           \/ Game!NoChild
           \/ errno = "EAGAIN" /\ s = "mq_send_pout"
    PROVE  N_Inv'
<1>1. stack' = <<s>>
  BY DEF Game!ERR
<1>2. s \in N_Main /\ s \notin {"fork", "store", "notify", "retry"}
  BY N_Labels
<1>3. stack'[1] = s /\ Len(stack') = 1 /\ stack' \in Seq(N_Main \cup N_Handlers)
  BY <1>1, <1>2
<1>4. ~Early' /\ Game!Killed' /\ stack'[1] # "retry" /\ \A m : ~In(m)'
  BY <1>2, <1>3 DEF Early, Game!Killed, In
<1>5. N_TypeOK'
  BY <1>3 DEF N_Inv, N_TypeOK
<1>6. N_Stack' /\ N_Early' /\ N_Notified'
  BY <1>2, <1>3, <1>4 DEF N_Stack, N_Early, N_Notified
<1>7. Game!NoChild' <=> Game!NoChild
  BY DEF Game!NoChild
<1>8. N_Errno' /\ N_Killed'
  BY <1>3, <1>4, <1>7 DEF N_Inv, N_Errno, N_Killed
<1>9. children_left = Cardinality(Alive) /\ Alive' = Alive
  BY DEF N_Inv, N_Count, Early, Alive
<1>10. N_Count'
  BY <1>2, <1>3, <1>9 DEF N_Count
<1> QED BY <1>5, <1>6, <1>8, <1>10 DEF N_Inv

\* The children's steps, unless the queue is full: one that receives a number may
\* free the parent that waits for room.
LEMMA N_KidBeside ==
    ASSUME N_Inv, N_TypeOK', ~Game!Killed, UNCHANGED <<errno, children_left>>,
           stack'[1] \in {stack[1], "test"}, Len(stack') = Len(stack), \A m : In(m)' <=> In(m),
           \A d \in 2 .. Len(stack') : stack'[d] \in N_Handlers,
           NEW k \in Kids, NEW l \in {"play", "bingo", "timeout", "exit", "zombie"},
           kid' = [kid EXCEPT ![k] = l], kid[k] \notin {"unborn", "reaped"}, ~Early,
           l = "zombie" => "SIGCHLD" \in signals',
           signals \subseteq signals', registered \in BOOLEAN, registered' \in BOOLEAN,
           registered' \/ "SIGRTMIN" \in signals' \/ ~registered,
           pin' > 0 => pin > 0 \/ "SIGRTMIN" \in signals' \/ (~registered /\ pin = 0)
    PROVE  N_Inv'
<1>1. kid'[k] = l /\ \A j \in Kids : j # k => kid'[j] = kid[j]
  BY DEF N_Inv, N_TypeOK
<1>2. Alive' = Alive /\ ~Game!NoChild
  BY <1>1 DEF Alive, Game!NoChild
<1>3. children_left' = Cardinality(Alive')
  BY <1>2 DEF N_Inv, N_Count, Early
<1>4. /\ registered \/ "SIGRTMIN" \in signals \/ In("register")
      /\ pin > 0 => "SIGRTMIN" \in signals \/ In("register") \/ In("receive")
      /\ (\E j \in Kids : kid[j] = "zombie") => "SIGCHLD" \in signals \/ In("wait")
  BY DEF N_Inv, N_Notified
<1>5. (\E j \in Kids : kid'[j] = "zombie") => "SIGCHLD" \in signals' \/ In("wait")'
  BY <1>1, <1>4
<1>6. /\ registered' \/ "SIGRTMIN" \in signals' \/ In("register")'
      /\ pin' > 0 => "SIGRTMIN" \in signals' \/ In("register")' \/ In("receive")'
  BY <1>4
<1>7. N_Errno'
  BY <1>2, N_SameErrno
<1>8. ~Early' /\ ~(Game!Killed')
  BY N_Labels DEF Early, Game!Killed
<1>9. /\ stack'[1] \in N_Main
      /\ stack'[1] \in {"end", "blocked"} => Len(stack') = 1
  BY DEF N_Inv, N_Stack, N_Main
<1> QED BY <1>3, <1>5, <1>6, <1>7, <1>8, <1>9, N_Beside

\* A step that leaves the parent alone.
LEMMA N_Still ==
    ASSUME N_Inv, UNCHANGED stack
    PROVE  /\ stack'[1] \in {stack[1], "test"} /\ Len(stack') = Len(stack)
           /\ \A m : In(m)' <=> In(m)
           /\ \A d \in 2 .. Len(stack') : stack'[d] \in N_Handlers
BY DEF N_Inv, N_Stack, In

LEMMA N_Kid == ASSUME N_Inv, NEW k \in Kids, Game!KidStep(k) PROVE N_Inv'
<1>1. ~Game!Killed
  BY DEF Game!KidStep, Game!ReceiveNumber, Game!Answer, Game!Exit
<1>2. /\ pin \in 0 .. QueueSize /\ pout \in Nat /\ registered \in BOOLEAN
      /\ signals \subseteq {"SIGRTMIN", "SIGCHLD"}
  BY DEF N_Inv, N_TypeOK
<1>3. CASE Game!ReceiveNumber(k)
  <2>1. /\ kid[k] = "play" /\ pout > 0
        /\ UNCHANGED <<pin, registered, signals, children_left, loaded, errno>>
    BY <1>3 DEF Game!ReceiveNumber
  <2>2. PICK l \in {"bingo", "play", "timeout"} : kid' = [kid EXCEPT ![k] = l]
    BY <1>3 DEF Game!ReceiveNumber
  <2>3. ~Early
    BY <1>2, <2>1 DEF N_Inv, N_Early
  <2>4. CASE Game!Top = "blocked"
    <3>1. Game!Goto("test") /\ UNCHANGED pout
      BY <1>3, <2>4 DEF Game!ReceiveNumber
    <3>2. "test" \in N_Main /\ Game!Top \in N_Main
      BY <2>4 DEF N_Main
    <3>3. /\ stack' \in Seq(N_Main \cup N_Handlers) /\ Len(stack') = 1 /\ stack'[1] = "test"
          /\ \A m : ~In(m) /\ ~In(m)'
      BY <3>1, <3>2, N_Jump
    <3>4. Len(stack) = 1
      BY <3>2, N_Top
    <3>5. Len(stack') >= 1 /\ \A d \in 2 .. Len(stack') : stack'[d] \in N_Handlers
      BY <3>3
    <3>6. N_TypeOK'
      BY <2>1, <2>2, <3>1, <3>3, <3>5 DEF N_Inv, N_TypeOK
    <3> QED BY <1>1, <1>2, <2>1, <2>2, <2>3, <3>3, <3>4, <3>5, <3>6, N_KidBeside
  <2>5. CASE Game!Top # "blocked"
    <3>1. pout' = pout - 1 /\ UNCHANGED stack
      BY <1>3, <2>5 DEF Game!ReceiveNumber
    <3>2. pout' \in Nat
      BY <1>2, <2>1, <3>1
    <3>3. N_TypeOK'
      BY <2>1, <2>2, <3>1, <3>2 DEF N_Inv, N_TypeOK
    <3> QED BY <1>1, <1>2, <2>1, <2>2, <2>3, <3>1, <3>3, N_Still, N_KidBeside
  <2> QED BY <2>4, <2>5
<1>4. CASE Game!Exit(k)
  <2>1. /\ kid[k] = "exit" /\ kid' = [kid EXCEPT ![k] = "zombie"]
        /\ signals' = signals \cup {"SIGCHLD"}
        /\ UNCHANGED <<pin, pout, registered, stack, children_left, loaded, errno>>
    BY <1>4 DEF Game!Exit, Game!parent
  <2>2. N_TypeOK'
    BY <2>1 DEF N_Inv, N_TypeOK
  <2>3. ~Early
    BY <2>1 DEF N_Inv, N_Early
  <2> QED BY <1>1, <1>2, <2>1, <2>2, <2>3, N_Still, N_KidBeside
<1>5. CASE Game!Answer(k)
  <2>1. kid[k] \in {"bingo", "timeout"} /\ UNCHANGED <<pout, children_left, loaded, errno>>
    BY <1>5 DEF Game!Answer
  <2>2. ~Early
    BY <2>1 DEF N_Inv, N_Early
  <2>3. CASE pin < QueueSize
    <3>1. /\ pin' = pin + 1 /\ kid' = [kid EXCEPT ![k] = "exit"] /\ UNCHANGED stack
      BY <1>5, <2>3 DEF Game!Answer
    <3>2. pin' \in 0 .. QueueSize
      BY <1>2, <2>3, <3>1, N_Constants
    <3>3. CASE pin = 0 /\ registered
      <4>1. registered' = FALSE /\ signals' = signals \cup {"SIGRTMIN"}
        BY <1>5, <2>3, <3>3 DEF Game!Answer
      <4>2. registered' \in BOOLEAN
        BY <4>1
      <4>3. N_TypeOK'
        BY <2>1, <3>1, <3>2, <4>1, <4>2 DEF N_Inv, N_TypeOK
      <4> QED BY <1>1, <1>2, <2>1, <2>2, <3>1, <4>1, <4>2, <4>3, N_Still, N_KidBeside
    <3>4. CASE ~(pin = 0 /\ registered)
      <4>1. UNCHANGED <<registered, signals>>
        BY <1>5, <2>3, <3>4 DEF Game!Answer
      <4>2. N_TypeOK'
        BY <2>1, <3>1, <3>2, <4>1 DEF N_Inv, N_TypeOK
      <4>3. registered' \in BOOLEAN /\ (registered' \/ "SIGRTMIN" \in signals' \/ ~registered)
        BY <1>2, <4>1
      <4>4. pin' > 0 => pin > 0 \/ "SIGRTMIN" \in signals' \/ (~registered /\ pin = 0)
        <5>1. pin > 0 \/ pin = 0
          BY <1>2
        <5> QED BY <3>4, <5>1
      <4> QED BY <1>1, <1>2, <2>1, <2>2, <3>1, <4>1, <4>2, <4>3, <4>4, N_Still, N_KidBeside
    <3> QED BY <3>3, <3>4
  <2>4. CASE ~(pin < QueueSize)
    <3>1. Game!ERR("mq_send_pin") /\ UNCHANGED <<pin, kid, registered, signals>>
      BY <1>5, <2>4 DEF Game!Answer
    <3>2. pin = QueueSize /\ "mq_send_pin" \in Game!Sources
      BY <1>2, <2>4, N_Constants DEF Game!Sources
    <3> QED BY <2>1, <2>2, <3>1, <3>2, N_ERR
  <2> QED BY <2>3, <2>4
<1> QED BY <1>3, <1>4, <1>5 DEF Game!KidStep

\* Only the handler that runs moves.
LEMMA N_Returns ==
    ASSUME N_Inv, Game!Top \in N_Handlers, Game!Return
    PROVE  /\ stack' \in Seq(N_Main \cup N_Handlers) /\ Len(stack') >= 1 /\ stack'[1] = stack[1]
           /\ \A d \in 2 .. Len(stack') : stack'[d] \in N_Handlers
           /\ \A m : In(m) /\ m # Game!Top => In(m)'
           /\ \A m : In(m)' => In(m)
<1>1. Len(stack) \in Nat \ {0} /\ Len(stack) >= 2 /\ Game!Top = stack[Len(stack)]
  BY N_Top DEF Game!Top
<1>2. \A d \in 2 .. Len(stack) : stack[d] \in N_Handlers
  BY DEF N_Inv, N_Stack
<1>3. /\ stack' \in Seq(N_Main \cup N_Handlers) /\ Len(stack') = Len(stack) - 1
      /\ \A d \in 1 .. Len(stack) - 1 : stack'[d] = stack[d]
  BY <1>1, N_Return
<1>4. Len(stack') >= 1 /\ 1 \in 1 .. Len(stack) - 1
  BY <1>1, <1>3
<1>5. \A d \in 2 .. Len(stack') : d \in 2 .. Len(stack) /\ stack'[d] = stack[d]
  <2>1. \A d \in 2 .. Len(stack) - 1 : d \in 2 .. Len(stack) /\ d \in 1 .. Len(stack) - 1
    BY <1>1
  <2> QED BY <1>3, <2>1
<1>6. \A d \in 2 .. Len(stack) : d = Len(stack) \/ d \in 2 .. Len(stack')
  BY <1>1, <1>3
<1>7. \A m : In(m) /\ m # Game!Top => In(m)'
  BY <1>1, <1>5, <1>6 DEF In
<1>8. \A m : In(m)' => In(m)
  BY <1>5 DEF In
<1> QED BY <1>2, <1>3, <1>4, <1>5, <1>7, <1>8

LEMMA N_Goes ==
    ASSUME N_Inv, Game!Top \in N_Handlers, NEW l \in N_Handlers, Game!Goto(l)
    PROVE  /\ stack' \in Seq(N_Main \cup N_Handlers) /\ Len(stack') >= 1 /\ stack'[1] = stack[1]
           /\ \A d \in 2 .. Len(stack') : stack'[d] \in N_Handlers
           /\ \A m : In(m) /\ m # Game!Top => In(m)'
           /\ In(l)' /\ \A m : In(m)' => In(m) \/ m = l
<1>1. Len(stack) \in Nat \ {0} /\ Len(stack) >= 2 /\ Game!Top = stack[Len(stack)]
  BY N_Top DEF Game!Top
<1>2. \A d \in 2 .. Len(stack) : stack[d] \in N_Handlers
  BY DEF N_Inv, N_Stack
<1>3. /\ stack' \in Seq(N_Main \cup N_Handlers) /\ Len(stack') = Len(stack)
      /\ stack'[Len(stack)] = l
      /\ \A d \in 1 .. Len(stack) : d # Len(stack) => stack'[d] = stack[d]
  BY N_Goto
<1>4. Len(stack') >= 1 /\ 1 \in 1 .. Len(stack) /\ 1 # Len(stack)
  BY <1>1, <1>3
<1>5. \A d \in 2 .. Len(stack) : d \in 1 .. Len(stack)
  BY <1>1
<1>6. Len(stack) \in 2 .. Len(stack)
  BY <1>1
<1>7. \A d \in 2 .. Len(stack') : stack'[d] \in N_Handlers
  BY <1>2, <1>3, <1>5
<1>8. \A m : In(m) /\ m # Game!Top => In(m)'
  BY <1>1, <1>3, <1>5 DEF In
<1>9. In(l)' /\ \A m : In(m)' => In(m) \/ m = l
  BY <1>3, <1>5, <1>6 DEF In
<1> QED BY <1>3, <1>4, <1>7, <1>8, <1>9

LEMMA N_Deliver == ASSUME N_Inv, NEW sig \in signals, Game!Deliver(sig) PROVE N_Inv'
<1> DEFINE new   == IF sig = "SIGCHLD" THEN "wait" ELSE "register"
           below == IF Game!Top = "blocked" THEN <<"interrupted">> ELSE stack
<1>1. /\ ~Game!Killed /\ Game!Top # "end" /\ signals' = signals \ {sig}
      /\ stack' = Append(below, new)
      /\ UNCHANGED <<pin, pout, registered, children_left, loaded, errno, kid>>
  BY DEF Game!Deliver
<1>2. Len(stack) \in Nat \ {0} /\ stack \in Seq(N_Main \cup N_Handlers)
  BY DEF N_Inv, N_TypeOK
<1>3. ~Early
  BY DEF N_Inv, N_Early
<1>4. stack[1] # "end"
  BY <1>1, <1>2 DEF N_Inv, N_Stack, Game!Top
<1>5. /\ new \in N_Handlers /\ new \in N_Main \cup N_Handlers /\ new \notin {"check", "echild"}
      /\ sig = "SIGCHLD" => new = "wait"
      /\ sig # "SIGCHLD" => new = "register"
  BY DEF N_Handlers
<1> HIDE DEF new
<1>6. /\ below \in Seq(N_Main \cup N_Handlers) /\ Len(below) = Len(stack)
      /\ \A d \in 2 .. Len(stack) : below[d] = stack[d]
      /\ below[1] = "interrupted" \/ (below[1] = stack[1] /\ stack[1] # "blocked")
  <2>1. CASE Game!Top = "blocked"
    <3>1. Game!Top \in N_Main
      BY <2>1 DEF N_Main
    <3>2. Len(stack) = 1
      BY <3>1, N_Top
    <3>3. below = <<"interrupted">>
      BY <2>1
    <3>4. "interrupted" \in N_Main \cup N_Handlers
      BY DEF N_Main
    <3> HIDE DEF below
    <3> QED BY <3>2, <3>3, <3>4
  <2>2. CASE Game!Top # "blocked"
    <3>1. below = stack
      BY <2>2
    <3>2. stack[1] # "blocked"
      BY <2>2 DEF N_Inv, N_Stack, Game!Top
    <3> HIDE DEF below
    <3> QED BY <1>2, <3>1, <3>2
  <2> QED BY <2>1, <2>2
<1> HIDE DEF below
<1>7. /\ stack' \in Seq(N_Main \cup N_Handlers) /\ Len(stack') = Len(stack) + 1
      /\ \A d \in 1 .. Len(stack) : stack'[d] = below[d]
      /\ stack'[Len(stack) + 1] = new
  <2>1. \A d \in 1 .. Len(below) : Append(below, new)[d] = below[d]
    BY <1>5, <1>6, AppendProperties
  <2> QED BY <1>1, <1>5, <1>6, <2>1, AppendProperties
<1>8. /\ Len(stack') >= 1 /\ 1 \in 1 .. Len(stack) /\ Len(stack) + 1 \in 2 .. Len(stack')
      /\ \A d \in 2 .. Len(stack) : d \in 1 .. Len(stack) /\ d \in 2 .. Len(stack')
      /\ \A d \in 2 .. Len(stack') : d \in 2 .. Len(stack) \/ d = Len(stack) + 1
  BY <1>2, <1>7
<1>9. /\ In(new)' /\ \A l : In(l) => In(l)'
      /\ In("check")' => In("check")
      /\ In("echild")' => In("echild")
  BY <1>5, <1>6, <1>7, <1>8 DEF In
<1>10. N_TypeOK'
  BY <1>1, <1>7, <1>8 DEF N_Inv, N_TypeOK
<1>11. /\ stack'[1] = "interrupted" \/ (stack'[1] = stack[1] /\ stack[1] # "blocked")
       /\ \A d \in 2 .. Len(stack') : stack'[d] \in N_Handlers
  BY <1>5, <1>6, <1>7, <1>8 DEF N_Inv, N_Stack
<1>12. /\ ~Early' /\ ~(Game!Killed') /\ stack'[1] \in N_Main
       /\ stack'[1] \notin {"end", "blocked"}
       /\ stack'[1] = "retry" => stack[1] = "retry"
  BY <1>1, <1>3, <1>4, <1>11, N_Labels DEF Early, Game!Killed, N_Inv, N_Stack, N_Main
<1>13. N_Errno'
  <2>1. Game!NoChild => Game!NoChild'
    BY <1>1 DEF Game!NoChild
  <2> QED BY <1>1, <1>9, <1>12, <2>1, N_SameErrno
<1>14. /\ registered \/ "SIGRTMIN" \in signals \/ In("register")
       /\ pin > 0 => "SIGRTMIN" \in signals \/ In("register") \/ In("receive")
       /\ (\E j \in Kids : kid[j] = "zombie") => "SIGCHLD" \in signals \/ In("wait")
  BY <1>1, <1>3 DEF N_Inv, N_Notified
<1>15. /\ "SIGRTMIN" \in signals => "SIGRTMIN" \in signals' \/ In("register")'
       /\ "SIGCHLD" \in signals => "SIGCHLD" \in signals' \/ In("wait")'
  BY <1>1, <1>5, <1>9
<1>16. /\ registered' \/ "SIGRTMIN" \in signals' \/ In("register")'
       /\ pin' > 0 => "SIGRTMIN" \in signals' \/ In("register")' \/ In("receive")'
       /\ (\E j \in Kids : kid'[j] = "zombie") => "SIGCHLD" \in signals' \/ In("wait")'
  BY <1>1, <1>9, <1>14, <1>15
<1>17. children_left' = Cardinality(Alive')
  BY <1>1, <1>3 DEF N_Inv, N_Count, Alive, Early
<1> QED BY <1>10, <1>11, <1>12, <1>13, <1>16, <1>17, N_Beside

\* A step of a handler that leaves main where it is.
LEMMA N_Handled ==
    ASSUME N_Inv, Game!Top \in N_Handlers, N_TypeOK', stack'[1] = stack[1],
           \A d \in 2 .. Len(stack') : stack'[d] \in N_Handlers,
           N_Errno',
           registered' \/ "SIGRTMIN" \in signals' \/ In("register")',
           pin' > 0 => "SIGRTMIN" \in signals' \/ In("register")' \/ In("receive")',
           (\E k \in Kids : kid'[k] = "zombie") => "SIGCHLD" \in signals' \/ In("wait")',
           children_left' = Cardinality(Alive')
    PROVE  N_Inv'
<1>1. ~Early /\ ~Game!Killed /\ stack[1] \notin {"end", "blocked"} /\ stack[1] \in N_Main
  BY N_Top DEF N_Inv, N_Stack
<1>2. ~Early' /\ ~(Game!Killed')
  BY <1>1 DEF Early, Game!Killed
<1> QED BY <1>1, <1>2, N_Beside

LEMMA N_HandlerStep ==
    ASSUME N_Inv,
           Game!Register \/ Game!Receive \/ Game!CheckErrno \/ Game!Reap \/ Game!CheckChild
    PROVE  N_Inv'
<1>1. Game!Top \in N_Handlers
  BY DEF Game!Register, Game!Receive, Game!CheckErrno, Game!Reap, Game!CheckChild, N_Handlers
<1>2. ~Early /\ ~Game!Killed /\ Len(stack) \in Nat \ {0} /\ Len(stack) >= 2
  BY <1>1, N_Top
<1>3. /\ registered \/ "SIGRTMIN" \in signals \/ In("register")
      /\ pin > 0 => "SIGRTMIN" \in signals \/ In("register") \/ In("receive")
      /\ (\E j \in Kids : kid[j] = "zombie") => "SIGCHLD" \in signals \/ In("wait")
  BY <1>2 DEF N_Inv, N_Notified
<1>4. children_left = Cardinality(Alive)
  BY <1>2 DEF N_Inv, N_Count, Early
<1>5. pin \in 0 .. QueueSize
  BY DEF N_Inv, N_TypeOK
<1>6. In(Game!Top)
  <2>1. Len(stack) \in 2 .. Len(stack)
    BY <1>2
  <2> QED BY <2>1 DEF In, Game!Top
<1>7. ASSUME UNCHANGED kid PROVE Alive' = Alive /\ (Game!NoChild' <=> Game!NoChild)
  BY <1>7 DEF Alive, Game!NoChild
<1>8. CASE Game!Register
  <2>1. /\ Game!Top = "register" /\ registered' = TRUE /\ Game!Goto("receive")
        /\ UNCHANGED <<pin, pout, signals, children_left, loaded, errno, kid>>
    BY <1>8 DEF Game!Register
  <2>2. "receive" \in N_Handlers
    BY DEF N_Handlers
  <2>3. /\ stack' \in Seq(N_Main \cup N_Handlers) /\ Len(stack') >= 1 /\ stack'[1] = stack[1]
        /\ \A d \in 2 .. Len(stack') : stack'[d] \in N_Handlers
        /\ In("wait") => In("wait")'
        /\ In("receive")' /\ (In("check")' => In("check")) /\ (In("echild")' => In("echild"))
    BY <1>1, <2>1, <2>2, N_Goes
  <2>4. N_TypeOK'
    <3>1. registered' \in BOOLEAN
      BY <2>1
    <3> QED BY <2>1, <2>3, <3>1 DEF N_Inv, N_TypeOK
  <2>5. N_Errno'
    BY <1>7, <2>1, <2>3, N_SameErrno
  <2>6. /\ registered' /\ children_left' = Cardinality(Alive')
        /\ (\E k \in Kids : kid'[k] = "zombie") => "SIGCHLD" \in signals' \/ In("wait")'
    BY <1>3, <1>4, <1>7, <2>1, <2>3
  <2> QED BY <1>1, <2>3, <2>4, <2>5, <2>6, N_Handled
<1>9. CASE Game!Receive /\ pin > 0
  <2>1. /\ Game!Top = "receive" /\ pin' = pin - 1
        /\ UNCHANGED <<pout, registered, signals, children_left, loaded, kid, stack, errno>>
    BY <1>9 DEF Game!Receive
  <2>2. pin' \in 0 .. QueueSize
    BY <1>5, <1>9, <2>1, N_Constants
  <2>3. N_TypeOK'
    BY <2>1, <2>2 DEF N_Inv, N_TypeOK
  <2>4. (\A l : In(l)' <=> In(l)) /\ \A d \in 2 .. Len(stack') : stack'[d] \in N_Handlers
    BY <2>1, N_Still
  <2>5. In("receive")'
    BY <1>6, <2>1, <2>4
  <2>6. N_Errno'
    BY <1>7, <2>1, <2>4, N_SameErrno
  <2>7. /\ registered' \/ "SIGRTMIN" \in signals' \/ In("register")'
        /\ (\E k \in Kids : kid'[k] = "zombie") => "SIGCHLD" \in signals' \/ In("wait")'
        /\ children_left' = Cardinality(Alive') /\ stack'[1] = stack[1]
    BY <1>3, <1>4, <1>7, <2>1, <2>4
  <2> QED BY <1>1, <2>3, <2>4, <2>5, <2>6, <2>7, N_Handled
<1>10. CASE Game!Receive /\ ~(pin > 0)
  <2>1. /\ Game!Top = "receive" /\ Game!Goto("check") /\ errno' = "EAGAIN"
        /\ UNCHANGED <<pin, pout, registered, signals, children_left, loaded, kid>>
    BY <1>10 DEF Game!Receive
  <2>2. "check" \in N_Handlers
    BY DEF N_Handlers
  <2>3. /\ stack' \in Seq(N_Main \cup N_Handlers) /\ Len(stack') >= 1 /\ stack'[1] = stack[1]
        /\ \A d \in 2 .. Len(stack') : stack'[d] \in N_Handlers
        /\ (In("wait") => In("wait")') /\ (In("register") => In("register")')
        /\ In("echild")' => In("echild")
    BY <1>1, <2>1, <2>2, N_Goes
  <2>4. N_TypeOK'
    BY <2>1, <2>3 DEF N_Inv, N_TypeOK
  <2>5. N_Errno'
    BY <1>7, <2>1, <2>3 DEF N_Inv, N_Errno
  <2>6. /\ registered' \/ "SIGRTMIN" \in signals' \/ In("register")'
        /\ (\E k \in Kids : kid'[k] = "zombie") => "SIGCHLD" \in signals' \/ In("wait")'
        /\ ~(pin' > 0) /\ children_left' = Cardinality(Alive')
    BY <1>3, <1>4, <1>7, <1>10, <2>1, <2>3
  <2> QED BY <1>1, <2>3, <2>4, <2>5, <2>6, N_Handled
<1>11. ASSUME Game!Top \in {"check", "wait", "echild"}, Game!Return,
              Game!Top = "wait" => \A k \in Kids : kid[k] # "zombie",
              UNCHANGED <<pin, pout, registered, signals, children_left, loaded, errno, kid>>
       PROVE  N_Inv'
  <2>1. /\ stack' \in Seq(N_Main \cup N_Handlers) /\ Len(stack') >= 1 /\ stack'[1] = stack[1]
        /\ \A d \in 2 .. Len(stack') : stack'[d] \in N_Handlers
        /\ \A l : In(l) /\ l # Game!Top => In(l)'
        /\ \A l : In(l)' => In(l)
    BY <1>1, <1>11, N_Returns
  <2>2. N_TypeOK'
    BY <1>11, <2>1 DEF N_Inv, N_TypeOK
  <2>3. /\ Game!Top # "wait" /\ In("wait") => In("wait")'
        /\ In("register") => In("register")'
        /\ In("receive") => In("receive")'
    BY <1>11, <2>1
  <2>4. N_Errno'
    BY <1>7, <1>11, <2>1, N_SameErrno
  <2>5. /\ registered' \/ "SIGRTMIN" \in signals' \/ In("register")'
        /\ pin' > 0 => "SIGRTMIN" \in signals' \/ In("register")' \/ In("receive")'
        /\ (\E k \in Kids : kid'[k] = "zombie") => "SIGCHLD" \in signals' \/ In("wait")'
        /\ children_left' = Cardinality(Alive')
    BY <1>3, <1>4, <1>7, <1>11, <2>3
  <2> QED BY <1>1, <2>1, <2>2, <2>4, <2>5, N_Handled
<1>12. CASE Game!CheckErrno
  <2>1. /\ Game!Top = "check"
        /\ UNCHANGED <<pin, pout, registered, signals, children_left, loaded, errno, kid>>
    BY <1>12 DEF Game!CheckErrno
  <2>2. CASE errno = "EAGAIN"
    BY <1>11, <1>12, <2>1, <2>2 DEF Game!CheckErrno
  <2>3. CASE errno # "EAGAIN"
    <3>1. Game!ERR("mq_receive") /\ "mq_receive" \in Game!Sources
      BY <1>12, <2>3 DEF Game!CheckErrno, Game!Sources
    <3>2. Game!NoChild
      BY <1>6, <2>1, <2>3 DEF N_Inv, N_Errno
    <3> QED BY <1>2, <2>1, <3>1, <3>2, N_ERR
  <2> QED BY <2>2, <2>3
<1>13. CASE Game!CheckChild
  <2>1. /\ Game!Top = "echild"
        /\ UNCHANGED <<pin, pout, registered, signals, children_left, loaded, errno, kid>>
    BY <1>13 DEF Game!CheckChild
  <2>2. CASE errno = "ECHILD"
    BY <1>11, <1>13, <2>1, <2>2 DEF Game!CheckChild
  <2>3. CASE errno # "ECHILD"
    <3>1. Game!ERR("waitpid") /\ "waitpid" \in Game!Sources
      BY <1>13, <2>3 DEF Game!CheckChild, Game!Sources
    <3>2. Game!NoChild
      BY <1>6, <2>1 DEF N_Inv, N_Errno
    <3> QED BY <1>2, <2>1, <3>1, <3>2, N_ERR
  <2> QED BY <2>2, <2>3
<1>14. ASSUME Game!Top = "wait", NEW k \in Kids, kid[k] = "zombie",
              kid' = [kid EXCEPT ![k] = "reaped"], children_left' = children_left - 1,
              UNCHANGED <<stack, errno, pin, pout, registered, signals, loaded>>
       PROVE  N_Inv'
  <2>1. kid'[k] = "reaped" /\ \A j \in Kids : j # k => kid'[j] = kid[j]
    BY <1>14 DEF N_Inv, N_TypeOK
  <2>2. k \in Alive /\ Alive' = Alive \ {k} /\ (Game!NoChild => Game!NoChild')
    BY <1>14, <2>1 DEF Alive, Game!NoChild
  <2>3. children_left' = Cardinality(Alive')
    BY <1>4, <1>14, <2>2, N_Counts
  <2>4. children_left' \in Int
    BY <1>14 DEF N_Inv, N_TypeOK
  <2>5. N_TypeOK'
    BY <1>14, <2>4 DEF N_Inv, N_TypeOK
  <2>6. (\A l : In(l)' <=> In(l)) /\ \A d \in 2 .. Len(stack') : stack'[d] \in N_Handlers
    BY <1>14, N_Still
  <2>7. In("wait")'
    BY <1>6, <1>14, <2>6
  <2>8. N_Errno'
    BY <1>14, <2>2, <2>6, N_SameErrno
  <2>9. /\ registered' \/ "SIGRTMIN" \in signals' \/ In("register")'
        /\ pin' > 0 => "SIGRTMIN" \in signals' \/ In("register")' \/ In("receive")'
        /\ stack'[1] = stack[1]
    BY <1>3, <1>14, <2>6
  <2> QED BY <1>1, <2>3, <2>5, <2>6, <2>7, <2>8, <2>9, N_Handled
<1>15. ASSUME Game!Top = "wait", Game!NoChild, errno' = "ECHILD", Game!Goto("echild"),
              UNCHANGED <<children_left, kid, pin, pout, registered, signals, loaded>>
       PROVE  N_Inv'
  <2>1. "echild" \in N_Handlers
    BY DEF N_Handlers
  <2>2. /\ stack' \in Seq(N_Main \cup N_Handlers) /\ Len(stack') >= 1 /\ stack'[1] = stack[1]
        /\ \A d \in 2 .. Len(stack') : stack'[d] \in N_Handlers
        /\ (In("register") => In("register")') /\ (In("receive") => In("receive")')
        /\ In("check")' => In("check")
    BY <1>1, <1>15, <2>1, N_Goes
  <2>3. N_TypeOK'
    BY <1>15, <2>2 DEF N_Inv, N_TypeOK
  <2>4. N_Errno'
    BY <1>7, <1>15, <2>2 DEF N_Inv, N_Errno
  <2>5. \A k \in Kids : kid'[k] # "zombie"
    BY <1>15 DEF Game!NoChild
  <2>6. /\ registered' \/ "SIGRTMIN" \in signals' \/ In("register")'
        /\ pin' > 0 => "SIGRTMIN" \in signals' \/ In("register")' \/ In("receive")'
        /\ children_left' = Cardinality(Alive')
    BY <1>3, <1>4, <1>7, <1>15, <2>2
  <2> QED BY <1>1, <2>2, <2>3, <2>4, <2>5, <2>6, N_Handled
<1>16. CASE Game!Reap
  <2>1. Game!Top = "wait" /\ UNCHANGED <<pin, pout, registered, signals, loaded>>
    BY <1>16 DEF Game!Reap
  <2>2. CASE \E k \in Kids : /\ kid[k] = "zombie" /\ kid' = [kid EXCEPT ![k] = "reaped"]
                             /\ children_left' = children_left - 1
                             /\ UNCHANGED <<stack, errno>>
    BY <1>14, <2>1, <2>2
  <2>3. CASE /\ \A k \in Kids : kid[k] # "zombie"
             /\ IF Game!NoChild THEN errno' = "ECHILD" /\ Game!Goto("echild")
                                ELSE Game!Return /\ UNCHANGED errno
             /\ UNCHANGED <<children_left, kid>>
    BY <1>11, <1>15, <2>1, <2>3
  <2> QED BY <1>16, <2>2, <2>3 DEF Game!Reap
<1> QED BY <1>8, <1>9, <1>10, <1>12, <1>13, <1>16 DEF Game!Receive

LEMMA N_Parent == ASSUME N_Inv, Game!ParentStep PROVE N_Inv'
<1>1. CASE Game!Fork
  <2>1. PICK k \in Kids : /\ kid[k] = "unborn" /\ kid' = [kid EXCEPT ![k] = "play"]
                          /\ Game!Goto("store") /\ loaded' = children_left
    BY <1>1 DEF Game!Fork
  <2>2. Game!Top = "fork" /\ UNCHANGED <<pin, pout, registered, signals, children_left, errno>>
    BY <1>1 DEF Game!Fork
  <2>3. "store" \in N_Main /\ Game!Top \in N_Main
    BY <2>2 DEF N_Main
  <2>4. /\ stack' \in Seq(N_Main \cup N_Handlers) /\ Len(stack') = 1 /\ stack'[1] = "store"
        /\ \A m : ~In(m)'
    BY <2>1, <2>3, N_Jump
  <2>5. stack[1] = "fork" /\ Early
    BY <2>2, <2>3, N_Top DEF Early
  <2>6. kid'[k] = "play" /\ \A j \in Kids : j # k => kid'[j] = kid[j]
    BY <2>1 DEF N_Inv, N_TypeOK
  <2>7. children_left \in Int /\ loaded' \in Int /\ Len(stack') >= 1
    BY <2>1, <2>4 DEF N_Inv, N_TypeOK
  <2>8. N_TypeOK'
    BY <2>1, <2>2, <2>4, <2>7 DEF N_Inv, N_TypeOK
  <2>9. k \notin Alive /\ Alive' = Alive \cup {k}
    BY <2>1, <2>6 DEF Alive
  <2>10. loaded' = Cardinality(Alive) /\ Cardinality(Alive') = Cardinality(Alive) + 1
         /\ Cardinality(Alive) \in Nat
    BY <2>1, <2>5, <2>9, N_Counts DEF N_Inv, N_Count
  <2>11. loaded' = Cardinality(Alive') - 1
    BY <2>10
  <2>12. N_Early'
    BY <2>2, <2>5, <2>6 DEF N_Inv, N_Early
  <2>13. ~(Game!Killed') /\ Early'
    BY <2>4, N_Labels DEF Game!Killed, Early
  <2>14. N_Stack' /\ N_Notified' /\ N_Killed'
    BY <2>3, <2>4, <2>13 DEF N_Stack, N_Notified, N_Killed
  <2>15. N_Errno'
    BY <2>2, <2>4, <2>5 DEF N_Inv, N_Early, N_Errno
  <2>16. N_Count'
    BY <2>4, <2>11 DEF N_Count
  <2> QED BY <2>8, <2>12, <2>14, <2>15, <2>16 DEF N_Inv
<1>2. CASE Game!StoreCount
  <2> DEFINE l == IF \E k \in Kids : kid[k] = "unborn" THEN "fork" ELSE "notify"
  <2>1. /\ Game!Top = "store" /\ children_left' = loaded + 1 /\ Game!Goto(l)
        /\ UNCHANGED <<pin, pout, registered, signals, loaded, errno, kid>>
    BY <1>2 DEF Game!StoreCount
  <2>2. l \in {"fork", "notify"} /\ l \in N_Main /\ Game!Top \in N_Main
    BY <2>1 DEF N_Main
  <2> HIDE DEF l
  <2>3. /\ stack' \in Seq(N_Main \cup N_Handlers) /\ Len(stack') = 1 /\ stack'[1] = l
        /\ \A m : ~In(m)'
    BY <2>1, <2>2, N_Jump
  <2>4. stack[1] = "store" /\ Early
    BY <2>1, <2>2, N_Top DEF Early
  <2>5. loaded \in Int /\ children_left' \in Int /\ Len(stack') >= 1
    BY <2>1, <2>3 DEF N_Inv, N_TypeOK
  <2>6. N_TypeOK'
    BY <2>1, <2>3, <2>5 DEF N_Inv, N_TypeOK
  <2>7. loaded = Cardinality(Alive) - 1 /\ Alive' = Alive /\ Cardinality(Alive) \in Nat
    BY <2>1, <2>4, N_Counts DEF N_Inv, N_Count, Alive
  <2>8. children_left' = Cardinality(Alive')
    BY <2>1, <2>7
  <2>9. N_Count'
    BY <2>2, <2>3, <2>8 DEF N_Count
  <2>10. N_Early'
    BY <2>1, <2>4 DEF N_Inv, N_Early
  <2>11. ~(Game!Killed') /\ Early'
    BY <2>2, <2>3, N_Labels DEF Game!Killed, Early
  <2>12. N_Stack' /\ N_Notified' /\ N_Killed'
    BY <2>2, <2>3, <2>11 DEF N_Stack, N_Notified, N_Killed
  <2>13. N_Errno'
    BY <2>1, <2>2, <2>3, <2>4 DEF N_Inv, N_Early, N_Errno
  <2> QED BY <2>6, <2>9, <2>10, <2>12, <2>13 DEF N_Inv
<1>3. CASE Game!Notify
  <2>1. /\ Game!Top = "notify" /\ registered' = TRUE /\ Game!Goto("test")
        /\ UNCHANGED <<pin, pout, signals, children_left, loaded, errno, kid>>
    BY <1>3 DEF Game!Notify
  <2>2. "test" \in N_Main /\ Game!Top \in N_Main
    BY <2>1 DEF N_Main
  <2>3. /\ stack' \in Seq(N_Main \cup N_Handlers) /\ Len(stack') = 1 /\ stack'[1] = "test"
        /\ \A m : ~In(m)'
    BY <2>1, <2>2, N_Jump
  <2>4. stack[1] = "notify" /\ Early
    BY <2>1, <2>2, N_Top DEF Early
  <2>5. registered' \in BOOLEAN
    BY <2>1
  <2>6. Len(stack') >= 1
    BY <2>3
  <2>7. N_TypeOK'
    BY <2>1, <2>3, <2>5, <2>6 DEF N_Inv, N_TypeOK
  <2>8. pin = 0 /\ \A k \in Kids : kid[k] # "zombie"
    BY <2>4 DEF N_Inv, N_Early
  <2>9. registered' /\ ~(pin' > 0) /\ \A k \in Kids : kid'[k] # "zombie"
    BY <2>1, <2>8
  <2>10. ~Early' /\ ~(Game!Killed')
    BY <2>3, N_Labels DEF Early, Game!Killed
  <2>11. N_Errno'
    BY <2>1, <2>3, <2>4 DEF N_Inv, N_Early, N_Errno
  <2>12. children_left' = Cardinality(Alive')
    BY <2>1, <2>4 DEF N_Inv, N_Count, Alive
  <2> QED BY <2>2, <2>3, <2>7, <2>9, <2>10, <2>11, <2>12, N_Beside
<1>4. ASSUME NEW l \in {"test", "send", "end", "blocked", "retry"}, Game!Goto(l),
             Game!Top \in {"test", "send", "interrupted", "retry"}, pout' \in {pout, pout + 1},
             errno' \in {"none", "EAGAIN", "ECHILD", "EINTR"},
             errno' = "ECHILD" => errno = "ECHILD", l = "retry" => errno' # "none",
             UNCHANGED <<pin, registered, signals, children_left, loaded, kid>>
      PROVE  N_Inv'
  <2>1. l \in N_Main /\ Game!Top \in N_Main
    BY <1>4 DEF N_Main
  <2>2. /\ stack' \in Seq(N_Main \cup N_Handlers) /\ Len(stack') = 1 /\ stack'[1] = l
        /\ \A m : ~In(m) /\ ~In(m)'
    BY <1>4, <2>1, N_Jump
  <2>3. stack[1] \in {"test", "send", "interrupted", "retry"} /\ ~Early /\ ~Game!Killed
    BY <1>4, <2>1, N_Top, N_Labels DEF Early, Game!Killed
  <2>4. ~Early' /\ ~(Game!Killed')
    BY <1>4, <2>2, N_Labels DEF Early, Game!Killed
  <2>5. pout' \in Nat /\ Len(stack') >= 1
    BY <1>4, <2>2 DEF N_Inv, N_TypeOK
  <2>6. N_TypeOK'
    BY <1>4, <2>2, <2>5 DEF N_Inv, N_TypeOK
  <2>7. /\ registered \/ "SIGRTMIN" \in signals \/ In("register")
        /\ pin > 0 => "SIGRTMIN" \in signals \/ In("register") \/ In("receive")
        /\ (\E k \in Kids : kid[k] = "zombie") => "SIGCHLD" \in signals \/ In("wait")
    BY <2>3 DEF N_Inv, N_Notified
  <2>8. /\ registered' \/ "SIGRTMIN" \in signals'
        /\ pin' > 0 => "SIGRTMIN" \in signals'
        /\ (\E k \in Kids : kid'[k] = "zombie") => "SIGCHLD" \in signals'
    BY <1>4, <2>2, <2>7
  <2>9. Game!NoChild' <=> Game!NoChild
    BY <1>4 DEF Game!NoChild
  <2>10. N_Errno'
    BY <1>4, <2>2, <2>9 DEF N_Inv, N_Errno
  <2>11. children_left' = Cardinality(Alive')
    BY <1>4, <2>3 DEF N_Inv, N_Count, Alive, Early
  <2> QED BY <2>1, <2>2, <2>4, <2>6, <2>8, <2>10, <2>11, N_Beside
<1>5. errno \in {"none", "EAGAIN", "ECHILD", "EINTR"}
  BY DEF N_Inv, N_TypeOK
<1>6. CASE Game!TestChildren
  BY <1>4, <1>5, <1>6 DEF Game!TestChildren
<1>7. CASE Game!SendNumber
  BY <1>4, <1>5, <1>7 DEF Game!SendNumber
<1>8. CASE Game!Interrupted
  BY <1>4, <1>8 DEF Game!Interrupted
<1>9. CASE Game!Retry
  <2>1. /\ Game!Top = "retry"
        /\ UNCHANGED <<pin, pout, registered, signals, children_left, loaded, errno, kid>>
    BY <1>9 DEF Game!Retry
  <2>2. CASE errno = "EINTR"
    <3>1. Game!Goto("send")
      BY <1>9, <2>2 DEF Game!Retry
    <3> QED BY <1>4, <1>5, <2>1, <3>1
  <2>3. CASE errno # "EINTR"
    <3>1. Game!ERR("mq_send_pout") /\ "mq_send_pout" \in Game!Sources
      BY <1>9, <2>3 DEF Game!Retry, Game!Sources
    <3>2. "retry" \in N_Main
      BY DEF N_Main
    <3>3. stack[1] = "retry" /\ ~Early
      BY <2>1, <3>2, N_Top DEF Early
    <3>4. Game!NoChild \/ errno = "EAGAIN"
      BY <1>5, <2>3, <3>3 DEF N_Inv, N_Errno
    <3> QED BY <2>1, <3>1, <3>3, <3>4, N_ERR
  <2> QED BY <2>2, <2>3
<1> QED BY <1>1, <1>2, <1>3, <1>6, <1>7, <1>8, <1>9 DEF Game!ParentStep

\* Every answer has its notification pending or its handler under way, and every
\* child that ended its SIGCHLD; children_left is the number of children; the game
\* is killed for the reasons AnswersNotForgotten names (l5_5-1.c:42-77, 96, 106-107,
\* 125), for any number of children.
LEMMA N_Answers == Game!Spec => []Game!AnswersNotForgotten
<1>1. N_Inv /\ [Game!Next]_Game!vars => N_Inv'
  <2> SUFFICES ASSUME N_Inv, [Game!Next]_Game!vars PROVE N_Inv'
    OBVIOUS
  <2>1. CASE Game!ParentStep
    BY <2>1, N_Parent
  <2>2. CASE Game!HandlerStep
    BY <2>2, N_Deliver, N_HandlerStep DEF Game!HandlerStep
  <2>3. ASSUME NEW k \in Kids, Game!KidStep(k) PROVE N_Inv'
    BY <2>3, N_Kid
  <2>4. CASE UNCHANGED Game!vars
    <3>1. UNCHANGED <<pin, pout, registered, signals, stack, children_left, loaded, errno, kid>>
      BY <2>4 DEF Game!vars, Game!parent
    <3>2. N_TypeOK' /\ N_Stack' /\ N_Early'
      BY <3>1 DEF N_Inv, N_TypeOK, N_Stack, N_Early, Early, In, Game!Killed
    <3>3. N_Notified' /\ N_Count'
      BY <3>1 DEF N_Inv, N_Notified, N_Count, Early, In, Alive, Game!Killed
    <3>4. N_Errno' /\ N_Killed'
      BY <3>1 DEF N_Inv, N_Errno, N_Killed, In, Game!Killed, Game!NoChild
    <3> QED BY <3>2, <3>3, <3>4 DEF N_Inv
  <2> QED BY <2>1, <2>2, <2>3, <2>4 DEF Game!Next
<1>2. N_Inv => Game!AnswersNotForgotten
  <2> SUFFICES ASSUME N_Inv PROVE Game!AnswersNotForgotten
    OBVIOUS
  <2>1. CASE Game!Killed
    BY <2>1 DEF N_Inv, N_Killed, Game!AnswersNotForgotten
  <2>2. CASE ~Game!Killed
    <3>1. (pin > 0 \/ \E k \in Kids : kid[k] = "zombie") => ~Early
      BY DEF N_Inv, N_Early
    <3>2. pin > 0 => "SIGRTMIN" \in signals \/ In("register") \/ In("receive")
      BY <2>2, <3>1 DEF N_Inv, N_Notified
    <3>3. (\E k \in Kids : kid[k] = "zombie") => "SIGCHLD" \in signals \/ In("wait")
      BY <2>2, <3>1 DEF N_Inv, N_Notified
    <3>4. /\ Game!HandlerOf["SIGRTMIN"] = {"register", "receive", "check"}
          /\ Game!HandlerOf["SIGCHLD"] = {"wait", "echild"}
      BY DEF Game!HandlerOf
    <3>5. /\ pin > 0 => Game!Handling("SIGRTMIN")
          /\ (\E k \in Kids : kid[k] = "zombie") => Game!Handling("SIGCHLD")
      BY <3>2, <3>3, <3>4 DEF Game!Handling, In
    <3>6. stack[1] # "store" => children_left = Game!Cardinality(Alive)
      BY DEF N_Inv, N_Count, Game!Cardinality, Cardinality
    <3> QED BY <2>2, <3>5, <3>6 DEF Game!AnswersNotForgotten, Alive
  <2> QED BY <2>1, <2>2
<1> QED BY <1>1, <1>2, N_Init, PTL DEF Game!Spec

\* No message waits in a queue whose owner was notified for the last time, and a
\* letter sent through a pipe comes back once, in a packet of its own
\* (l5_5-1.c:42-77, l5_5-2.c:57-77, prog22b.c:63-112), for any number of children,
\* persons and messages.
THEOREM MessagesAreRead == Game!Spec /\ Person!Spec /\ Pipes!Spec => []MessagesHaveReaders
<1>1. Game!AnswersNotForgotten /\ Person!SomebodyReads /\ Pipes!LettersKept => MessagesHaveReaders
  BY DEF MessagesHaveReaders
<1> QED BY <1>1, N_Answers, Q_Reads, W_Letters, PTL
==============================================================================
