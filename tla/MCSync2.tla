------------------------------- MODULE MCSync2 -------------------------------
(***************************************************************************)
(* The programs of the synchronisation patterns lecture, for TLC.  They    *)
(* are run one at a time and share nothing, so the state space is their    *)
(* disjoint union: program says which one was started, and the variables   *)
(* of the others keep their initial values.                                *)
(***************************************************************************)
EXTENDS BoundedBufferCV

CONSTANTS Programs,
          Producers, Consumers, SEM_BUFFER_SIZE, ITEMS_PER_PRODUCER,
          Readers, Writers,
          num_sensors, CYCLES,
          Records, Workers, Target, Mortal, Builds, GlobalMtx, rec1, rec2

VARIABLES
    program,
    sem_items, sem_in, sem_out, empty, nonempty, sem_mtx, sem_pc, sem_i,
    sem_produced, sem_consumed,
    readers_count, writers_count, rw_mtx, rw_pc, rw_spurious,
    data_ready, can_overwrite, file, spc, cyc, apc, round, turn,
    build, owner, mstate, bumps, count, result, db_pc, hash

Sem == INSTANCE BoundedBufferSem WITH
           BUFFER_SIZE <- SEM_BUFFER_SIZE,
           items <- sem_items, in <- sem_in, out <- sem_out, mtx <- sem_mtx,
           pc <- sem_pc, i <- sem_i, produced <- sem_produced, consumed <- sem_consumed
RW == INSTANCE ReadersWritersCV WITH
          mtx <- rw_mtx, pc <- rw_pc, spurious <- rw_spurious
Sensor == INSTANCE SensorAggregator

\* The workers that may die share a record, the others have one of their own.
SharedRecord == [w \in Workers |-> IF w \in Mortal THEN rec1 ELSE rec2]
DB == INSTANCE RecordDB WITH pc <- db_pc

ASSUME ProgramsAssumption == /\ Sem!SemConstants /\ RW!RWConstants
                             /\ Sensor!SensorConstants /\ DB!DBConstants

cvVars     == vars
semProgram == <<sem_items, sem_in, sem_out, empty, nonempty, sem_mtx, sem_pc, sem_i,
                sem_produced, sem_consumed>>
rwVars     == <<readers_count, writers_count, rw_mtx, rw_pc, rw_spurious>>
sensorVars == <<data_ready, can_overwrite, file, spc, cyc, apc, round, turn>>
dbProgram  == <<build, owner, mstate, bumps, count, result, db_pc, hash>>
allVars    == <<program, cvVars, semProgram, rwVars, sensorVars, dbProgram>>

SyncInit ==
    /\ program \in Programs
    /\ Init /\ Sem!Init /\ RW!Init /\ Sensor!Init /\ DB!Init
    /\ program # "db" => build = CHOOSE b \in Builds : TRUE

CVStep(p) == program = "cv" /\ Step(p)
                /\ UNCHANGED <<program, semProgram, rwVars, sensorVars, dbProgram>>
CVSpurious(p) == program = "cv" /\ SpuriousWakeup(p)
                /\ UNCHANGED <<program, semProgram, rwVars, sensorVars, dbProgram>>
SemStep(p) == program = "sem" /\ Sem!Step(p)
                /\ UNCHANGED <<program, cvVars, rwVars, sensorVars, dbProgram>>
RWStep(t) == program = "rw" /\ RW!Step(t)
                /\ UNCHANGED <<program, cvVars, semProgram, sensorVars, dbProgram>>
RWSpurious(t) == program = "rw" /\ RW!SpuriousWakeup(t)
                /\ UNCHANGED <<program, cvVars, semProgram, sensorVars, dbProgram>>
SensorStep(s) == program = "sensor" /\ Sensor!SensorStep(s)
                /\ UNCHANGED <<program, cvVars, semProgram, rwVars, dbProgram>>
AggregatorStep == program = "sensor" /\ Sensor!AggregatorStep
                /\ UNCHANGED <<program, cvVars, semProgram, rwVars, dbProgram>>
DBStep(w) == program = "db" /\ DB!Step(w)
                /\ UNCHANGED <<program, cvVars, semProgram, rwVars, sensorVars>>
DBDie(w) == program = "db" /\ DB!Die(w)
                /\ UNCHANGED <<program, cvVars, semProgram, rwVars, sensorVars>>

SyncNext ==
    \/ \E p \in Procs : CVStep(p) \/ CVSpurious(p)
    \/ \E p \in Sem!Procs : SemStep(p)
    \/ \E t \in RW!Threads : RWStep(t) \/ RWSpurious(t)
    \/ AggregatorStep \/ \E s \in Sensor!Sensors : SensorStep(s)
    \/ \E w \in Workers : DBStep(w) \/ DBDie(w)

\* The fairness of each program's own FairSpec.
SyncSpec ==
    /\ SyncInit /\ [][SyncNext]_allVars
    /\ \A p \in Procs : WF_allVars(CVStep(p))
    /\ \A p \in Sem!Procs : WF_allVars(SemStep(p))
    /\ \A t \in RW!Threads : WF_allVars(RWStep(t))
    /\ WF_allVars(AggregatorStep) /\ \A s \in Sensor!Sensors : WF_allVars(SensorStep(s))
    /\ \A w \in Workers : WF_allVars(DBStep(w))

-----------------------------------------------------------------------------
\* The ring with semaphores is a bounded queue too (bounded_buffer_sem.c:24-53).
SemImplementsBoundedQueue == Sem!ImplementsBoundedQueue

\* A writer is alone with shared_data (readers_writers_cv.c:26-33, 55-63).
WriterAlone == RW!WriterAlone

\* Nobody waits for a signal that was spent elsewhere (readers_writers_cv.c:38-42,
\* 67-72).
WakeupsSuffice == RW!WakeupsSuffice

\* The aggregator reads no file while a sensor writes it (sensor.c:34-55,
\* aggregator.c:32-61).
NoTornRead == Sensor!NoTornRead

\* However many workers died in the middle of an update, a record nobody works on
\* has the result that belongs to its base value, its counter misses the updates of
\* the dead only, and the mutex is usable (record_db_worker_robust.c:32-38, 67-76).
RecordsConsistent == DB!ResultFresh /\ DB!CountTrails /\ DB!NeverUnrecoverable

\* Nobody waits for ever who need not: the processes of both buffers end, and with
\* them main's wait; the readers' and writers' region is used again and again, and
\* a reader that waits is woken (no more holds for writers, who may starve); workers
\* end, but for those behind a dead owner of a mutex that is not robust
\* (bounded_buffer_cv.c:117-136, bounded_buffer_sem.c:95-99,
\* readers_writers_cv.c:23-75, record_db_worker_robust.c:60-90).
SyncProgress ==
    /\ []<>(CASE program = "cv"  -> Ended
              [] program = "sem" -> Sem!Ended
              [] program = "rw"  -> RW!InUse
              [] program = "db"  -> DB!EndedOrBlocked
              [] OTHER           -> TRUE)
    /\ \A r \in Readers : rw_pc[r] = "waiting" ~> rw_pc[r] # "waiting"

\* The documented session ends: "./sensor 0 & ./sensor 1 & ./sensor 2 & wait"
\* (sync2/code/index.en.md:50-55).
SensorsEnd == program = "sensor" => Sensor!Terminates
==============================================================================
