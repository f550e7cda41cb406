-------------------------- MODULE SensorAggregator --------------------------
(***************************************************************************)
(* sensor.c and aggregator.c: sensors write their file once per cycle, one *)
(* aggregator reads all files once per cycle, and two named counting       *)
(* semaphores, data_ready and can_overwrite, pace them.  The readings are  *)
(* abstracted to the cycle a file belongs to and whether it is complete.   *)
(***************************************************************************)
EXTENDS Integers

CONSTANTS num_sensors,   \* sensors have the ids 0 .. num_sensors - 1
          CYCLES         \* cycles of every process

\* What aggregator.c checks of its argument.
SensorConstants == num_sensors \in Nat \ {0} /\ CYCLES \in Nat \ {0}

Sensors == 0 .. num_sensors - 1

VARIABLES
    data_ready, can_overwrite,   \* the values of the semaphores
    file,      \* file[s]: [cycle, complete]; cycle 0 is a file not there yet
    spc, cyc,  \* where each sensor is, and its cycle
    apc,       \* where the aggregator is
    round,     \* the aggregator's cycle
    turn       \* the variable s of its inner loops

semVars    == <<data_ready, can_overwrite>>
sensorVars == <<file, spc, cyc>>
aggVars    == <<apc, round, turn>>
vars       == <<semVars, sensorVars, aggVars>>

TypeOK ==
    /\ data_ready \in 0 .. num_sensors * CYCLES
    /\ can_overwrite \in 0 .. num_sensors * CYCLES
    /\ file \in [Sensors -> [cycle : 0 .. CYCLES, complete : BOOLEAN]]
    /\ spc \in [Sensors -> {"open", "write", "post", "wait", "done"}]
    /\ cyc \in [Sensors -> 1 .. CYCLES]
    /\ apc \in {"collect", "read", "grant", "done"}
    /\ round \in 1 .. CYCLES
    /\ turn \in 0 .. num_sensors

Init ==
    /\ data_ready = 0 /\ can_overwrite = 0
    /\ file = [s \in Sensors |-> [cycle |-> 0, complete |-> FALSE]]
    /\ spc = [s \in Sensors |-> "open"]
    /\ cyc = [s \in Sensors |-> 1]
    /\ apc = "collect" /\ round = 1 /\ turn = 0

-----------------------------------------------------------------------------
(* The sensor *)

\* fopen(filename, "w") truncates the file of the previous cycle.
Open(s) ==
    /\ spc[s] = "open"
    /\ file' = [file EXCEPT ![s] = [cycle |-> cyc[s], complete |-> FALSE]]
    /\ spc' = [spc EXCEPT ![s] = "write"]
    /\ UNCHANGED <<cyc, semVars, aggVars>>

\* The last reading is written and the file closed.
Close(s) ==
    /\ spc[s] = "write"
    /\ file' = [file EXCEPT ![s].complete = TRUE]
    /\ spc' = [spc EXCEPT ![s] = "post"]
    /\ UNCHANGED <<cyc, semVars, aggVars>>

Post(s) ==
    /\ spc[s] = "post"
    /\ data_ready' = data_ready + 1
    /\ spc' = [spc EXCEPT ![s] = "wait"]
    /\ UNCHANGED <<can_overwrite, file, cyc, aggVars>>

\* The end of the sensor's loop body.
NextCycle(s) ==
    /\ cyc' = [cyc EXCEPT ![s] = IF @ < CYCLES THEN @ + 1 ELSE @]
    /\ spc' = [spc EXCEPT ![s] = IF cyc[s] < CYCLES THEN "open" ELSE "done"]

WaitPermission(s) ==
    /\ spc[s] = "wait" /\ can_overwrite > 0
    /\ can_overwrite' = can_overwrite - 1
    /\ NextCycle(s)
    /\ UNCHANGED <<data_ready, file, aggVars>>

-----------------------------------------------------------------------------
(* The aggregator *)

\* One sem_wait(data_ready) of the num_sensors per cycle.
Collect ==
    /\ apc = "collect" /\ data_ready > 0
    /\ data_ready' = data_ready - 1
    /\ IF turn + 1 < num_sensors THEN turn' = turn + 1 /\ UNCHANGED apc
                                 ELSE turn' = 0 /\ apc' = "read"
    /\ UNCHANGED <<can_overwrite, sensorVars, round>>

\* Read sensor_<turn>.dat; the loop also tries sensor_<num_sensors>.dat, which
\* no sensor writes.
Read ==
    /\ apc = "read"
    /\ IF turn < num_sensors THEN turn' = turn + 1 /\ UNCHANGED apc
                             ELSE turn' = 0 /\ apc' = "grant"
    /\ UNCHANGED <<semVars, sensorVars, round>>

\* Mutant of Grant: one permission too many.
GrantMore ==
    /\ apc = "grant"
    /\ can_overwrite' = IF turn = 0 THEN can_overwrite + 2 ELSE can_overwrite + 1
    /\ IF turn + 1 < num_sensors
       THEN turn' = turn + 1 /\ UNCHANGED <<apc, round>>
       ELSE /\ turn' = 0
            /\ apc' = IF round < CYCLES THEN "collect" ELSE "done"
            /\ round' = IF round < CYCLES THEN round + 1 ELSE round
    /\ UNCHANGED <<data_ready, sensorVars>>

\* One sem_post(can_overwrite) of the num_sensors per cycle.
Grant ==
    /\ apc = "grant"
    /\ can_overwrite' = can_overwrite + 1
    /\ IF turn + 1 < num_sensors
       THEN turn' = turn + 1 /\ UNCHANGED <<apc, round>>
       ELSE /\ turn' = 0
            /\ apc' = IF round < CYCLES THEN "collect" ELSE "done"
            /\ round' = IF round < CYCLES THEN round + 1 ELSE round
    /\ UNCHANGED <<data_ready, sensorVars>>

-----------------------------------------------------------------------------
SensorStep(s) == Open(s) \/ Close(s) \/ Post(s) \/ WaitPermission(s)
AggregatorStep == Collect \/ Read \/ Grant

Next == AggregatorStep \/ \E s \in Sensors : SensorStep(s)

Spec == Init /\ [][Next]_vars

\* Every process runs unless sem_wait blocks it.
FairSpec == Spec /\ WF_vars(AggregatorStep) /\ \A s \in Sensors : WF_vars(SensorStep(s))

-----------------------------------------------------------------------------
(* Properties. *)

\* The documented session ends: "./sensor 0 & ./sensor 1 & ./sensor 2 & wait"
\* (sync2/code/index.en.md:50-55).
Terminates == <>(apc = "done" /\ \A s \in Sensors : spc[s] = "done")

\* No file is read while it is written: the permissions granted so far allow no
\* more cycles than the posts the aggregator has collected, so when it reads,
\* every sensor has closed its file and waits (sensor.c:34-55, aggregator.c:32-61).
NoTornRead ==
    apc = "read" => \A s \in Sensors : file[s].complete /\ spc[s] = "wait"
=============================================================================
