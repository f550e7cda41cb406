----------------------------- MODULE MCPrograms ------------------------------
(***************************************************************************)
(* The programs of the laboratories, the key-value store and the server    *)
(* with coroutines, for TLC.  One is run at a time, so the state space is  *)
(* their disjoint union: program says which one was started, and the       *)
(* variables of the others keep one initial value.                         *)
(***************************************************************************)
EXTENDS Integers, TLC

CONSTANTS
    PoolThreads, LINES, NoThread,
    Throwers, balls_count, BIN_COUNT,
    arraySize, INTS,
    StudentThreads,
    PLAYER_COUNT, DICE_ROUNDS, Faces,
    FieldPlayers, Fields, Points, Free, Server,
    Kids, LIFE_SPAN, QueueSize,
    Persons, PERSON_ROUNDS, MAX_MSG_COUNT,
    Users, Keys, Values, MAX_ENTRIES, COMMANDS, Empty, Nothing,
    Callers, Asks, Quitters, Fds, Frames, CORO_BUF, Nobody,
    Askers, Sums, Sockets, INT32_MAX,
    Twins, PRESSES,
    c1, c2, c3

VARIABLES
    program,
    work, condition, idlethreads, mutex, wpc, mpc, lines, accepted, started,
    balls_waiting, bins, balls_thrown, tpc, poll, final_balls_count,
    array, arrayCount, quitFlag, mxArray, pending, sent, handler, main, printed,
    values, spc, year, cancelled, dean,
    rolls, scores, dpc, rounds, max, next,
    board, score, owner, mutexState, fpc, seen, interrupted, running,
    pin, pout, registered, signals, stack, children_left, loaded, errno, kid, life,
    unread, notify, readers, ppc, left, group,
    db, kernel, serving, kpc, upc, request, stream, response, typed, written,
    caller, asked, unsent, o_unread, room, backlog, fd, frame, cpc, read_len, chunks, epoll,
    events, o_running,
    asks, asker, half, todo, queue, nfds, client_socket, size, result, sigint, l_dpc,
    living, mail, holding, fds, R, last_signal, intr, chld, rpc, header, posted, shown, presses

\* Three fields worth one, two and three points.
ThreeFields == 1 .. 3
ThreePoints == [f \in ThreeFields |-> f]

Pool    == INSTANCE ThreadPool
Balls   == INSTANCE BallThrowers
Signal  == INSTANCE SignalThread
Student == INSTANCE Students
Dice    == INSTANCE DiceGame WITH ROUNDS <- DICE_ROUNDS
Field   == INSTANCE MineField
Game    == INSTANCE Bingo
Person  == INSTANCE MqPersons WITH ROUNDS <- PERSON_ROUNDS
Store   == INSTANCE KvStore
Pipes   == INSTANCE PipeGame

\* A stream whose reader may vanish, a short request, and one that is too long.
ThreeCalls == LET Ask(t, n) == <<[tokens |-> t, chunks |-> n]>>
              IN  c1 :> Ask(1, 1) @@ c2 :> Ask(1, 0) @@ c3 :> Ask(2, 0)
Coro    == INSTANCE CoroServer WITH unread <- o_unread, running <- o_running

\* Sums at the edges of three bits, through the local socket; one more client
\* comes through the other.
LocalSums == {<<3, "+", 1>>, <<2, "+", 1>>, <<-4, "-", 1>>, <<-1, "-", 3>>, <<-2, "*", 2>>,
              <<-4, "*", -4>>, <<3, "/", 0>>, <<-3, "/", 2>>, <<-4, "/", -1>>, <<1, "?", 1>>}
TwoSums == c1 :> LocalSums @@ c2 :> {<<3, "-", 1>>}
TwoSockets == c1 :> "local" @@ c2 :> "tcp"
Calc    == INSTANCE Calculator WITH dpc <- l_dpc

ASSUME ProgramsAssumption ==
    /\ Pool!PoolConstants /\ Balls!BallConstants /\ Signal!SignalConstants
    /\ Dice!DiceConstants /\ Field!FieldConstants /\ Game!BingoConstants
    /\ Person!PersonConstants /\ Store!KvConstants /\ Coro!CoroConstants /\ Calc!CalcConstants
    /\ Pipes!PipeConstants /\ Student!StudentConstants

pv == <<work, condition, idlethreads, mutex, wpc, mpc, lines, accepted, started>>
bv == <<balls_waiting, bins, balls_thrown, tpc, poll, final_balls_count>>
sv == <<array, arrayCount, quitFlag, mxArray, pending, sent, handler, main, printed>>
uv == <<values, spc, year, cancelled, dean>>
dv == <<rolls, scores, dpc, rounds, max, next>>
fv == <<board, score, owner, mutexState, fpc, seen, interrupted, running>>
gv == <<pin, pout, registered, signals, stack, children_left, loaded, errno, kid, life>>
mv == <<unread, notify, readers, ppc, left, group>>
kv == <<db, kernel, serving, kpc, upc, request, stream, response, typed, written>>
ov == <<caller, asked, unsent, o_unread, room, backlog, fd, frame, cpc, read_len, chunks,
        epoll, events, o_running>>
lv == <<asks, asker, half, todo, queue, nfds, client_socket, size, result, sigint, l_dpc>>
wv == <<living, mail, holding, fds, R, last_signal, intr, chld, rpc, header, posted, shown,
        presses>>
allVars == <<program, pv, bv, sv, uv, dv, fv, gv, mv, kv, ov, lv, wv>>

ProgramsInit ==
    /\ program \in {"pool", "balls", "signals", "students", "dice", "field", "bingo", "persons",
                    "store", "coro", "calc", "pipes"}
    /\ Pool!Init /\ Balls!Init /\ Signal!Init /\ Student!Init
    /\ Dice!Init /\ Field!Init /\ Game!Init /\ Person!Init
    /\ Store!Init /\ Coro!Init /\ Calc!Init /\ Pipes!Init
    /\ program # "calc" => asks[c1] = <<3, "+", 1>>
    /\ program # "pipes" => living = Twins

\* A step of one program leaves the others alone.
PoolDo(A)   == program = "pool"     /\ A /\ UNCHANGED <<program, bv, sv, uv, dv, fv, gv, mv, kv, ov, lv, wv>>
BallsDo(A)  == program = "balls"    /\ A /\ UNCHANGED <<program, pv, sv, uv, dv, fv, gv, mv, kv, ov, lv, wv>>
SignalDo(A) == program = "signals"  /\ A /\ UNCHANGED <<program, pv, bv, uv, dv, fv, gv, mv, kv, ov, lv, wv>>
StudDo(A)   == program = "students" /\ A /\ UNCHANGED <<program, pv, bv, sv, dv, fv, gv, mv, kv, ov, lv, wv>>
DiceDo(A)   == program = "dice"     /\ A /\ UNCHANGED <<program, pv, bv, sv, uv, fv, gv, mv, kv, ov, lv, wv>>
FieldDo(A)  == program = "field"    /\ A /\ UNCHANGED <<program, pv, bv, sv, uv, dv, gv, mv, kv, ov, lv, wv>>
BingoDo(A)  == program = "bingo"    /\ A /\ UNCHANGED <<program, pv, bv, sv, uv, dv, fv, mv, kv, ov, lv, wv>>
PersonDo(A) == program = "persons"  /\ A /\ UNCHANGED <<program, pv, bv, sv, uv, dv, fv, gv, kv, ov, lv, wv>>
StoreDo(A)  == program = "store"    /\ A /\ UNCHANGED <<program, pv, bv, sv, uv, dv, fv, gv, mv, ov, lv, wv>>
CoroDo(A)   == program = "coro"     /\ A /\ UNCHANGED <<program, pv, bv, sv, uv, dv, fv, gv, mv, kv, lv, wv>>
CalcDo(A)   == program = "calc"     /\ A /\ UNCHANGED <<program, pv, bv, sv, uv, dv, fv, gv, mv, kv, ov, wv>>
PipesDo(A)  == program = "pipes"    /\ A /\ UNCHANGED <<program, pv, bv, sv, uv, dv, fv, gv, mv, kv, ov, lv>>

ProgramsNext ==
    \/ PoolDo(Pool!Next) \/ BallsDo(Balls!Next) \/ SignalDo(Signal!Next)
    \/ StudDo(Student!Next) \/ DiceDo(Dice!Next) \/ FieldDo(Field!Next)
    \/ BingoDo(Game!Next) \/ PersonDo(Person!Next)
    \/ StoreDo(Store!Next) \/ CoroDo(Coro!Next) \/ CalcDo(Calc!Next)
    \/ PipesDo(Pipes!Next)

\* Threads and processes that can run do run, a pending signal is delivered and a
\* sleep ends.  Nothing is asked of users and of chance, except that the clients of
\* the coroutine server go on.  Who waits for a mutex that main or the server keeps
\* taking gets it: they sleep in between.
ProgramsSpec ==
    /\ ProgramsInit /\ [][ProgramsNext]_allVars
    /\ WF_allVars(PoolDo(Pool!MainStep))
    /\ \A t \in PoolThreads : WF_allVars(PoolDo(Pool!WorkerStep(t)))
    /\ WF_allVars(BallsDo(Balls!MainStep))
    /\ \A t \in Throwers : WF_allVars(BallsDo(Balls!ThrowerStep(t)))
    /\ WF_allVars(SignalDo(Signal!MainStep)) /\ SF_allVars(SignalDo(Signal!HandlerStep))
    /\ WF_allVars(StudDo(Student!TimeIsUp \/ Student!Join))
    /\ \A s \in StudentThreads : WF_allVars(StudDo(Student!StudentStep(s)))
    /\ WF_allVars(DiceDo(Dice!Next))
    /\ WF_allVars(FieldDo(Field!ServerStep)) /\ WF_allVars(FieldDo(Field!sighandling))
    /\ \A p \in FieldPlayers : SF_allVars(FieldDo(Field!PlayerStep(p)))
    /\ WF_allVars(BingoDo(Game!ParentStep)) /\ WF_allVars(BingoDo(Game!HandlerStep))
    /\ \A k \in Kids : WF_allVars(BingoDo(Game!KidStep(k)))
    /\ \A p \in Persons : WF_allVars(PersonDo(Person!PersonStep(p)))
    /\ WF_allVars(StoreDo(Store!StoreStep))
    /\ WF_allVars(CoroDo(Coro!WorkerStep))
    /\ \A c \in Callers : WF_allVars(CoroDo(Coro!CallerStep(c)))
    /\ WF_allVars(CalcDo(Calc!ServerStep))
    /\ WF_allVars(PipesDo(Pipes!ParentStep)) /\ WF_allVars(PipesDo(Pipes!Handlers))
    /\ \A k \in Twins : WF_allVars(PipesDo(Pipes!KidStep(k)))

-----------------------------------------------------------------------------
\* A request to the pool starts one thread at most, and idlethreads is exact
\* (prog22.c:109-119, 148-161).
OneStartPerRequest == Pool!OneStartPerRequest

\* What main prints is what the threads did: the sum of bins it reads without
\* their mutexes, the array a signal may change at any moment, the counters of
\* students who are cancelled at any moment, the scores of the players, which are
\* the points of the rounds that are over (prog18.c:128-146, prog19.c:100-138,
\* prog20.c:73-128, prog23.c:39-45).
PrintedIsTrue == /\ Balls!UnlockedReadsSafe /\ Signal!ArrayExact
                 /\ Student!CountersExact /\ Dice!PointsPerRound

\* Points of the dice game are given for rolls of one round (prog23.c:28-47).
FairAward == Dice!FairAward

\* A player that dies with the robust mutex breaks neither the mutex nor the
\* sum of the points (l6-2_client.c:56-93, l6-2_server.c:114-136).
PointsKept == Field!PointsKept

\* No message waits in a queue whose owner was notified for the last time: no
\* answer, no child and no count is lost between two handlers, and a message to a
\* person that is there has a reader; a letter sent through a pipe comes back once,
\* in a packet of its own (l5_5-1.c:42-77, l5_5-2.c:57-77, prog22b.c:63-112).
MessagesHaveReaders == Game!AnswersNotForgotten /\ Person!SomebodyReads /\ Pipes!LettersKept

\* The key-value store is a map, whoever dies (kv_store.c:95-163).
StoreIsMap == Store!StoreIsMap

\* An event resumes the coroutine it is for (dumb_coro.cpp:276-285).
EventsOfTheLiving == Coro!EventsOfTheLiving

\* The calculator's answers are right, and each client gets its own
\* (l7-1_server.c:12-39, 71-96).
SumsRight == Calc!SumsRight

\* The programs end as far as they do: the throwers' and students' main joins all,
\* SIGQUIT is obeyed, the dice are cast, everybody is answered by the coroutines,
\* the pipes are empty or at their end; pool, mine field, bingo, persons and
\* calculator end but for the ways out that PoolOver, GameOver, BingoOver, AllLeft
\* and CalcOver name; the store waits for a silent client only (prog18.c:128,
\* prog19.c:131-142, prog20.c:140, prog22.c:144-146, 184, prog23.c:88,
\* l6-2_client.c:82, 97, l6-2_server.c:141, l5_5-1.c:103, l5_5-2.c:179,
\* kv_store.c:60-168, dumb_coro.cpp:250-287, l7-1_server.c:71-100,
\* prog22b.c:81-113).
ProgramsEnd ==
    <>[](CASE program = "pool"     -> Pool!PoolOver
           [] program = "balls"    -> poll = <<"exit">>
           [] program = "signals"  -> Signal!QuitObeyed
           [] program = "students" -> dean = "print"
           [] program = "dice"     -> \A p \in Dice!Players : dpc[p] = "end"
           [] program = "field"    -> Field!GameOver
           [] program = "bingo"    -> Game!BingoOver
           [] program = "persons"  -> Person!AllLeft
           [] program = "store"    -> Store!StoreWaits
           [] program = "coro"     -> Coro!CoroServed
           [] program = "calc"     -> Calc!CalcOver
           [] program = "pipes"    -> Pipes!PipesOver)
==============================================================================
