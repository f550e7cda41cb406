# A TLA+ verification of the SOP example programs

The repository is the site of the course *Operating Systems* (SOP): a Hugo site
whose own logic is the C code of the lectures (`content/sop2/wyk/*/code`) and of
the laboratories (`content/sop1/lab`, `content/sop2/lab`), about 10 000 lines in
some 110 small programs. Each program shows how processes, threads or machines
work together: locks, condition variables, semaphores, robust mutexes, datagrams
with timeouts, epoll servers. Such code is hard to test and within reach of a
model checker. This directory holds TLA+ models of those programs, the TLC
configurations that check small instances, and TLAPS proofs for all instances.

Paths below are relative to `src/content/sop2/` unless they say otherwise.

## 1. Inventory

| Component | State | Operations | Interaction | What is hard |
|---|---|---|---|---|
| UDP file transfer, `lab/l8/l8-1_{client,server}.c` | client: part number, tries, timer, reply buffer; server: table `con[MAXADDR]` | read, send, arm timer, receive, SIGALRM; find entry, print, confirm | datagrams both ways, a signal | loss, duplication, reordering, retry, a timer racing `recv`, a full table |
| Futex mutex, `wyk/sync/code/futex.c` | the lock word, the kernel's queue, a counter | lock, wait, unlock, wake | atomics and a system call | the value changes between user space and kernel; a release in two steps |
| Bounded buffer, `wyk/sync2/code/bounded_buffer_{cv,sem}.c` | ring, mutex, two condition variables or three semaphores | produce, consume | shared memory between processes | lost or spurious wake-ups, order of waits, termination |
| Readers and writers, `wyk/sync2/code/readers_writers_cv.c` | two counters, mutex, one condition variable | enter, leave | threads | one queue for two kinds of threads, a single signal |
| Record database, `wyk/sync2/code/record_db*` | records, a mutex each or one for all | lock, recover, update in four steps, unlock | processes that may die anywhere | death inside the critical section, recovery, blast radius |
| Sensors, `wyk/sync2/code/{sensor,aggregator}.c` | files, two named semaphores | write, post, wait; collect, read, grant | independent programs | semaphores that do not know whose turn it is |
| DUMB epoll servers, `wyk/servers/code/dumb_epoll*.c`, `dumb_reactor.c` | per-descriptor contexts, epoll sets, gauges, a callback table | accept, register, read, write, remove | acceptor and worker threads, the kernel's descriptor table | partial reads and writes, descriptor reuse without locks, counters moved by two threads |
| Other locks, `wyk/sync/code/` | a flag, Peterson's variables, a semaphore; a counter, accounts | lock, add or transfer, unlock | atomics, plain memory behind store buffers | reordering in the naive version, a lock holder that pauses |
| Dining philosophers, `wyk/deadlocks/code/` | chopsticks | pick up, eat, put down | semaphores | circular waiting |
| Blocking DUMB servers, `wyk/servers/code/dumb_{common,iterative,multithreaded}.c` | a line buffer per client, gauges | accept, receive, answer, close | TCP, a thread per client | several requests in one `recv`, over-long lines, resets in a stream |
| DUMB server with coroutines, `dumb_coro.cpp` | coroutine frames, epoll instance | await, suspend, resume, end | addresses of frames in epoll | an event for a frame that was freed |
| Chat servers, `{epoll,select}_chat.c` | the table of clients | accept, broadcast, drop | one thread, one batch of events | descriptors reused within a batch, a user who does not read |
| Key-value store, `wyk/sockets/code/kv_*` | the table of records | read, write, delete, fire | one connection at a time | a client killed between two sends |
| Laboratories 3 and 4, `sop1/lab/l3`, `l4` | pool flag and condition variable, bins, array, student counters, dice | see section 2 | threads, signals, cancellation, barriers | a broadcast without the mutex, reads without locks, merged signals |
| Laboratory 5, `lab/l5`, `l5_5` | pipes, two or more message queues | send, receive, be notified, die | signals and handlers over handlers, notification threads | `errno` under a handler, a message between draining and registering, full queues |
| Laboratory 6, `lab/l6` | a board under a robust mutex | search, exit with the mutex, recover | shared memory | dead owners, a mutex destroyed while in use |
| Laboratory 7, `lab/l7` | two listeners, one session | accept, read, calculate, answer | epoll with a signal mask | a signal at the wrong moment, a client that stops half-way, edges of `int` |
| Demonstrations of sockets, shared memory, containers, binaries, virtual memory, networks; laboratories 0 to 2; starting code; the site itself | none that lasts | straight-line calls | - | nothing to interleave (section 6) |

What makes each correct, in one line: the transfer prints every part in order
before its sender goes on; the locks are exclusive and forget no sleeper; money
is kept; the buffers are FIFO queues and their sessions end; a writer is alone and
no wake-up is wasted; an idle record is consistent whoever died; files are not
read while written; the servers answer everybody in order and never mix two
connections up; the chat's table is exact; the store is a map; and the programs
of the laboratories lose no message, count right and end, but for the ways out
that are named.

`PROJECT.json` lists every component, also those not modelled, and the hazards
with their lines.

## 2. Modules

| Module | Models | Abstract specification | Proofs |
|---|---|---|---|
| `UdpTransfer` | client, server, network of lab 8 | `FileTransfer` | `UdpTransferProofs` |
| `FutexMutex` | `futex.c` | `SharedCounter` | `LocksProofs` |
| `CounterLocks` | `atomic_tas.c`, `semaphore.c`, with and without the pause | `SharedCounter` | `LocksProofs` |
| `BankTransfer` | `race.c`, `peterson_naive.c`, `peterson_atomic.c`, `atomic_swap.c` | | `LocksProofs` |
| `Philosophers` | `dining_philosophers.c` | | `LocksProofs` |
| `BoundedBufferCV` | `bounded_buffer_cv.c` | `BoundedQueue` | `Sync2Proofs` |
| `BoundedBufferSem` | `bounded_buffer_sem.c` | `BoundedQueue` | `Sync2Proofs` |
| `ReadersWritersCV` | `readers_writers_cv.c` | | `Sync2Proofs` |
| `SensorAggregator` | `sensor.c`, `aggregator.c` | | `Sync2Proofs` |
| `RecordDB` | `record_db.h`, `_setup.c`, both workers | | `Sync2Proofs` |
| `DumbConnection` | one connection of `dumb_epoll.c`: `handle_read`, `handle_write` | the protocol's `Responses` | `ConversationsProofs` |
| `EpollWorkers` | `dumb_epoll_workers.c`: threads and descriptors | | `WorkersProofs` |
| `Reactor` | `dumb_reactor.c`: threads, descriptors, callbacks | | `WorkersProofs` |
| `BlockingServer` | `dumb_common.c`, `dumb_iterative.c`, `dumb_multithreaded.c` | | `ConversationsProofs` |
| `CoroServer` | `dumb_coro.cpp`: awaiters, coroutines, event loop | | `ServicesProofs` |
| `ChatServers` | `epoll_chat.c`, `select_chat.c` | | `ConversationsProofs` |
| `KvStore` | `kv_store.c`, `kv_client.c`, `kv_protocol.h` | a map from keys to values | `ServicesProofs` |
| `ThreadPool` | laboratory 4, `prog22.c` | | `ProgramsProofs` |
| `DiceGame` | laboratory 4, `prog23.c` | | `ProgramsProofs` |
| `BallThrowers`, `SignalThread`, `Students` | laboratory 3, `prog18.c`, `prog19.c`, `prog20.c` | | `ProgramsProofs` |
| `PipeGame` | laboratory 5, `prog22b.c` | | `ProgramsProofs` |
| `Bingo`, `MqPersons` | message queues, `l5_5-1.c`, `l5_5-2.c` | | `ProgramsProofs` |
| `MineField` | laboratory 6, `l6-2_server.c`, `l6-2_client.c` | | `ServicesProofs` |
| `Calculator` | laboratory 7, server, both clients, `l7_common.h` | | `ServicesProofs` |

`MCUdpTransfer` instantiates one module for TLC. `MCLocks`, `MCSync2`, `MCServers`
and `MCPrograms` put several programs side by side: the programs of a lecture are
started one at a time and share nothing, so a variable `program`, chosen
initially, says which one runs while the variables of the others rest, and the
state space is the disjoint union. Nothing is composed that the code keeps apart.
A property of such a run says something of one program, or is the conjunction of
what several programs promise in common (`OneUser`, `PrintedIsTrue`); the parts
are named in the component's module. A `TypeOK` that no run lists documents the
state of its module. The proof modules extend these MC modules, so that a theorem
speaks of the very formula a run checks; it is about one program's own
specification (`B!Spec => []TotalKept`). `SumLemmas` holds what several of them need
of sums over finite sets.

### How state and actions correspond to the code

* A variable has the name of the C variable or field it stands for (`con`,
  `chunkNo`, `empty`, `active_connections`, `reactor_registry` as `registry`).
  `pc`, `spc`, `apc`, `wpc` say where a thread of control is. What a program has
  printed is a variable when a property is about it.
* One action is one step that others can see: an atomic operation, a system
  call, an access to shared memory without a lock, or a stretch of code under a
  lock whose inside nobody observes. Where the code touches shared memory with
  no lock, the single assignments are actions (`SetField`, `ClearField` of
  `Reactor`).
* *UdpTransfer.* `sendAndConfirm` is split at the points where the alarm matters:
  arming the timer, entering `recv`, the alarm itself. The server's turn is one
  action: it is single-threaded. The network is two sets of datagrams; receiving
  may leave the datagram in place, which is duplication, and sets have no order.
  `PromptRecv` states whether the half-second timer may expire before `recv`
  blocks.
* *FutexMutex.* `FUTEX_WAIT` compares and queues in one step, as the kernel does;
  `Interrupted` lets it return at any time. `counter++` is a load and a store.
* *BoundedBufferCV, ReadersWritersCV.* `pthread_cond_wait` releases the mutex and
  queues in one step, returns after a signal or (boundedly often) spuriously, and
  has to get the mutex back before it tests again.
* *RecordDB.* The three builds (plain, robust, one global lock) are an initial
  choice. `Die` can happen between any two assignments; with robust mutexes the
  kernel marks what the dead worker held. The hash is represented by the base
  value it was computed from, which is what tells a fresh result from a stale one.
* *SensorAggregator.* A file is the cycle it belongs to and whether it is closed.
* *DumbConnection.* Requests and responses are sequences of tokens. `read` returns
  any available prefix that fits the buffer, `write` takes any prefix of what it
  is given. What the client does is an initial choice: a polite session that waits
  for each response, or a hasty one that does not, sends unknown and over-long
  lines and may vanish.
* *EpollWorkers, Reactor.* A client connects, makes one request and leaves, by an
  orderly close or a reset, at any time; the conversation in detail is
  `DumbConnection`. `accept` returns the lowest free descriptor, as POSIX demands,
  which is what makes reuse immediate. `batch` is what is left of the array
  `epoll_wait` filled. The number of cores and of the descriptors the process uses
  itself are initial choices, so that a worker has one connection or several and
  the table is full or not. The gauge counts modulo `ULL`, which stands for 2^64.
  `reused` of `Reactor` is a history variable: it records which clients were accepted
  on a descriptor whose last handler a worker was still clearing.
* *CounterLocks, BankTransfer.* Every access to shared memory is a step. In
  `BankTransfer` a plain store goes to the store buffer of its processor and
  reaches memory later (`Drain`); a load sees the own buffer first; atomic
  operations empty it. Which lock is used is an initial choice. `overlap` records
  that both threads were inside `transfer` at once.
* *Philosophers.* One `sem_wait` or `sem_post` is one step.
* *BlockingServer.* `recv` returns any piece of what has arrived; the inner loop
  over the newlines in the buffer is the handler's, request by request. `answers`
  records which request was taken for which type.
* *CoroServer.* A frame is an address that is given out again as soon as its
  coroutine has ended; `epoll` and `events` hold addresses, as the code does, and
  the model adds for whom each was stored. A client's coroutine runs until its
  next await without interruption, as the worker is one thread.
* *ChatServers.* `events` is the rest of one `epoll_wait` or one pass over the
  `select` set; `epoll_wait` reports any `MAX_EVENTS` of the ready ones. The sockets hold `WINDOW` messages; then a non-blocking send drops
  (`epoll`) and a blocking one waits (`select`).
* *KvStore.* Header, payload and response are single sends; the client may be
  killed between any two. What the server reads from a closed connection is what
  `memset` left. The second send to a connection that was reset kills the store.
* *ThreadPool, BallThrowers, SignalThread, Students, DiceGame.* Condition variables
  as above; a critical section of one mutex is one step unless others look inside;
  pending signals are a set (two of a kind are one); cancellation is deferred to
  `nanosleep`. The dice are any faces. `main` of the pool that is about to read is
  told from `main` blocked in `fgets`: a signal interrupts only the latter.
* *PipeGame.* Pipes are sequences, the shared one of packets in two parts. C-c goes
  to parent and children. A read or write that SIGCHLD or SIGINT interrupts takes
  the branch the code has for `EINTR`; a write to a dead child's pipe is `EPIPE`.
* *Bingo.* The parent's `stack` holds `main` and the handlers that interrupted it,
  with the step each has reached; `errno` is one variable for all of them, so each
  call that fails and the test of `errno` after it (`mq_receive`, `waitpid`, and
  `mq_send` in `TEMP_FAILURE_RETRY`) are two steps between which a handler may run.
  `ERR` leaves the name of the failed call as the stack. A notification is used up
  by a message that meets an empty queue.
* *MqPersons.* Each notification starts a thread; `readers` counts those that are
  about to register and those that drain.
* *MineField.* The robust mutex has an owner, dead or alive, and a state. Entering
  `pthread_mutex_lock` (`Enter`), which refuses a destroyed mutex, and getting the
  mutex (`Lock`, with `EOWNERDEAD` and `pthread_mutex_consistent`) are two steps: who
  waits inside does not notice the destruction. A player that leaves by `exit` is a
  dead owner; one that has left the loop has unmapped the memory, and is not. A
  field is read and emptied in two steps.
* *Calculator.* An `int` is at most `INT32_MAX`: overflow wraps as it does in the build, the
  overflowing quotient raises SIGFPE. SIGINT is blocked outside `epoll_pwait`.

## 3. Runs

Passing runs:

| Run | Instance | Shows |
|---|---|---|
| `udp_two` | two clients, files of 2 and 1 parts, a table of one entry, timer at any time | `ConfirmedIsPrinted`, and the protocol implements `FileTransfer` |
| `udp_live` | one client, three parts, table of two | every client ends although nothing need ever be delivered; an address never has two entries |
| `locks` | futex, spin lock and semaphore with two incrementers and a decrementer, two turns each; two bank clients; three philosophers with two meals | exclusion, no forgotten sleeper, additions under all three locks are atomic, money is lost only through an overlap and only without a real lock, philosophers hang in the circle only, all others end |
| `sync2` | buffers of 3 and 2 slots, 3 readers and 2 writers, 3 sensors, 4 workers on two records of whom 3 may die, in all three builds | both buffers are FIFO queues, no signal is lost, writers are alone and no wake-up is wasted, no file is read while written, an idle record is consistent, and everybody gets as far as the deaths allow |
| `servers` | two clients of the threaded servers on one or two cores with one or two free descriptors; two sessions of one connection; two clients of the blocking servers; three chat users, one of whom never reads | one user per descriptor, the right context, exact gauges, whole responses in order, every line answered once, the chat's table exact, and everybody served |
| `programs` | the laboratories, the store and the coroutine server | see section 4 |

Runs that end in a violation, each of a sentence in the repository (see
`findings`):

| Run | Sentence | What happens |
|---|---|---|
| `udp_reprint` (`PrintedOnce`) | "Server can not print the same part of the file more than once." | the entry is freed with the last part; a late duplicate of part 1 opens a new one and is printed again |
| `udp_wait` (`WaitEnds`) | "If confirmation is missing (wait 0,5 sec.) resend the packet again." | the alarm fires before `recv` blocks, and the wait has no end |
| `sensor_hang` (`SensorsEnd`) | the session `./sensor 0 & ... wait` | a fast sensor uses up a slow one's permissions and ends; the aggregator and the other sensor wait for ever |
| `workers_gauge` (`GaugeSane`) | "Active inbound connections" | a worker discounts a connection before the acceptor has counted it; the unsigned gauge wraps |
| `reactor_reuse` (`ReactorAnswered`) | "request `PING` -> response `PONG`" | `close` comes before the handler is cleared; the clearing hits the next client on that descriptor |
| `pool_hang` (`PoolEnds`) | "After receiving SIGINT server stops accepting user input and terminates its execution after handling all current requests" | `main` broadcasts without the mutex; a thread between its test and its wait misses it, and the join never returns |

Observed and not made into a run:

* a part is tried six times where the task says five (`counter <= 5` after the
  increment), and the retransmitted last part of a file is skipped without a
  confirmation;
* of two requests in one `read` of `dumb_epoll.c` the second is dropped (line 149;
  `dumb_common.c` keeps it), and a negative `STREAM` count is compared as unsigned
  (line 175);
* `rr_counter` of `dumb_epoll_workers.c` is an `int` that overflows after 2^31
  connections;
* a fast sensor overwrites files nobody has read; readers can keep writers out for
  ever;
* one chat user who does not read stops `select_chat.c`: its sends block;
* any command `kv_client` does not know acts as `fire`; a client killed between
  header and payload leaves an empty value behind;
* either handler of `l5_5-1.c` may change `errno` under the other one, and
  `mq_handler` under an interrupted `mq_send` that is to be retried; `ERR` then kills
  the game. The parent may also fill `pout` after the last child has gone, and wait
  for ever;
* SIGINT between `main`'s test of `work` and the read inside `fgets` stops nothing in
  `prog22.c`; `main` waits for one more line or signal;
* a player of `l6-2_client.c` that reaches GAME OVER with the mutex destroyed leaves
  those who wait inside `pthread_mutex_lock` there;
* INT_MIN / -1 kills the calculator of laboratory 7.

The models contain all of these except the counts and the overflow; the properties
name them as the only exceptions.

### Bounds and why they are enough

* `udp_two`: a table of one entry with two clients is always full for somebody;
  two parts have a first, a next and a last; `MaxTries` 1 allows a retry of every
  part. The theorems of section 5 remove the bounds.
* `udp_live`: `MaxTries` 2 and three parts: a late confirmation of part *k* can
  meet parts *k+1* and *k+2*.
* `locks`: three threads give an owner, a sleeper and a thread that overtakes;
  two turns let a thread meet what it left behind (for `futex.c` the theorems
  remove this bound). The bank has two clients, as Peterson's algorithm has;
  without a real lock one turn already shows the loss, with one there are two
  (`Turns`). `BufferSize` 2 lets flag and turn wait in the buffer together. Three
  philosophers are the least for which neighbours differ from everybody.
* `sync2`: 7 items through 3 slots wrap the ring twice; `MaxSpurious` 2 allows one
  spurious return on either side; two writers and three readers are the least for
  which a signal can go to the wrong one while others remain; of three workers of
  one record one dies, one recovers and one comes after, while the fourth works on
  another record.
* `servers`: two clients are enough for one to take over the descriptor the other
  gives up, at every step of both threads; with one core they share a worker's
  batch. `ULL` 8 is larger than the number of clients, so a wrap is visible. One
  connection: the buffer (`CAP` 4) is filled exactly, overrun and left partly full;
  one stream is longer than two chunks, one is empty. Blocking servers: one client
  overflows the buffer of 3, the other may reset in a stream. Chat: the speaker
  fills the window (2) of the one who does not read, and up to three descriptors are
  ready for `MAX_EVENTS` 2.
* `programs`: two pool threads and three lines, so that requests find all busy; as
  many throwers as balls; four SIGINT for an array of three, one more than there
  are items; three players over two rounds; three fields of different worth; three
  children and queues of 2, so that either queue is full while somebody is left, and
  one number each (`LIFE_SPAN` 1), which is enough for handlers over handlers over a
  blocked parent; two persons with three messages each and
  queues of 2; two users with four commands on three keys in a table of two; three
  clients of the coroutines with one descriptor and one frame to spare; ten sums
  at the edges of three-bit integers; two children of the pipe game, or one, and
  three C-c.

`CHECK_DEADLOCK FALSE` appears where programs end or clients may stop coming.
The readers and writers never end; `SyncProgress` states that they do not stop.

### Fairness

Weak fairness of each thread's or process's own steps, which is what a scheduler
that runs every runnable thread gives: an action that waits for a mutex or a
semaphore is only promised if the mutex stays free. A store does not stay in its
buffer for ever, an armed timer and a pending signal are delivered, a sleep ends.
Two programs need more. The signal thread of `prog19.c` and the players of
`l6-2_client.c` wait for a mutex that `main` or the server takes again and again
with a sleep of a second or more in between; during that sleep the mutex is free and the
waiter runs, so they get strong fairness. Epoll needs none, since the batch holds
everything that was ready.

Never assumed: that the network delivers, that a client of the threaded servers
sends or stays, that a user types or speaks, that a wait is interrupted or returns
spuriously, that a process dies. In the conversations (`DumbConnection`,
`BlockingServer`, `CoroServer`) the clients go on sending and reading what they have
to: without a request there is nothing to answer.

## 4. Properties

Every property is stated where it belongs, with the lines it is about.

* **Agreement of two sides.** `ConfirmedIsPrinted`; `OutputInOrder` and
  `EveryLineAnswered` (responses against requests); `GaugesExact`; `ClientsExact` and
  `HeardInOrder` (the chat's table and what users see); `RecordsConsistent` (result,
  count and mutex of an idle record); `TotalKept`; `PrintedIsTrue` (what `main` prints
  in `prog18`, `prog19`, `prog20` and `prog23` is what the threads did); `PointsKept`;
  `StoreIsMap`; `SumsRight`; `FairAward` (an action property: points are given for
  rolls of one round).
* **Somebody is always left to act.** `NoLostWakeup`, `WaitJustified`,
  `WakeupsSuffice`, `ReadsWithRoom`, `OnlyTheCircleBlocks`, `MessagesHaveReaders` (no
  message, child or letter is left to nobody, in `Bingo`, `MqPersons`, `PipeGame`; and
  what may kill the bingo game).
* **Exclusion.** `MutualExclusion`, `WriterAlone`, `NoTornRead`, `OneEntryPerAddress`,
  `OneUser` and `RightContext` (descriptors and contexts of `EpollWorkers` and
  `Reactor`, whatever the load: a handler of the reactor is complete unless its client
  is in `reused`, and only such a client meets a NULL context), `OneStartPerRequest` (the pool), `EventsOfTheLiving` (no event resumes a
  frame that was freed or given away).
* **Progress.** `ClientTerminates`, `LocksEnd`, `SyncProgress`, `EveryoneServed`,
  `ProgramsEnd`. Each says for every program of its run how far it gets; where the
  code has a way out of ending, the definition names it and allows no other: the
  thread that missed the broadcast and the signal that came before `fgets` waited
  (`PoolOver`), the full queues and the overwritten `errno` (`BingoOver`), the mutex
  destroyed and unmapped by its holder (`GameOver`), the group killed at a full queue (`AllLeft`), the accepted
  client that says nothing (`CalcOver`, `StoreWaits`), the circle and the paused lock
  holder, the user who does not read (`Quiet`).
* **Refinement.** `ImplementsFileTransfer`, `ImplementsSharedCounter`,
  `LocksImplementSharedCounter`, `ImplementsBoundedQueue`, `SemImplementsBoundedQueue`.

Three type invariants (`TypeOK` of `UdpTransfer`, `FutexMutex` and `BoundedBufferCV`)
are checked and proved too.

Next to the operator it changes, each module defines the mutants of its code (a
dropped guard, a wrong order, a missing reset), one for each property that must
notice it.

## 5. Proofs

All by TLAPS, for every value of the constants that satisfies the named
assumptions: finite bounds play no role. The assumptions are `UdpAssumption`,
`FutexAssumption`, `CVAssumption`, `NoneAssumption`, `WorkersAssumption`, and in the MC
modules `ProgramsAssumption` and `ServersAssumption`, which gather the `...Constants` of
the modules they instantiate: that sets of threads, clients or accounts are finite,
that sizes are positive, that a special value is none of the ordinary ones. TLC
evaluates each of them on a run.

Every safety theorem has the same shape. An inductive invariant is a conjunction of
named parts; a lemma shows that it holds initially, one lemma per action or group of
actions that a step keeps it, and one that it implies the property. Each invariant
was first an invariant of a TLC run. What follows says what the invariant has to
know beyond the property.

**UdpTransferProofs.** `TypeCorrect`; `ConfirmedPrinted` (no client moves past a part
the server has not printed); `EntriesUnique` (`findIndex` never gives an address two
live entries); `TransferRefinement`. A confirmation in flight must be of a printed
part (`AckInv`), a data datagram of a part already read from the file (`DataInv`), an
entry's counter must count printed parts only (`EntryInv`), and the client's part
number stay within its file (`ChunkInv`). The refinement maps `delivered` to what is
printed and `confirmed` to the parts a client has moved past; a repeated print is a
stuttering step.

**LocksProofs.**

* `TypeCorrect`, `Exclusion`, `SleepersRemembered`, `CounterRefinement` (futex). `IInv` adds
  `LockWord`: the word is 0 exactly when nobody holds the mutex, where *holding*
  extends to the store of 0 in `unlock`. That is why a thread that exchanges 2 between
  the two steps of the release gets in only after the second. `RegCurrent` (the
  owner's register is current) gives the refinement, `Remembered` the sleepers.
* `LocksRefinement` (test-and-set, semaphore): `C_Inv`, the lock is free exactly when
  nobody is inside, and a register about to be stored is the counter.
* `MoneyKept`: two invariants. `B_Inv` shows that the two programs with a working lock
  never have two transfers under way: the spin lock's word says whether anybody is
  inside (`SwapInv`), with Peterson whoever waits for somebody inside has given the
  turn away (`PetersonInv`), and a store buffer is empty when the lock is given back,
  since atomic operations wait for it. `M_Inv` holds in all four programs: as long as
  no two transfers have overlapped, a thread sees all the money on the accounts when
  it looks through its own store buffer (`View`) and adds what it has taken and not
  yet given (`InHand`), provided the other thread has no stores under way (`Deep`).
  Memory itself does not keep the total: the stores of one transfer arrive one by
  one.
* `PhilosophersBlock`: `OneHand`, a chopstick is on the table or in the hand of one of
  its two neighbours; that nobody can go on then forces every philosopher in turn to
  hold the left one, by induction round the table.

**Sync2Proofs.**

* `TypeCorrect`, `NoLostSignal`, `QueueRefinement` (condition variables). `IInv` consists of
  `OwnerInv` (who is between lock and unlock owns the mutex), `MoveInv` (past its loop a
  process still finds its condition true), `TurnInv` and `RingInv`: the `size` slots from
  `out` on hold the produced items not yet consumed, in order.
* `SemQueueRefinement`: each slot is free or full and counted once, by a semaphore or
  by the process between its two semaphores (`Q_Tokens`), and the ring is right once
  the process that has filled or emptied a slot has moved the index (`Q_Ring`).
* `WritersAlone`, `SignalsSuffice`: the counters count who is inside (`RW_Counts`).
* `NoReadIsTorn`: a sensor that waits has a post in the semaphore, with the
  aggregator, or on its way back as a permission (`S_Tokens`): the aggregator that has
  taken all posts knows that everybody waits.
* `DatabaseConsistent`: who owns a mutex and is alive or dead (`D_Owners`), which mutexes
  are marked (`D_Marks`), who answers for a stale result (`D_Results`), and which dead
  workers have not counted (`D_Counts`), in the three builds at once.

**WorkersProofs.** `OneUserAtATime`, `ContextsAreRight` and, for `EpollWorkers` alone,
`WorkerGauges`. From `epoll_ctl(ADD)` to `close` a descriptor belongs to one worker and to
no acceptor (`E_Alone`, `R_Alone`), a batch holds registered descriptors only (`E_Batch`), a
client has one descriptor (`E_Clients`), and the context of whatever a worker may be
told of is that of its client (`E_Context`). The reactor needs two more invariants,
for every load. `R_Contexts`: until a worker has a descriptor, the request of its client
is in the socket and the context is started anew, and afterwards the context tells
what this client, who has no other descriptor, has been given. `R_Handlers`: a handler
that is being cleared belongs to a closed descriptor or to a client in `reused`, so the
three fields the acceptor sets one by one stay set for all others, and a handler that
finds no context serves a client in `reused`. With spaced arrivals nobody is accepted
while somebody is removed (`R_Spaced`), so `reused` stays empty; with others the
violation run shows what happens to its members.

**ConversationsProofs.**

* `GaugesTell`: the gauges of the blocking servers count the calls of `handle_client` at
  the steps between the two changes (`K_Gauges`); those of the workers come from
  `WorkerGauges`, with the connections the acceptor is yet to count.
* `ResponsesInOrder`, `RoomToRead`: the buffer holds the end of what was read
  (`D_Buffer`); requests are executed in order and none still to come has been
  (`D_Executed`), which rests on the order of tokens in the input (`D_InputOrdered`,
  from lemmas on `FlattenSeq`); what is written is the responses before and the
  beginning of the present one (`D_Out`).
* `LinesAnswered`: the buffer holds the end of what was read, and begins with a line or
  inside one too long for it (`L_Buffer`); the lines before it are answered, each as what
  it is (`L_Answers`), and a request is counted when its answer begins (`L_Counters`). That
  a buffer can be cut into lines at all rests on the tokens of a script following each
  other as in a text (`IsText`, `InputIsText`, `SameLine`).
* `ChatKnowsItsClients`: descriptors of open users differ, the table holds each once,
  and an event of a batch is of a user who is still there (`H_Events`).
* `ChatsAreInOrder`: how far each user has been sent what another has said (`Reached`)
  depends on the broadcast under way, whose buffer holds the last messages of one
  speaker and whose cells are still to be served (`J_Cast`). A user has nothing beyond
  it (`J_Upto`) and, with `select`, not less (`J_Last`), so that appending the next
  stretch of a speaker keeps the order (`J_Appends`). Nobody is sent anything before
  the welcome (`J_Welcomed`).

**ProgramsProofs.**

* `StartsPerRequest`: unless SIGINT has come, a thread that leaves the waiting loop
  takes a request with it (`P_Requests`); `idlethreads` counts the idle (`P_Idle`).
* `AwardsAreFair`, an action property: between the barriers only the serial thread
  moves, and all are in one round (`G_Phases`); what it knows of the rolls it has looked
  at (`G_Maximum`).
* `MessagesAreRead`, of three programs: the parent and its stack of handlers (`N_Stack`)
  always have a signal pending or a handler at work for whatever arrived
  (`N_Notified`), and count the children (`N_Count`); where a test of `errno` can fail
  is read off the stack and `errno` together (`N_Errno`, `N_Killed`); `SomebodyReads` is itself inductive in
  `MqPersons`; a letter is at one place, once, and its packet is whole (`W_Apart`,
  `W_Once`, `W_Packets`).
* `WhatIsPrintedIsTrue`, of four programs. `prog18`: every ball waits, is in a hand
  or is counted, and what the bins hold is counted or about to be (`B_Balls`), so that
  no bin changes once `main` has seen all balls thrown (`B_Main`).
  `prog19`: `arrayCount` counts the items left and covers the signals sent, pending and
  handled (`I_Count`), and the line `main` prints under the mutex holds the items left
  so far (`I_Printed`). `prog20`: a year's counter counts the students in it
  (`T_Counts`) although a cancelled one leaves by its cleanup handler (`T_Years`).
  `prog23`: each round that is over gave at least one point and nobody two
  (`G_Scores`).

**ServicesProofs.**

* `TableIsMap`: what is in a client's stream, as far as it has come (`V_Clients`), that
  the server works on the last request of whom it serves (`V_Server`), and that an
  entry in use agrees with what was written last (`V_Map`).
* `EventsFindTheirCoroutine`: one frame per coroutine and one descriptor per client
  (`O_Frames`); what is armed belongs to a coroutine that waits, neither running nor
  told already (`O_Armed`); no two events of a batch are for one (`O_Events`).
* `NoPointLost`: a player between reading a field and emptying it owns the mutex
  (`F_Owner`) and what it read is still there (`F_Found`), so points on the board and
  with the players add up; the mutex is sound or destroyed.
* `AnswersAreRight`: an answer is what `calculate` makes of the client's own request
  (`C_Answers`), and only an overflowing quotient ends the server inside a connection
  (`C_Serving`). That this is the right number rests on two facts of arithmetic: taking
  a number in range modulo the width changes nothing (`C_Wrap`), and the quotient
  towards zero is the only one with a remainder of the right size and sign
  (`C_Quotient`, from `QuotientUnique`).

**SumLemmas.** TLAPS has no induction over data here: its library's theorems take a
predicate, which the provers cannot instantiate. `SetInduction` takes the *set* of
numbers with the property instead, and the rest follows: that the recursive function
by which the community modules fold a set exists (`PartialSums`, `SumExists`), that a sum
of integers is one, and how it changes when one or two elements do (`SumExcept`).

Every safety invariant and every action and refinement property that a run checks has
its theorem. Only model-checked are the liveness properties `ClientTerminates`,
`LocksEnd`, `SyncProgress`, `EveryoneServed` and `ProgramsEnd`: they need fairness and
`ENABLED`, which TLAPS does not handle here.

## 6. Not modelled

Socket and shared-memory set-up, the exits of the `ERR` macro where they are not
part of a behaviour, sleeps, logging and the metrics threads (they read atomic
counters). Overflow of `rr_counter` and a negative `STREAM` count are outside the
models: their outcome is a matter of the compiler and not of an interleaving.

Programs left out, and why:

* `store_buffer_test.c` measures how often a reordering happens that `BankTransfer`
  takes as possible at any time; `shm_tug.c` shows a race and claims nothing.
* `prog17.c` (threads that share nothing), `prog21.c` (one flag), `prog22a.c` (the
  first stage of `prog22b.c`), the FIFO programs of laboratory 5 (one copy loop),
  `l6-1.c` (one sampling child per row, joined at the end): nothing in them can
  interleave in two ways that differ.
* Laboratories 0 to 2 handle files in sequence; the older signal programs in
  `sop1/lab/.l2` count signals sent on timers, and what is merged depends on the
  times alone.
* `example2-code.c` and `sop-eden*` are starting code for students.
* The socket, shared-memory, container, binary, virtual-memory and network
  demonstrations are straight-line calls or one request and one answer; the load
  generator measures; the site is text.

## 7. Plan

Done: every program with state that several actors share is modelled, every property
of section 4 is checked, and every one that is not about liveness is proved for all
instances. A change of the code begins at the module the table of section 2 names:
its `.cfg` shows within minutes whether a property breaks, and its proof module which
part of the invariant no longer holds.
