------------------------------ MODULE MineField ------------------------------
(***************************************************************************)
(* l6-2_server.c and l6-2_client.c of laboratory 6: a board in shared      *)
(* memory under a robust mutex.  A player may exit while it holds the      *)
(* mutex; whoever locks it next makes it consistent.  The server prints    *)
(* the board until SIGINT and then destroys the mutex under the players.   *)
(***************************************************************************)
EXTENDS Integers, FiniteSetsExt, Functions

CONSTANTS FieldPlayers, Fields, Points, Free, Server

FieldConstants ==
    /\ IsFiniteSet(Fields) /\ Points \in [Fields -> 1 .. 9]
    /\ IsFiniteSet(FieldPlayers) /\ Server \notin FieldPlayers
    /\ Free \notin FieldPlayers \cup {Server}

Lockers == FieldPlayers \cup {Server}

VARIABLES board, score,
          owner,         \* who holds the mutex, dead or alive, or Free
          mutexState,    \* "ok", "inconsistent", "notrecoverable" or "destroyed"
          fpc,           \* the players and the server's main thread
          seen,          \* the field a player has read, with its points
          interrupted,   \* SIGINT was sent
          running        \* ... and seen by the thread in sigwait()

vars == <<board, score, owner, mutexState, fpc, seen, interrupted, running>>

Init ==
    /\ board = Points /\ score = [p \in FieldPlayers |-> 0]
    /\ owner = Free /\ mutexState = "ok"
    /\ fpc = [t \in Lockers |-> IF t = Server THEN "test" ELSE "lock"]
    /\ seen = [p \in FieldPlayers |-> <<>>] /\ interrupted = FALSE /\ running = TRUE

Goto(t, l) == fpc' = [fpc EXCEPT ![t] = l]

Gone(t) == fpc[t] \in {"oops", "over", "error"}

\* The kernel marks a mutex held by a process that exits, unless the process has
\* unmapped it, as it does at the end of main().
OwnerDied == owner # Free /\ fpc[owner] \in {"oops", "error"}

\* pthread_mutex_lock() of a destroyed mutex returns EINVAL; who is inside notices
\* no destruction.
Enter(t) ==
    /\ fpc[t] = "lock" /\ Goto(t, IF mutexState = "destroyed" THEN "error" ELSE "waiting")
    /\ UNCHANGED <<board, score, owner, mutexState, seen, interrupted, running>>

\* Mutant of Lock: EOWNERDEAD is taken for success and the mutex left inconsistent.
LockUnmended(t) ==
    /\ fpc[t] = "waiting"
    /\ \/ mutexState # "notrecoverable" /\ owner = Free /\ owner' = t
          /\ Goto(t, "locked") /\ UNCHANGED mutexState
       \/ OwnerDied /\ owner' = t /\ mutexState' = "inconsistent" /\ Goto(t, "locked")
       \/ mutexState = "notrecoverable" /\ Goto(t, "error") /\ UNCHANGED <<owner, mutexState>>
    /\ UNCHANGED <<board, score, seen, interrupted, running>>

\* EOWNERDEAD is mended by pthread_mutex_consistent().
Lock(t) ==
    /\ fpc[t] = "waiting"
    /\ IF mutexState = "notrecoverable"
       THEN Goto(t, "error") /\ UNCHANGED owner
       ELSE (owner = Free \/ OwnerDied) /\ owner' = t /\ Goto(t, "locked")
    /\ UNCHANGED <<board, score, mutexState, seen, interrupted, running>>

\* Unlocking a destroyed mutex fails and the result is ignored; unlocking an
\* inconsistent one makes it unusable.
Unlock ==
    /\ owner' = IF mutexState = "destroyed" THEN owner ELSE Free
    /\ mutexState' = IF mutexState = "inconsistent" THEN "notrecoverable" ELSE mutexState

\* D = 1: "Ops..." and exit() with the mutex held.
Ops(p) ==
    /\ fpc[p] = "locked" /\ Goto(p, "oops")
    /\ UNCHANGED <<board, score, owner, mutexState, seen, interrupted, running>>

\* An empty field ends the game.
Search(p) ==
    /\ fpc[p] = "locked"
    /\ \E f \in Fields :
          \/ /\ board[f] = 0 /\ Goto(p, "over") /\ Unlock /\ UNCHANGED seen
          \/ /\ board[f] # 0 /\ Goto(p, "found")
             /\ seen' = [seen EXCEPT ![p] = <<f, board[f]>>]
             /\ UNCHANGED <<owner, mutexState>>
    /\ UNCHANGED <<board, score, interrupted, running>>

Take(p) ==
    /\ fpc[p] = "found"
    /\ score' = [score EXCEPT ![p] = @ + seen[p][2]]
    /\ board' = [board EXCEPT ![seen[p][1]] = 0]
    /\ seen' = [seen EXCEPT ![p] = <<>>]
    /\ Goto(p, "sleep") /\ Unlock /\ UNCHANGED <<interrupted, running>>

Sleep(t) ==
    /\ fpc[t] = "sleep" /\ Goto(t, IF t = Server THEN "test" ELSE "lock")
    /\ UNCHANGED <<board, score, owner, mutexState, seen, interrupted, running>>

TestRunning ==
    /\ fpc[Server] = "test" /\ Goto(Server, IF running THEN "lock" ELSE "destroy")
    /\ UNCHANGED <<board, score, owner, mutexState, seen, interrupted, running>>

PrintBoard ==
    /\ fpc[Server] = "locked" /\ Goto(Server, "sleep") /\ Unlock
    /\ UNCHANGED <<board, score, seen, interrupted, running>>

\* Locked or not: glibc does not refuse to destroy a robust mutex in use.
Destroy ==
    /\ fpc[Server] = "destroy" /\ Goto(Server, "over") /\ mutexState' = "destroyed"
    /\ UNCHANGED <<board, score, owner, seen, interrupted, running>>

SigInt ==
    /\ ~interrupted /\ interrupted' = TRUE
    /\ UNCHANGED <<board, score, owner, mutexState, fpc, seen, running>>

sighandling ==
    /\ interrupted /\ running /\ running' = FALSE
    /\ UNCHANGED <<board, score, owner, mutexState, fpc, seen, interrupted>>

PlayerStep(p) == Enter(p) \/ Lock(p) \/ Search(p) \/ Take(p) \/ Sleep(p)
ServerStep == TestRunning \/ Enter(Server) \/ Lock(Server) \/ PrintBoard \/ Sleep(Server) \/ Destroy
Next == ServerStep \/ sighandling \/ SigInt \/ \E p \in FieldPlayers : PlayerStep(p) \/ Ops(p)
Spec == Init /\ [][Next]_vars

-----------------------------------------------------------------------------
\* A player that exits with the mutex leaves a sound board behind: the points of a
\* field go to one player, although it is read and emptied in two steps, and nobody
\* finds the mutex unusable before the server destroys it, which waiters survive
\* (l6-2_client.c:56-93, l6-2_server.c:114-136, 144).
PointsKept ==
    /\ SumFunction(board) + SumFunction(score) = SumFunction(Points)
    /\ mutexState # "notrecoverable"
    /\ (\E t \in Lockers : fpc[t] = "error") => mutexState = "destroyed"

\* Dead owners block nobody: the players come to their end, and so does the
\* server once it was interrupted.  Except that a player who could not unlock the
\* destroyed mutex and unmapped it leaves those who wait there for ever: "The
\* 'robustness' doesn't work here!" (sop2/lab/l6/_index.en.md:141,
\* l6-2_client.c:82, 97).
LeftWaiting(p) ==
    /\ fpc[p] = "waiting" /\ mutexState = "destroyed"
    /\ owner # Free /\ fpc[owner] = "over"

GameOver == /\ \A p \in FieldPlayers : Gone(p) \/ LeftWaiting(p)
            /\ interrupted => fpc[Server] = "over"
=============================================================================
