------------------------------ MODULE RecordDB ------------------------------
(***************************************************************************)
(* record_db_setup.c and the two record_db_worker programs: one-shot       *)
(* worker processes that update records in shared memory under a           *)
(* process-shared mutex, and may die at any point (a deep recursion        *)
(* overflows the stack).  The build options RECORD_DB_ROBUST and            *)
(* RECORD_DB_GLOBAL_LOCK, which no target combines, give three builds.     *)
(***************************************************************************)
EXTENDS Integers, FiniteSets

CONSTANTS Records, Workers,
          Target,          \* Target[w]: the record w works on
          Builds,          \* among "plain", "robust" and "global"
          Mortal,          \* the workers that may die
          None, GlobalMtx

DBConstants ==
    /\ IsFiniteSet(Workers)
    /\ Target \in [Workers -> Records]
    /\ Builds \subseteq {"plain", "robust", "global"}
    /\ Mortal \subseteq Workers
    /\ None \notin Workers /\ GlobalMtx \notin Records

Mutexes == Records \cup {GlobalMtx}

VARIABLES
    build,    \* the build in use; it never changes
    owner,    \* owner[m]: the process that holds mutex m, a dead one included
    mstate,   \* mstate[m]: "ok", "ownerdead" or "notrecoverable"
    bumps,    \* bumps[r]: how often base_value has been raised by 5
    count,    \* processing_count
    result,   \* last_result, as the number of bumps it was computed from
    pc,
    hash      \* hash[w]: w's final_hash, likewise

dbVars == <<bumps, count, result>>
vars   == <<build, owner, mstate, dbVars, pc, hash>>

PCs  == {"lock", "recover", "bump", "count", "hash", "store", "unlock", "done", "failed", "dead"}

TypeOK ==
    /\ build \in Builds
    /\ owner \in [Mutexes -> Workers \cup {None}]
    /\ mstate \in [Mutexes -> {"ok", "ownerdead", "notrecoverable"}]
    /\ bumps \in [Records -> Nat] /\ count \in [Records -> Nat]
    /\ result \in [Records -> Nat]
    /\ pc \in [Workers -> PCs]
    /\ hash \in [Workers -> Nat]

\* record_db_setup
Init ==
    /\ build \in Builds
    /\ owner = [m \in Mutexes |-> None]
    /\ mstate = [m \in Mutexes |-> "ok"]
    /\ bumps = [r \in Records |-> 0]
    /\ count = [r \in Records |-> 0]
    /\ result = [r \in Records |-> 0]
    /\ pc = [w \in Workers |-> "lock"]
    /\ hash = [w \in Workers |-> 0]

Goto(w, l) == pc' = [pc EXCEPT ![w] = l]

\* The mutex record_db_lock() and record_db_unlock() use for w's record.
Mtx(w) == IF build = "global" THEN GlobalMtx ELSE Target[w]

-----------------------------------------------------------------------------
\* record_db_lock() and what the worker does with its result: EOWNERDEAD gives
\* the mutex to w, ENOTRECOVERABLE makes it exit.
Lock(w) ==
    /\ pc[w] = "lock" /\ owner[Mtx(w)] = None
    /\ IF mstate[Mtx(w)] = "notrecoverable"
       THEN UNCHANGED owner /\ Goto(w, "failed")
       ELSE /\ owner' = [owner EXCEPT ![Mtx(w)] = w]
            /\ Goto(w, IF mstate[Mtx(w)] = "ownerdead" THEN "recover" ELSE "bump")
    /\ UNCHANGED <<build, mstate, dbVars, hash>>

\* pthread_mutex_consistent(&rec->mtx); the record is not repaired.
Recover(w) ==
    /\ pc[w] = "recover"
    /\ mstate' = [mstate EXCEPT ![Target[w]] = "ok"]
    /\ Goto(w, "bump")
    /\ UNCHANGED <<build, owner, dbVars, hash>>

\* process(): base_value, processing_count, the recursive hash, last_result.
Bump(w) ==
    /\ pc[w] = "bump"
    /\ bumps' = [bumps EXCEPT ![Target[w]] = @ + 1]
    /\ Goto(w, "count")
    /\ UNCHANGED <<build, owner, mstate, count, result, hash>>

Count(w) ==
    /\ pc[w] = "count"
    /\ count' = [count EXCEPT ![Target[w]] = @ + 1]
    /\ Goto(w, "hash")
    /\ UNCHANGED <<build, owner, mstate, bumps, result, hash>>

\* Mutant of Hash: the lock is dropped for the long computation.
HashUnlocked(w) ==
    /\ pc[w] = "hash"
    /\ hash' = [hash EXCEPT ![w] = bumps[Target[w]]]
    /\ owner' = [owner EXCEPT ![Mtx(w)] = None]
    /\ Goto(w, "store")
    /\ UNCHANGED <<build, mstate, dbVars>>

Hash(w) ==
    /\ pc[w] = "hash"
    /\ hash' = [hash EXCEPT ![w] = bumps[Target[w]]]
    /\ Goto(w, "store")
    /\ UNCHANGED <<build, owner, mstate, dbVars>>

Store(w) ==
    /\ pc[w] = "store"
    /\ result' = [result EXCEPT ![Target[w]] = hash[w]]
    /\ Goto(w, "unlock")
    /\ UNCHANGED <<build, owner, mstate, bumps, count, hash>>

\* A mutex unlocked while still marked inconsistent can never be locked again.
Unlock(w) ==
    /\ pc[w] = "unlock"
    /\ owner' = [owner EXCEPT ![Mtx(w)] = None]
    /\ mstate' = [mstate EXCEPT ![Mtx(w)] = IF @ = "ok" THEN @ ELSE "notrecoverable"]
    /\ Goto(w, "done")
    /\ UNCHANGED <<build, dbVars, hash>>

\* The process dies.  Only a robust mutex is released, as owner-dead.
Die(w) ==
    /\ w \in Mortal /\ pc[w] \notin {"done", "failed", "dead"}
    /\ Goto(w, "dead")
    /\ LET held == {m \in Mutexes : build = "robust" /\ owner[m] = w}
       IN  /\ owner' = [m \in Mutexes |-> IF m \in held THEN None ELSE owner[m]]
           /\ mstate' = [m \in Mutexes |-> IF m \in held THEN "ownerdead" ELSE mstate[m]]
    /\ UNCHANGED <<build, dbVars, hash>>

Step(w) ==
    \/ Lock(w) \/ Recover(w) \/ Bump(w) \/ Count(w) \/ Hash(w) \/ Store(w) \/ Unlock(w)

Next == \E w \in Workers : Step(w) \/ Die(w)

Spec == Init /\ [][Next]_vars

-----------------------------------------------------------------------------
(* Properties. *)

\* A record nobody is working on has a last_result that belongs to its
\* base_value, however many workers died in the middle of an update before
\* (record_db_worker_robust.c:32-38, 67-76).
ResultFresh ==
    \A r \in Records :
        (\A m \in {r, GlobalMtx} : owner[m] = None /\ mstate[m] = "ok") => result[r] = bumps[r]

\* processing_count only misses updates whose worker died: it never runs ahead
\* of base_value, and trails it by at most the dead (and one worker in between)
\* (record_db_worker_robust.c:33-34).
CountTrails ==
    \A r \in Records :
        LET dead == {w \in Workers : Target[w] = r /\ pc[w] \in {"dead", "count"}}
        IN  count[r] <= bumps[r] /\ bumps[r] <= count[r] + Cardinality(dead)

\* No worker finds the database unusable: a dead owner is always recovered
\* from (record_db_worker_robust.c:69-76).
NeverUnrecoverable == \A w \in Workers : pc[w] # "failed"

\* Every worker ends, unless the owner of the mutex it needs died and the mutex
\* is not robust: a death then stops the users of that mutex and nobody else,
\* "Other records are ok" (sync2/code/index.en.md:142).
EndedOrBlocked ==
    \A w \in Workers :
        \/ pc[w] \in {"done", "failed", "dead"}
        \/ build # "robust" /\ \E v \in Workers : pc[v] = "dead" /\ owner[Mtx(w)] = v
=============================================================================
