------------------------------ MODULE PipeGame -------------------------------
(***************************************************************************)
(* prog22b.c of laboratory 5: at every C-c the parent sends a letter to a  *)
(* child through the child's pipe and each child may die; a child answers  *)
(* with a packet of that letter through the pipe R that all share.         *)
(* A letter is its number in the order of sending, a packet its length     *)
(* and its data.  A SIGINT that finds its handler not yet installed is     *)
(* one that does nothing.                                                  *)
(***************************************************************************)
EXTENDS Integers, SequencesExt

CONSTANTS Twins,       \* the children there may be
          PRESSES      \* C-c at most

PipeConstants == IsFiniteSet(Twins) /\ PRESSES \in Nat

VARIABLES
    living,         \* the children
    mail,           \* mail[k]: letters in the pipe of child k
    holding,        \* holding[k]: the letter k has read and not answered, or 0
    fds,            \* fds[k]: the parent's end of that pipe is open
    R,              \* what is in the pipe R
    last_signal,    \* it is SIGINT
    intr, chld,     \* who has a SIGINT pending, and whether the parent has a SIGCHLD
    rpc,            \* where the parent is
    header,         \* the last length the parent read
    posted, shown,  \* letters sent, and printed
    presses

kids   == <<living, holding>>
parent == <<fds, last_signal, rpc, header, posted, shown>>
vars   == <<kids, mail, R, intr, chld, parent, presses>>

Parent == "parent"

Init ==
    /\ living \in SUBSET Twins \ {{}} /\ mail = [k \in Twins |-> <<>>] /\ holding = [k \in Twins |-> 0]
    /\ fds = [k \in Twins |-> k \in living] /\ R = <<>>
    /\ last_signal = FALSE /\ intr = {} /\ chld = FALSE
    /\ rpc = "test" /\ header = 0 /\ posted = 0 /\ shown = {} /\ presses = 0

\* C-c reaches the whole group; a signal that is pending already is merged.
SigInt ==
    /\ presses < PRESSES /\ presses' = presses + 1
    /\ intr' = living \cup {Parent}
    /\ UNCHANGED <<kids, mail, R, chld, parent>>

-----------------------------------------------------------------------------
(* child_work() *)

ReadLetter(k) ==
    /\ k \in living /\ holding[k] = 0 /\ mail[k] # <<>>
    /\ holding' = [holding EXCEPT ![k] = Head(mail[k])]
    /\ mail' = [mail EXCEPT ![k] = Tail(@)]
    /\ UNCHANGED <<living, R, intr, chld, parent, presses>>

\* At most PIPE_BUF bytes: they stay together.
WritePacket(k) ==
    /\ k \in living /\ holding[k] # 0
    /\ R' = R \o <<<<"length", holding[k]>>, <<"data", holding[k]>>>>
    /\ holding' = [holding EXCEPT ![k] = 0]
    /\ UNCHANGED <<living, mail, intr, chld, parent, presses>>

\* What was in the pipe of a child that exits is lost with it.
sig_killme(k) ==
    /\ k \in living \cap intr
    /\ \/ /\ living' = living \ {k} /\ intr' = intr \ {k} /\ chld' = TRUE
          /\ mail' = [mail EXCEPT ![k] = <<>>] /\ holding' = [holding EXCEPT ![k] = 0]
       \/ intr' = intr \ {k} /\ UNCHANGED <<kids, mail, chld>>
    /\ UNCHANGED <<R, parent, presses>>

-----------------------------------------------------------------------------
(* parent_work() *)

TestSignal ==
    /\ rpc = "test" /\ rpc' = IF last_signal THEN "send" ELSE "read"
    /\ UNCHANGED <<kids, mail, R, intr, chld, fds, last_signal, header, posted, shown, presses>>

\* A child whose descriptor is not marked as unused, if there is one; the pipe
\* of one that died is broken.
SendLetter ==
    /\ rpc = "send" /\ rpc' = "reset"
    /\ \/ \E k \in Twins :
             /\ fds[k] /\ posted' = posted + 1
             /\ IF k \in living
                THEN mail' = [mail EXCEPT ![k] = Append(@, posted')] /\ UNCHANGED fds
                ELSE fds' = [fds EXCEPT ![k] = FALSE] /\ UNCHANGED mail
       \/ (\A k \in Twins : ~fds[k]) /\ UNCHANGED <<mail, fds, posted>>
    /\ UNCHANGED <<kids, R, intr, chld, last_signal, header, shown, presses>>

\* A signal handled since the test is forgotten.
Reset ==
    /\ rpc = "reset" /\ rpc' = "read" /\ last_signal' = FALSE
    /\ UNCHANGED <<kids, mail, R, intr, chld, fds, header, posted, shown, presses>>

\* The end of file is that of all writers: the parent has closed its own R[1].
ReadLength ==
    /\ rpc \in {"read", "blocked"}
    /\ \/ /\ R # <<>> /\ rpc' = "data" /\ header' = Head(R)[2] /\ R' = Tail(R)
       \/ /\ R = <<>> /\ living = {} /\ rpc' = "end" /\ UNCHANGED <<header, R>>
       \/ /\ R = <<>> /\ living # {} /\ rpc = "read" /\ rpc' = "blocked" /\ UNCHANGED <<header, R>>
    /\ UNCHANGED <<kids, mail, intr, chld, fds, last_signal, posted, shown, presses>>

ReadData ==
    /\ rpc = "data" /\ R # <<>> /\ rpc' = "test"
    /\ R' = Tail(R) /\ shown' = shown \cup {Head(R)[2]}
    /\ UNCHANGED <<kids, mail, intr, chld, fds, last_signal, header, posted, presses>>

\* The test of errno after an interrupted read(); ERR kills the group.
CheckErrno ==
    /\ rpc \in {"eintr", "echild"} /\ rpc' = IF rpc = "eintr" THEN "test" ELSE "killed"
    /\ UNCHANGED <<kids, mail, R, intr, chld, fds, last_signal, header, posted, shown, presses>>

Interrupts == IF rpc = "blocked" THEN "eintr" ELSE rpc

sig_handler ==
    /\ Parent \in intr /\ rpc \notin {"end", "killed"}
    /\ intr' = intr \ {Parent} /\ last_signal' = TRUE /\ rpc' = Interrupts
    /\ UNCHANGED <<kids, mail, R, chld, fds, header, posted, shown, presses>>

\* The waitpid() that finds no child leaves its errno behind, unless read() sets
\* its own when the handler returns.
sigchld_handler ==
    /\ chld /\ rpc \notin {"end", "killed"} /\ chld' = FALSE
    /\ rpc' = IF rpc = "eintr" /\ living = {} THEN "echild" ELSE Interrupts
    /\ UNCHANGED <<kids, mail, R, intr, fds, last_signal, header, posted, shown, presses>>

KidStep(k) == ReadLetter(k) \/ WritePacket(k) \/ sig_killme(k)
ParentStep == TestSignal \/ SendLetter \/ Reset \/ ReadLength \/ ReadData \/ CheckErrno
Handlers == sig_handler \/ sigchld_handler
Next == SigInt \/ ParentStep \/ Handlers \/ \E k \in Twins : KidStep(k)
Spec == Init /\ [][Next]_vars

-----------------------------------------------------------------------------
\* A letter is with one child, on its way back or printed, and never twice; the
\* data behind a length is its own, so the parent never waits in the middle of a
\* packet; only the errno of a handler kills the group, with nobody left in it
\* (prog22b.c:63-69, 89-112).
LettersKept ==
    LET back  == {R[i][2] : i \in {j \in DOMAIN R : R[j][1] = "data"}}
        there == UNION {ToSet(mail[k]) \cup ({holding[k]} \ {0}) : k \in Twins}
    IN  /\ back \cap there = {} /\ shown \cap (back \cup there) = {}
        /\ back \cup there \cup shown \subseteq 1 .. posted
        /\ rpc = "data" => R # <<>> /\ Head(R) = <<"data", header>>
        /\ rpc = "killed" => living = {}

\* No letter stays under way, and the parent ends with the last child.
PipesOver ==
    /\ \A k \in Twins : mail[k] = <<>> /\ holding[k] = 0
    /\ living = {} => rpc \in {"end", "killed"}
    /\ rpc \notin {"end", "killed"} => R = <<>> /\ rpc = "blocked"
=============================================================================
