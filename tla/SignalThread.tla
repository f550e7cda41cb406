---------------------------- MODULE SignalThread -----------------------------
(***************************************************************************)
(* prog19.c of laboratory 3: one thread waits for signals with sigwait()   *)
(* and removes items from an array; main prints the array and looks at a   *)
(* flag.  Signals are blocked everywhere, so a second one of a kind that   *)
(* is pending is merged with the first.                                    *)
(***************************************************************************)
EXTENDS Integers, Sequences, FiniteSets

CONSTANTS arraySize,
          INTS       \* how often the user presses C-c at most

SignalConstants == arraySize \in Nat \ {0} /\ INTS \in Nat

DELETED_ITEM == -1

VARIABLES array, arrayCount, quitFlag,
          mxArray,      \* main holds it; the other thread's section is one step
          pending,      \* signals sent and not taken
          sent,         \* how many SIGINT were sent
          handler,      \* the signal the thread works on, "sigwait" or "end"
          main,         \* "flag", <<"print", next item>> or "end"
          printed       \* the line printed so far

arrayVars == <<array, arrayCount>>
vars == <<arrayVars, quitFlag, mxArray, pending, sent, handler, main, printed>>

Init ==
    /\ array = [i \in 1 .. arraySize |-> i] /\ arrayCount = arraySize
    /\ quitFlag = FALSE /\ mxArray = FALSE
    /\ pending = {} /\ sent = 0
    /\ handler = "sigwait" /\ main = <<"flag">> /\ printed = <<>>

Kill(sig) ==
    /\ main # <<"end">>
    /\ sig = "SIGINT" => sent < INTS /\ sent' = sent + 1
    /\ sig = "SIGQUIT" => sig \notin pending /\ ~quitFlag /\ handler # "SIGQUIT" /\ UNCHANGED sent
    /\ pending' = pending \cup {sig}
    /\ UNCHANGED <<arrayVars, quitFlag, mxArray, handler, main, printed>>

\* Of two pending signals the one with the lower number is taken first.
SigWait ==
    /\ handler = "sigwait" /\ pending # {}
    /\ handler' = IF "SIGINT" \in pending THEN "SIGINT" ELSE "SIGQUIT"
    /\ pending' = pending \ {handler'}
    /\ UNCHANGED <<arrayVars, quitFlag, mxArray, sent, main, printed>>

\* The first n places, but for those whose item is deleted.
Left(n) == {i \in 1 .. n : array[i] # DELETED_ITEM}

\* The item in place index, from 0, among those that are left.
removeItem(index) ==
    /\ \E i \in Left(arraySize) : /\ Cardinality(Left(i - 1)) = index
                                /\ array' = [array EXCEPT ![i] = DELETED_ITEM]
    /\ arrayCount' = arrayCount - 1

HandleInt ==
    /\ handler = "SIGINT" /\ ~mxArray /\ handler' = "sigwait"
    /\ IF arrayCount > 0 THEN \E index \in 0 .. arrayCount - 1 : removeItem(index)
       ELSE UNCHANGED arrayVars
    /\ UNCHANGED <<quitFlag, mxArray, pending, sent, main, printed>>

HandleQuit ==
    /\ handler = "SIGQUIT" /\ handler' = "end"
    /\ quitFlag' = TRUE
    /\ UNCHANGED <<arrayVars, mxArray, pending, sent, main, printed>>

TestFlag ==
    /\ main = <<"flag">>
    /\ IF quitFlag THEN main' = <<"join">> /\ UNCHANGED <<mxArray, printed>>
       ELSE main' = <<"print", 1>> /\ mxArray' = TRUE /\ printed' = <<>>
    /\ UNCHANGED <<arrayVars, quitFlag, pending, sent, handler>>

\* printArray() holds the mutex from the first to the last item.
printArray ==
    /\ main[1] = "print"
    /\ LET i == main[2]
       IN  /\ printed' = IF array[i] = DELETED_ITEM THEN printed ELSE Append(printed, array[i])
           /\ main' = IF i < arraySize THEN <<"print", i + 1>> ELSE <<"flag">>
           /\ mxArray' = (i < arraySize)
    /\ UNCHANGED <<arrayVars, quitFlag, pending, sent, handler>>

Join ==
    /\ main = <<"join">> /\ handler = "end" /\ main' = <<"end">>
    /\ UNCHANGED <<arrayVars, quitFlag, mxArray, pending, sent, handler, printed>>

MainStep == TestFlag \/ printArray \/ Join
HandlerStep == SigWait \/ HandleInt \/ HandleQuit
Next == MainStep \/ HandlerStep \/ \E sig \in {"SIGINT", "SIGQUIT"} : Kill(sig)
Spec == Init /\ [][Next]_vars

-----------------------------------------------------------------------------
\* What is printed is the array as it was at one moment, and arrayCount, from
\* which the next index is drawn, always the number of its items; no signal
\* removes more than one (prog19.c:71-73, 100-112, 135-138).
ArrayExact ==
    /\ arrayCount = Cardinality(Left(arraySize)) /\ arrayCount >= arraySize - sent
    /\ main[1] = "print" =>
           LET done == Left(main[2] - 1)
           IN  /\ Len(printed) = Cardinality(done)
               /\ \A i \in done : printed[Cardinality(Left(i))] = array[i]

\* After SIGQUIT main comes to its end, however many SIGINT are taken first.
QuitObeyed ==
    \/ main = <<"end">>
    \/ "SIGQUIT" \notin pending /\ handler # "SIGQUIT" /\ ~quitFlag
=============================================================================
