-------------------------------- MODULE Bingo --------------------------------
(***************************************************************************)
(* l5_5-1.c of the message queue laboratory: children read numbers from    *)
(* the queue pout and answer on the queue pin, of which the parent is      *)
(* notified by SIGRTMIN; SIGCHLD counts the children that ended.  Both     *)
(* handlers run on the parent's stack, over main and over each other.      *)
(* Of the messages only their number matters.  /bingo_in and /bingo_out    *)
(* are empty at the start: no earlier game was killed.                     *)
(***************************************************************************)
EXTENDS Integers, Sequences, FiniteSets

CONSTANTS Kids, LIFE_SPAN, QueueSize

BingoConstants == IsFiniteSet(Kids) /\ LIFE_SPAN \in Nat \ {0} /\ QueueSize \in Nat \ {0}

VARIABLES
    pin, pout,       \* unread messages
    registered,      \* the parent asked to be notified of a message in pin
    signals,         \* pending for the parent
    stack,           \* the parent: where main is, then the handlers that run
    children_left, loaded,
    errno,
    kid, life        \* the children

parent == <<stack, children_left, loaded, errno>>
vars == <<pin, pout, registered, signals, parent, kid, life>>

Top == stack[Len(stack)]
Goto(l) == stack' = [stack EXCEPT ![Len(stack)] = l]

\* The calls whose ERR ends the game: kill(0, SIGKILL) reaches all children.
Sources == {"mq_send_pin", "mq_receive", "waitpid", "mq_send_pout"}
Killed == stack[1] \in Sources
ERR(source) == stack' = <<source>>

NoChild == \A k \in Kids : kid[k] \in {"unborn", "reaped"}

Init ==
    /\ pin = 0 /\ pout = 0 /\ registered = FALSE /\ signals = {}
    /\ stack = <<"fork">> /\ children_left = 0 /\ loaded = 0 /\ errno = "none"
    /\ kid = [k \in Kids |-> "unborn"] /\ life \in [Kids -> 1 .. LIFE_SPAN]

-----------------------------------------------------------------------------
(* child_work() *)

\* A number, which may be the child's own.  If the parent waits for room, its
\* message takes the place of the one received.
ReceiveNumber(k) ==
    /\ ~Killed /\ kid[k] = "play" /\ pout > 0
    /\ life' = [life EXCEPT ![k] = @ - 1]
    /\ IF Top = "blocked" THEN Goto("test") /\ UNCHANGED pout
                          ELSE pout' = pout - 1 /\ UNCHANGED stack
    /\ \E l \in {"bingo"} \cup {IF life[k] > 1 THEN "play" ELSE "timeout"} :
          kid' = [kid EXCEPT ![k] = l]
    /\ UNCHANGED <<pin, registered, signals, children_left, loaded, errno>>

\* mq_send() to pin, which is opened O_NONBLOCK; a message in an empty queue
\* uses up the registration.
Answer(k) ==
    /\ ~Killed /\ kid[k] \in {"bingo", "timeout"}
    /\ IF pin < QueueSize
       THEN /\ pin' = pin + 1
            /\ kid' = [kid EXCEPT ![k] = "exit"]
            /\ IF pin = 0 /\ registered
               THEN registered' = FALSE /\ signals' = signals \cup {"SIGRTMIN"}
               ELSE UNCHANGED <<registered, signals>>
            /\ UNCHANGED stack
       ELSE ERR("mq_send_pin") /\ UNCHANGED <<pin, kid, registered, signals>>
    /\ UNCHANGED <<pout, children_left, loaded, errno, life>>

Exit(k) ==
    /\ ~Killed /\ kid[k] = "exit"
    /\ kid' = [kid EXCEPT ![k] = "zombie"] /\ signals' = signals \cup {"SIGCHLD"}
    /\ UNCHANGED <<pin, pout, registered, parent, life>>

-----------------------------------------------------------------------------
(* main(), create_children() and parent_work() *)

\* children_left++ is a load and a store, between which a handler could run.
Fork ==
    /\ Top = "fork"
    /\ \E k \in Kids : /\ kid[k] = "unborn" /\ kid' = [kid EXCEPT ![k] = "play"]
                       /\ Goto("store") /\ loaded' = children_left
    /\ UNCHANGED <<pin, pout, registered, signals, children_left, errno, life>>

StoreCount ==
    /\ Top = "store" /\ children_left' = loaded + 1
    /\ Goto(IF \E k \in Kids : kid[k] = "unborn" THEN "fork" ELSE "notify")
    /\ UNCHANGED <<pin, pout, registered, signals, loaded, errno, kid, life>>

Notify ==
    /\ Top = "notify" /\ registered' = TRUE /\ Goto("test")
    /\ UNCHANGED <<pin, pout, signals, children_left, loaded, errno, kid, life>>

TestChildren ==
    /\ Top = "test" /\ Goto(IF children_left # 0 THEN "send" ELSE "end")
    /\ UNCHANGED <<pin, pout, registered, signals, children_left, loaded, errno, kid, life>>

\* mq_send() to pout, which waits for room.
SendNumber ==
    /\ Top = "send"
    /\ IF pout < QueueSize THEN pout' = pout + 1 /\ Goto("test")
                           ELSE Goto("blocked") /\ UNCHANGED pout
    /\ UNCHANGED <<pin, registered, signals, children_left, loaded, errno, kid, life>>

\* A signal has ended the wait and its handler has returned: mq_send() fails ...
Interrupted ==
    /\ Top = "interrupted" /\ errno' = "EINTR" /\ Goto("retry")
    /\ UNCHANGED <<pin, pout, registered, signals, children_left, loaded, kid, life>>

\* ... and is called again, if errno still tells why.
Retry ==
    /\ Top = "retry" /\ IF errno = "EINTR" THEN Goto("send") ELSE ERR("mq_send_pout")
    /\ UNCHANGED <<pin, pout, registered, signals, children_left, loaded, errno, kid, life>>

-----------------------------------------------------------------------------
(* The handlers.  A signal is blocked while its own handler runs. *)

HandlerOf == [SIGRTMIN |-> {"register", "receive", "check"}, SIGCHLD |-> {"wait", "echild"}]

Deliver(sig) ==
    /\ sig \in signals /\ ~Killed /\ Top # "end"
    /\ \A d \in 2 .. Len(stack) : stack[d] \notin HandlerOf[sig]
    /\ signals' = signals \ {sig}
    /\ LET below == IF Top = "blocked" THEN <<"interrupted">> ELSE stack
       IN  stack' = Append(below, IF sig = "SIGCHLD" THEN "wait" ELSE "register")
    /\ UNCHANGED <<pin, pout, registered, children_left, loaded, errno, kid, life>>

Return == stack' = SubSeq(stack, 1, Len(stack) - 1)

\* Mutant of Register: asks for the next notification without reading.
RegisterOnly ==
    /\ Top = "register" /\ registered' = TRUE /\ Return
    /\ UNCHANGED <<pin, pout, signals, children_left, loaded, errno, kid, life>>

Register ==
    /\ Top = "register" /\ registered' = TRUE /\ Goto("receive")
    /\ UNCHANGED <<pin, pout, signals, children_left, loaded, errno, kid, life>>

\* mq_receive() until the queue is empty ...
Receive ==
    /\ Top = "receive"
    /\ IF pin > 0 THEN pin' = pin - 1 /\ UNCHANGED <<stack, errno>>
                  ELSE errno' = "EAGAIN" /\ Goto("check") /\ UNCHANGED pin
    /\ UNCHANGED <<pout, registered, signals, children_left, loaded, kid, life>>

\* ... which errno tells, unless the other handler ran since.
CheckErrno ==
    /\ Top = "check" /\ IF errno = "EAGAIN" THEN Return ELSE ERR("mq_receive")
    /\ UNCHANGED <<pin, pout, registered, signals, children_left, loaded, errno, kid, life>>

\* waitpid() of one child; it returns 0 if none has ended, and fails if none is
\* left ...
Reap ==
    /\ Top = "wait"
    /\ \/ \E k \in Kids : /\ kid[k] = "zombie" /\ kid' = [kid EXCEPT ![k] = "reaped"]
                          /\ children_left' = children_left - 1
                          /\ UNCHANGED <<stack, errno>>
       \/ /\ \A k \in Kids : kid[k] # "zombie"
          /\ IF NoChild THEN errno' = "ECHILD" /\ Goto("echild") ELSE Return /\ UNCHANGED errno
          /\ UNCHANGED <<children_left, kid>>
    /\ UNCHANGED <<pin, pout, registered, signals, loaded, life>>

\* ... which errno tells, unless the other handler ran since.
CheckChild ==
    /\ Top = "echild" /\ IF errno = "ECHILD" THEN Return ELSE ERR("waitpid")
    /\ UNCHANGED <<pin, pout, registered, signals, children_left, loaded, errno, kid, life>>

ParentStep == Fork \/ StoreCount \/ Notify \/ TestChildren \/ SendNumber
              \/ Interrupted \/ Retry
HandlerStep == \/ \E sig \in signals : Deliver(sig)
               \/ Register \/ Receive \/ CheckErrno \/ Reap \/ CheckChild
KidStep(k) == ReceiveNumber(k) \/ Answer(k) \/ Exit(k)
Next == ParentStep \/ HandlerStep \/ \E k \in Kids : KidStep(k)
Spec == Init /\ [][Next]_vars

-----------------------------------------------------------------------------
Handling(sig) == \/ sig \in signals
                 \/ \E d \in 2 .. Len(stack) : stack[d] \in HandlerOf[sig]

\* No answer is forgotten between a drained queue and the next registration, and
\* no child between two signals that were merged; children_left is the number of
\* children not reaped.  The game is killed by a full queue, or by an errno that a
\* handler overwrote before it was tested: the tests in the handlers fail only when
\* all children have gone, that of the parent also when mq_handler() came between
\* an interrupted mq_send() and its retry (l5_5-1.c:42-53, 61-77, 96, 106-107, 125).
AnswersNotForgotten ==
    IF Killed
    THEN \/ pin = QueueSize /\ stack[1] = "mq_send_pin"
         \/ NoChild
         \/ errno = "EAGAIN" /\ stack[1] = "mq_send_pout"
    ELSE /\ pin > 0 => Handling("SIGRTMIN")
         /\ (\E k \in Kids : kid[k] = "zombie") => Handling("SIGCHLD")
         /\ stack[1] # "store" =>
                children_left = Cardinality({k \in Kids : kid[k] \notin {"unborn", "reaped"}})

\* The game ends, unless the parent fills pout while the last children are about
\* to leave: then nobody reads it any more (l5_5-1.c:103-109).
BingoOver ==
    \/ Killed \/ stack = <<"end">>
    \/ /\ stack = <<"blocked">> /\ pout = QueueSize
       /\ \A k \in Kids : kid[k] = "reaped"
=============================================================================
