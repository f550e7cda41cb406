----------------------------- MODULE Calculator ------------------------------
(***************************************************************************)
(* l7-1_server.c of laboratory 7 with its clients: a single process that   *)
(* waits for connections to two listening sockets and for SIGINT at once,  *)
(* and serves a connection from the first byte to the last with blocking   *)
(* I/O.  Integers go up to INT32_MAX; an overflow wraps, as it does in the *)
(* build, and the quotient that overflows raises SIGFPE.                   *)
(***************************************************************************)
EXTENDS Integers, SequencesExt

CONSTANTS Askers,
          Sums,        \* Sums[c]: what client c may ask, tuples <<op1, operator, op2>>
          Sockets,     \* Sockets[c]: the listener c connects to
          INT32_MAX

int32_t == -INT32_MAX - 1 .. INT32_MAX

CalcConstants ==
    /\ INT32_MAX \in Nat
    /\ DOMAIN Sums = Askers /\ DOMAIN Sockets = Askers
    /\ \A c \in Askers : Sums[c] \subseteq int32_t \X STRING \X int32_t

VARIABLES
    asks,         \* the request of each client
    asker,        \* the clients: "new", "open" or "left"
    half,         \* half[c]: halves of the request sent and not read
    todo,         \* ... and to be sent
    queue,        \* queue[l]: connections of a listener
    nfds,         \* listeners epoll_pwait() has reported
    client_socket, size,   \* the connection served and the halves read
    result,       \* result[c]: status and result that c was sent
    sigint,       \* "none", "pending" or "handled"
    dpc           \* "epoll", "accept", "read", "ended" or "killed"

clients == <<asks, asker, half, todo>>
vars == <<clients, queue, nfds, client_socket, size, result, sigint, dpc>>

Listeners == {Sockets[c] : c \in Askers}
NoResult == <<>>

Init ==
    /\ asks \in {f \in [Askers -> UNION {Sums[c] : c \in Askers}] : \A c \in Askers : f[c] \in Sums[c]}
    /\ asker = [c \in Askers |-> "new"]
    /\ half = [c \in Askers |-> 0] /\ todo = [c \in Askers |-> 2]
    /\ queue = [l \in Listeners |-> <<>>]
    /\ nfds = {} /\ client_socket = {} /\ size = 0
    /\ result = [c \in Askers |-> NoResult]
    /\ sigint = "none" /\ dpc = "epoll"

-----------------------------------------------------------------------------
(* Clients, and the user *)

Connect(c) ==
    /\ asker[c] = "new" /\ dpc \notin {"ended", "killed"}
    /\ asker' = [asker EXCEPT ![c] = "open"]
    /\ queue' = [queue EXCEPT ![Sockets[c]] = Append(@, c)]
    /\ UNCHANGED <<asks, half, todo, nfds, client_socket, size, result, sigint, dpc>>

Send(c) ==
    /\ asker[c] = "open" /\ todo[c] > 0
    /\ todo' = [todo EXCEPT ![c] = @ - 1] /\ half' = [half EXCEPT ![c] = @ + 1]
    /\ UNCHANGED <<asks, asker, queue, nfds, client_socket, size, result, sigint, dpc>>

\* With the answer, or interrupted before it.
Leave(c) ==
    /\ asker[c] = "open" /\ asker' = [asker EXCEPT ![c] = "left"]
    /\ UNCHANGED <<asks, half, todo, queue, nfds, client_socket, size, result, sigint, dpc>>

SigInt ==
    /\ sigint = "none" /\ sigint' = "pending"
    /\ UNCHANGED <<clients, queue, nfds, client_socket, size, result, dpc>>

-----------------------------------------------------------------------------
(* calculate() *)

Wrap(n) == ((n + INT32_MAX + 1) % (2 * (INT32_MAX + 1))) - (INT32_MAX + 1)
Abs(n) == IF n < 0 THEN -n ELSE n
Quotient(a, b) == IF (a < 0) = (b < 0) THEN Abs(a) \div Abs(b) ELSE -(Abs(a) \div Abs(b))
Overflows(a, b) == b # 0 /\ Quotient(a, b) \notin int32_t

\* Mutant of calculate: any quotient is possible.
calculateAll(a, op, b) ==
    CASE op = "+" -> <<1, Wrap(a + b)>>
      [] op = "-" -> <<1, Wrap(a - b)>>
      [] op = "*" -> <<1, Wrap(a * b)>>
      [] op = "/" -> <<1, IF b = 0 THEN -1 ELSE Quotient(a, b)>>
      [] OTHER    -> <<0, -1>>

calculate(a, op, b) ==
    CASE op = "+" -> <<1, Wrap(a + b)>>
      [] op = "-" -> <<1, Wrap(a - b)>>
      [] op = "*" -> <<1, Wrap(a * b)>>
      [] op = "/" -> IF b = 0 THEN <<0, -1>> ELSE <<1, Quotient(a, b)>>
      [] OTHER    -> <<0, -1>>

-----------------------------------------------------------------------------
(* doServer() *)

\* SIGINT is blocked except in epoll_pwait(), which reports connections first.
EpollWait ==
    /\ dpc = "epoll" /\ sigint # "handled"
    /\ LET ready == {l \in Listeners : queue[l] # <<>>}
       IN  IF ready # {} THEN nfds' = ready /\ dpc' = "accept" /\ UNCHANGED sigint
           ELSE sigint = "pending" /\ sigint' = "handled" /\ UNCHANGED <<nfds, dpc>>
    /\ UNCHANGED <<clients, queue, client_socket, size, result>>

\* Mutant of End: epoll_pwait() is entered once more after the signal.
EndAfterClient ==
    /\ dpc = "epoll" /\ sigint = "handled" /\ dpc' = "ended"
    /\ \E l \in Listeners : queue[l] # <<>>
    /\ UNCHANGED <<clients, queue, nfds, client_socket, size, result, sigint>>

\* do_work is 0: the local socket is unlinked.
End ==
    /\ dpc = "epoll" /\ sigint = "handled" /\ dpc' = "ended"
    /\ UNCHANGED <<clients, queue, nfds, client_socket, size, result, sigint>>

add_new_client ==
    /\ dpc = "accept"
    /\ \E l \in nfds :
          /\ client_socket' = {Head(queue[l])} /\ queue' = [queue EXCEPT ![l] = Tail(@)]
          /\ nfds' = nfds \ {l}
    /\ size' = 0 /\ dpc' = "read"
    /\ UNCHANGED <<clients, result, sigint>>

Served == CHOOSE c \in client_socket : TRUE
NextEvent == dpc' = IF nfds = {} THEN "epoll" ELSE "accept"

bulk_read ==
    /\ dpc = "read" /\ size < 2 /\ half[Served] > 0
    /\ \E n \in 1 .. half[Served] : /\ size' = size + n
                                    /\ half' = [half EXCEPT ![Served] = @ - n]
    /\ UNCHANGED <<asks, asker, todo, queue, nfds, client_socket, result, sigint, dpc>>

\* The client left before it had sent everything: nothing is answered.
ShortRead ==
    /\ dpc = "read" /\ size < 2 /\ half[Served] = 0 /\ asker[Served] = "left"
    /\ client_socket' = {} /\ NextEvent
    /\ UNCHANGED <<clients, queue, nfds, size, result, sigint>>

\* bulk_write() to a client that left fails with EPIPE, which is accepted.
Answer ==
    /\ dpc = "read" /\ size = 2
    /\ LET q == asks[Served]
       IN  IF q[2] = "/" /\ Overflows(q[1], q[3])
           THEN dpc' = "killed" /\ UNCHANGED <<result, client_socket>>
           ELSE /\ result' = [result EXCEPT ![Served] = calculate(q[1], q[2], q[3])]
                /\ client_socket' = {} /\ NextEvent
    /\ UNCHANGED <<clients, queue, nfds, size, sigint>>

ServerStep == EpollWait \/ End \/ add_new_client \/ bulk_read \/ ShortRead \/ Answer
Next == ServerStep \/ SigInt \/ \E c \in Askers : Connect(c) \/ Send(c) \/ Leave(c)
Spec == Init /\ [][Next]_vars

-----------------------------------------------------------------------------
\* "If operation is possible status returned is 1, otherwise it should be 0"
\* (l7/_index.en.md:40-41): a result that an int can hold is exact, a quotient is
\* refused only for a divisor of 0, every client gets its own answer, and nothing
\* but the one quotient that overflows stops the server early
\* (l7-1_server.c:12-39, 78-85).
SumsRight ==
    /\ \A c \in Askers : result[c] # NoResult =>
          LET a == asks[c][1]  op == asks[c][2]  b == asks[c][3]
              exact == CASE op = "+" -> {a + b} [] op = "-" -> {a - b} [] op = "*" -> {a * b}
                         [] OTHER -> {n \in int32_t : b # 0 /\ Abs(a - n * b) < Abs(b)
                                                      /\ Abs(n * b) <= Abs(a)}
          IN  /\ result[c][1] = 1 <=> op \in {"+", "-", "*"} \/ (op = "/" /\ b # 0)
              /\ result[c][1] = 1 /\ exact \subseteq int32_t => {result[c][2]} = exact
    /\ dpc = "killed" => \E c \in client_socket : Overflows(asks[c][1], asks[c][3])
    /\ dpc = "ended" => client_socket = {} /\ nfds = {}

\* Once interrupted the server ends, unless a client it has accepted neither
\* sends nor leaves; and it serves whoever has connected before it does.
CalcOver ==
    \/ dpc \in {"ended", "killed"}
    \/ dpc = "read" /\ asker[Served] = "open" /\ todo[Served] > 0
    \/ sigint = "none" /\ \A l \in Listeners : queue[l] = <<>>
=============================================================================
