---------------------------- MODULE ChatServers ------------------------------
(***************************************************************************)
(* epoll_chat.c and select_chat.c: one thread hands what a client says to  *)
(* all others.  The epoll version keeps its clients in a table that grows  *)
(* and sends without blocking; the select version keeps a set of           *)
(* descriptors and its accepted sockets block.  <<c, n>> is the n-th thing *)
(* said by c; <<c, 0>> welcomes c.                                         *)
(***************************************************************************)
EXTENDS Integers, Sequences, SequencesExt, FiniteSetsExt

CONSTANTS Users,
          Lazy,       \* users who never read
          Says,       \* Says[c]: how often c may speak
          WINDOW,     \* what the socket buffers of one connection hold
          RecvMax,    \* BUF_SIZE - 1
          MAX_EVENTS, \* size of the array given to epoll_wait()
          Listener    \* the listening descriptor, opened before all others

ChatConstants == /\ IsFiniteSet(Users) /\ Lazy \subseteq Users
                 /\ DOMAIN Says = Users /\ \A c \in Users : Says[c] \in Nat
                 /\ WINDOW \in Nat \ {0} /\ RecvMax \in Nat \ {0} /\ MAX_EVENTS \in Nat \ {0}
                 /\ Listener \in Int /\ Listener < 0

NoFd == -1
Fds  == 0 .. Cardinality(Users) - 1   \* the numbers accept() can return

VARIABLES
    polling,    \* "epoll" or "select"; it never changes
    conn,       \* conn[c]: "new", "queued", "open" or "closed"
    left,       \* the users that have gone away
    fd,         \* fd[c]: c's descriptor while open
    said, heard,   \* what c has said, and how much of it the server has received
    inbox,      \* inbox[c]: all that was sent to c
    unread,     \* how much of it is still in the socket buffers
    clients,    \* the table, without its first cell: its capacity is one more
    master_set,
    events,     \* events[d]: the user whose event on descriptor d was reported
    out, targets, pos   \* a broadcast: its text, the cells still to be sent to, and
                        \* how much the first of them has

userVars   == <<left, said>>
serverVars == <<clients, master_set>>
cast       == <<out, targets, pos>>
vars == <<polling, conn, userVars, fd, heard, inbox, unread, serverVars, events, cast>>

Init ==
    /\ polling \in {"epoll", "select"}
    /\ conn = [c \in Users |-> "new"] /\ left = {} /\ fd = [c \in Users |-> NoFd]
    /\ said = [c \in Users |-> 0] /\ heard = [c \in Users |-> 0]
    /\ inbox = [c \in Users |-> <<>>] /\ unread = [c \in Users |-> 0]
    /\ clients = <<NoFd>> /\ master_set = {}
    /\ events = <<>>
    /\ out = <<>> /\ targets = {} /\ pos = 0

Open == {c \in Users : conn[c] = "open"}
UserOf(d) == CHOOSE c \in Open : fd[c] = d

-----------------------------------------------------------------------------
(* Users *)

Connect(c) ==
    /\ conn[c] = "new" /\ conn' = [conn EXCEPT ![c] = "queued"]
    /\ UNCHANGED <<polling, userVars, fd, heard, inbox, unread, serverVars, events, cast>>

Say(c) ==
    /\ conn[c] = "open" /\ c \notin left /\ said[c] < Says[c]
    /\ said' = [said EXCEPT ![c] = @ + 1]
    /\ UNCHANGED <<polling, conn, left, fd, heard, inbox, unread, serverVars, events, cast>>

Leave(c) ==
    /\ conn[c] \in {"queued", "open"} /\ c \notin left /\ left' = left \cup {c}
    /\ UNCHANGED <<polling, conn, said, fd, heard, inbox, unread, serverVars, events, cast>>

Read(c) ==
    /\ c \notin Lazy \cup left /\ unread[c] > 0
    /\ unread' = [unread EXCEPT ![c] = 0]
    /\ UNCHANGED <<polling, conn, userVars, fd, heard, inbox, serverVars, events, cast>>

-----------------------------------------------------------------------------
(* The loop *)

Ready(c)     == conn[c] = "open" /\ (heard[c] < said[c] \/ c \in left)
SomeQueued   == \E c \in Users : conn[c] = "queued"
Reported     == {fd[c] : c \in {c \in Users : Ready(c)}}
                   \cup (IF SomeQueued THEN {Listener} ELSE {})
Idle         == events = <<>> /\ targets = {}

\* select() reports all descriptors that are ready, epoll_wait() as many as have room.
Batches ==
    IF polling = "select" THEN {Reported}
    ELSE kSubset(Min({MAX_EVENTS, Cardinality(Reported)}), Reported)

Poll ==
    /\ Idle /\ Reported # {}
    /\ \E ds \in Batches :
          events' = [d \in ds |-> IF d = Listener THEN Listener ELSE UserOf(d)]
    /\ UNCHANGED <<polling, conn, userVars, fd, heard, inbox, unread, serverVars, cast>>

\* The event handled next: any for epoll, in order of descriptors for select,
\* where the listener was opened first.
Turn(d) ==
    /\ d \in DOMAIN events /\ targets = {}
    /\ polling = "select" => \A e \in DOMAIN events : d <= e
Done(d) == events' = [e \in DOMAIN events \ {d} |-> events[e]]

\* Mutant of add_client: the cell behind the old table is not used.
add_clientSkips(d) ==
    LET free == {k \in 1 .. Len(clients) : clients[k] = NoFd}
        cap  == Len(clients) + 1
    IN  clients' = IF free # {} THEN [clients EXCEPT ![Min(free)] = d]
                   ELSE clients \o [k \in 1 .. cap |-> NoFd]

\* The first free cell, or the first cell of a table twice as large.
add_client(d) ==
    LET free == {k \in 1 .. Len(clients) : clients[k] = NoFd}
        cap  == Len(clients) + 1
    IN  clients' = IF free # {} THEN [clients EXCEPT ![Min(free)] = d]
                   ELSE clients \o [k \in 1 .. cap |-> IF k = 1 THEN d ELSE NoFd]

remove_client(d) ==
    LET cells == {k \in 1 .. Len(clients) : clients[k] = d}
    IN  clients' = IF cells = {} THEN clients ELSE [clients EXCEPT ![Min(cells)] = NoFd]

\* accept() takes the lowest free number; the welcome is the first thing sent.
Accept ==
    /\ Turn(Listener) /\ Done(Listener)
    /\ \E c \in Users :
          LET d == Min(Fds \ {fd[u] : u \in Open})
          IN  /\ conn[c] = "queued" /\ conn' = [conn EXCEPT ![c] = "open"]
              /\ fd' = [fd EXCEPT ![c] = d]
              /\ IF polling = "epoll" THEN add_client(d) /\ UNCHANGED master_set
                 ELSE master_set' = master_set \cup {d} /\ UNCHANGED clients
              /\ inbox' = [inbox EXCEPT ![c] = << <<c, 0>> >>]
              /\ unread' = [unread EXCEPT ![c] = 1]
    /\ UNCHANGED <<polling, userVars, heard, cast>>

\* recv() returns 0 or fails: nothing was said that is not heard yet.
Disconnect(d) ==
    /\ d # Listener /\ Turn(d) /\ Done(d)
    /\ LET c == UserOf(d)
       IN  /\ heard[c] = said[c] /\ c \in left
           /\ conn' = [conn EXCEPT ![c] = "closed"] /\ fd' = [fd EXCEPT ![c] = NoFd]
           /\ unread' = [unread EXCEPT ![c] = 0]
    /\ IF polling = "epoll" THEN remove_client(d) /\ UNCHANGED master_set
       ELSE master_set' = master_set \ {d} /\ UNCHANGED clients
    /\ UNCHANGED <<polling, userVars, heard, inbox, cast>>

\* What the broadcast loop goes through: the table, or all numbers.
Descriptors == IF polling = "epoll" THEN clients ELSE [j \in 1 .. Cardinality(Users) |-> j - 1]
Holds(e)    == IF polling = "epoll" THEN e # NoFd ELSE e \in master_set

\* Mutant of Others: the sender is not left out.
OthersAll(d) == {j \in DOMAIN Descriptors : Holds(Descriptors[j])}

\* Where it finds those it sends to.
Others(d) == {j \in DOMAIN Descriptors : Holds(Descriptors[j]) /\ Descriptors[j] # d}

\* recv() takes what has arrived, as much as the buffer holds.
Receive(d) ==
    /\ d # Listener /\ Turn(d) /\ Done(d)
    /\ LET c == UserOf(d)
           n == Min({said[c] - heard[c], RecvMax})
       IN  /\ n > 0
           /\ heard' = [heard EXCEPT ![c] = @ + n]
           /\ targets' = Others(d)
           /\ out' = IF Others(d) = {} THEN <<>> ELSE [k \in 1 .. n |-> <<c, heard[c] + k>>]
    /\ UNCHANGED <<polling, conn, userVars, fd, inbox, unread, serverVars, pos>>

Room(c) == WINDOW - unread[c]
Target  == UserOf(Descriptors[Min(targets)])

\* One send(), or for a socket that blocks a part of one: it fails when the user
\* has gone away, and ends when all is sent or, without blocking, what fits; a
\* blocking one waits for room.
Send ==
    /\ targets # {}
    /\ LET c == Target
           n == IF c \in left THEN 0 ELSE Min({Room(c), Len(out) - pos})
           sent == c \in left \/ polling = "epoll" \/ pos + n = Len(out)
       IN  /\ sent \/ n > 0
           /\ inbox' = [inbox EXCEPT ![c] = @ \o SubSeq(out, pos + 1, pos + n)]
           /\ unread' = [unread EXCEPT ![c] = @ + n]
           /\ pos' = IF sent THEN 0 ELSE pos + n
           /\ targets' = IF sent THEN targets \ {Min(targets)} ELSE targets
           /\ out' = IF sent /\ targets = {Min(targets)} THEN <<>> ELSE out
    /\ UNCHANGED <<polling, conn, userVars, fd, heard, serverVars, events>>

ServerStep == Poll \/ Accept \/ Send \/ \E d \in Fds : Disconnect(d) \/ Receive(d)
Next == ServerStep \/ \E c \in Users : Connect(c) \/ Say(c) \/ Leave(c) \/ Read(c)
Spec == Init /\ [][Next]_vars

-----------------------------------------------------------------------------
(* Properties. *)

\* The table, or the set, holds the descriptors of the open connections, each
\* once, and an event is always that of the user it was reported for although
\* numbers are reused within one round (epoll_chat.c:15-51, 122-171,
\* select_chat.c:62-103).
ClientsExact ==
    LET cells == {k \in 1 .. Len(clients) : clients[k] # NoFd}
        known == IF polling = "epoll" THEN {clients[k] : k \in cells} ELSE master_set
    IN  /\ known = {fd[c] : c \in Open}
        /\ \A j, k \in cells : clients[j] = clients[k] => j = k
        /\ \A d \in DOMAIN events \ {Listener} : d \in known /\ UserOf(d) = events[d]

\* A user sees what another one says in order and without repetition, never its
\* own words, and its welcome first; only the epoll version leaves something out
\* in between (epoll_chat.c:177-185, select_chat.c:83-85, 108-118).
HeardInOrder ==
    \A c \in Users :
        LET got == inbox[c]
        IN  /\ \A k \in DOMAIN got : got[k][1] = c <=> k = 1
            /\ \A j, k \in DOMAIN got : j < k /\ got[j][1] = got[k][1] =>
                  /\ got[j][2] < got[k][2]
                  /\ polling = "select" => \A n \in got[j][2] .. got[k][2] :
                                              \E i \in j .. k : got[i] = <<got[j][1], n>>

\* The server waits for a user to read.
Stuck == targets # {} /\ polling = "select" /\ Target \in Lazy /\ Room(Target) = 0

\* What the server comes to: whoever connected is accepted, everything said is
\* received, and who has left is closed; one user who does not read stops the
\* select version, nobody stops the epoll version (epoll_chat.c:109-189,
\* select_chat.c:48-123).
Quiet == Stuck \/ \A c \in Users : conn[c] # "queued" /\ ~Ready(c)
=============================================================================
