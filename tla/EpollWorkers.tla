---------------------------- MODULE EpollWorkers ----------------------------
(***************************************************************************)
(* dumb_epoll_workers.c: one acceptor hands connections round-robin to     *)
(* workers, each with its own epoll instance.  The table clients[] is      *)
(* indexed by descriptor, and a descriptor a worker closes is the next one *)
(* accept() returns.  What is said over one connection is in               *)
(* DumbConnection; here a client makes one request.                        *)
(***************************************************************************)
EXTENDS Integers, Sequences, FiniteSets, FiniteSetsExt

CONSTANTS
    Clients,
    Cores,      \* the numbers of cores the program may be started on
    OpenMax,    \* descriptors the kernel lets the process open
    OwnFds,     \* how many of them it may need itself, the lowest ones
    MAX_FDS,    \* size of clients[]
    ULL,        \* number of values of atomic_ullong
    None,       \* no descriptor, nobody
    Self        \* the server, at the other end of its own descriptors

ASSUME WorkersAssumption ==
    /\ IsFiniteSet(Clients) /\ {None, Self} \cap (Clients \cup (0 .. OpenMax)) = {}
    /\ None # Self
    /\ Cores # {} /\ Cores \subseteq Nat \ {0} /\ IsFiniteSet(Cores)
    /\ OpenMax \in Nat \ {0} /\ OwnFds \subseteq 0 .. OpenMax
    /\ MAX_FDS \in Nat /\ ULL \in Nat \ {0}

Fds == 0 .. OpenMax - 1

VARIABLES
    client,     \* client -> "new", "open", "sent", "answered", "left", "reset"
    unread,     \* the clients whose request is in the socket's buffer
    backlog,    \* the listener's queue
    owner,      \* descriptor -> the client at its other end, None when closed
    ctx,        \* clients[fd].state, "STALE" until init_client_ctx
    epoll,      \* worker -> the descriptors registered with its instance
    apc, afd,   \* the acceptor: its next step and the descriptor in hand
    rr_counter,
    wpc, wfd,   \* the workers: next step and descriptor in hand
    batch,      \* worker -> the descriptors of events[] it has not come to yet
    active_connections    \* worker -> its gauge

acceptorVars == <<apc, afd, rr_counter>>
\* The array workers[], as long as the machine has cores.
Workers   == DOMAIN epoll
num_cores == Cardinality(Workers)

clientVars   == <<client, unread>>
workerVars   == <<wpc, wfd, batch>>
vars == <<clientVars, backlog, owner, ctx, epoll, acceptorVars, workerVars, active_connections>>

TypeOK ==
    /\ client \in [Clients -> {"new", "open", "sent", "answered", "left", "reset"}]
    /\ unread \in SUBSET Clients
    /\ backlog \in Seq(Clients)
    /\ owner \in [Fds -> Clients \cup {None, Self}]
    /\ ctx \in [Fds -> {"STALE", "READ", "WRITE"}]
    /\ \E n \in Cores : epoll \in [0 .. n - 1 -> SUBSET {fd \in Fds : fd < MAX_FDS}]
    /\ apc \in {"accept", "init", "add", "count"} /\ afd \in Fds \cup {None}
    /\ rr_counter \in Nat
    /\ wpc \in [Workers -> {"wait", "handle", "del", "close", "sub"}]
    /\ wfd \in [Workers -> Fds \cup {None}] /\ batch \in [Workers -> SUBSET Fds]
    /\ active_connections \in [Workers -> 0 .. ULL - 1]

Init ==
    /\ client = [c \in Clients |-> "new"] /\ unread = {} /\ backlog = <<>>
    /\ \E n \in OwnFds : owner = [fd \in Fds |-> IF fd < n THEN Self ELSE None]
    /\ ctx = [fd \in Fds |-> "STALE"]
    /\ \E n \in Cores : epoll = [w \in 0 .. n - 1 |-> {}]
    /\ apc = "accept" /\ afd = None /\ rr_counter = 0
    /\ wpc = [w \in Workers |-> "wait"] /\ wfd = [w \in Workers |-> None]
    /\ batch = [w \in Workers |-> {}]
    /\ active_connections = [w \in Workers |-> 0]

-----------------------------------------------------------------------------
(* Clients: connect, send one request, leave at any time. *)

Connect(c) ==
    /\ client[c] = "new"
    /\ client' = [client EXCEPT ![c] = "open"]
    /\ backlog' = Append(backlog, c)
    /\ UNCHANGED <<unread, owner, ctx, epoll, acceptorVars, workerVars, active_connections>>

SendRequest(c) ==
    /\ client[c] = "open"
    /\ client' = [client EXCEPT ![c] = "sent"]
    /\ unread' = unread \cup {c}
    /\ UNCHANGED <<backlog, owner, ctx, epoll, acceptorVars, workerVars, active_connections>>

\* An orderly close, after which an unread request can still be read, or a reset.
Leave(c, how) ==
    /\ client[c] \in {"open", "sent", "answered"}
    /\ client' = [client EXCEPT ![c] = how]
    /\ UNCHANGED <<unread, backlog, owner, ctx, epoll, acceptorVars, workerVars,
                   active_connections>>

-----------------------------------------------------------------------------
(* The acceptor *)

FreeFds == {fd \in Fds : owner[fd] = None}
target_worker == rr_counter % num_cores

\* accept() returns the lowest free descriptor.
Accept ==
    /\ apc = "accept" /\ backlog # <<>> /\ FreeFds # {} /\ Min(FreeFds) < MAX_FDS
    /\ afd' = Min(FreeFds)
    /\ owner' = [owner EXCEPT ![afd'] = Head(backlog)]
    /\ backlog' = Tail(backlog)
    /\ apc' = "init"
    /\ UNCHANGED <<clientVars, ctx, epoll, rr_counter, workerVars, active_connections>>

\* A descriptor with no place in the table is closed at once.
AcceptTooHigh ==
    /\ apc = "accept" /\ backlog # <<>> /\ FreeFds # {} /\ Min(FreeFds) >= MAX_FDS
    /\ client' = [client EXCEPT ![Head(backlog)] = "reset"]
    /\ backlog' = Tail(backlog)
    /\ UNCHANGED <<unread, owner, ctx, epoll, acceptorVars, workerVars, active_connections>>

\* Mutant of InitClientCtx: the entry keeps the last connection's state.
InitClientCtxNot ==
    /\ apc = "init"
    /\ apc' = "add"
    /\ UNCHANGED <<clientVars, backlog, owner, ctx, epoll, afd, rr_counter, workerVars,
                   active_connections>>

InitClientCtx ==
    /\ apc = "init"
    /\ ctx' = [ctx EXCEPT ![afd] = "READ"]
    /\ apc' = "add"
    /\ UNCHANGED <<clientVars, backlog, owner, epoll, afd, rr_counter, workerVars,
                   active_connections>>

\* From here on the worker may serve the connection.  rr_counter moved before,
\* the gauge moves after, and still for target_worker.
AddToWorker ==
    /\ apc = "add"
    /\ epoll' = [epoll EXCEPT ![target_worker] = @ \cup {afd}]
    /\ apc' = "count"
    /\ UNCHANGED <<clientVars, backlog, owner, ctx, afd, rr_counter, workerVars,
                   active_connections>>

\* Mutant of CountConnection: counted for the worker that is next.
CountNextWorker ==
    /\ apc = "count"
    /\ rr_counter' = rr_counter + 1
    /\ active_connections' =
          [active_connections EXCEPT ![rr_counter' % num_cores] = (@ + 1) % ULL]
    /\ apc' = "accept" /\ afd' = None
    /\ UNCHANGED <<clientVars, backlog, owner, ctx, epoll, workerVars>>

CountConnection ==
    /\ apc = "count"
    /\ rr_counter' = rr_counter + 1
    /\ active_connections' = [active_connections EXCEPT ![target_worker] = (@ + 1) % ULL]
    /\ apc' = "accept" /\ afd' = None
    /\ UNCHANGED <<clientVars, backlog, owner, ctx, epoll, workerVars>>

-----------------------------------------------------------------------------
(* The workers *)

Peer(w)     == client[owner[wfd[w]]]
Gone        == {"left", "reset"}
Ready(fd)   == \/ client[owner[fd]] \in Gone
               \/ owner[fd] \in unread
               \/ ctx[fd] = "WRITE"

\* The next event of events[]; after the last one epoll_wait blocks until it can
\* return all that is ready.
NextEvent(w) ==
    LET events == IF batch[w] # {} THEN batch[w] ELSE {fd \in epoll[w] : Ready(fd)}
    IN  /\ wpc[w] = "wait"
        /\ \E fd \in events : /\ wfd' = [wfd EXCEPT ![w] = fd]
                              /\ batch' = [batch EXCEPT ![w] = events \ {fd}]
        /\ wpc' = [wpc EXCEPT ![w] = "handle"]
        /\ UNCHANGED <<clientVars, backlog, owner, ctx, epoll, acceptorVars, active_connections>>

Back(w) == /\ wpc' = [wpc EXCEPT ![w] = "wait"]
           /\ wfd' = [wfd EXCEPT ![w] = None]
           /\ UNCHANGED batch

\* handle_read: a request arrived.
HandleRead(w) ==
    /\ wpc[w] = "handle" /\ ctx[wfd[w]] = "READ"
    /\ owner[wfd[w]] \in unread /\ Peer(w) # "reset"
    /\ unread' = unread \ {owner[wfd[w]]}
    /\ ctx' = [ctx EXCEPT ![wfd[w]] = "WRITE"]
    /\ Back(w)
    /\ UNCHANGED <<client, backlog, owner, epoll, acceptorVars, active_connections>>

\* handle_write: the response goes out, perhaps to somebody who has left.
HandleWrite(w) ==
    /\ wpc[w] = "handle" /\ ctx[wfd[w]] = "WRITE" /\ Peer(w) # "reset"
    /\ client' = [client EXCEPT ![owner[wfd[w]]] = IF @ = "sent" THEN "answered" ELSE @]
    /\ ctx' = [ctx EXCEPT ![wfd[w]] = "READ"]
    /\ Back(w)
    /\ UNCHANGED <<unread, backlog, owner, epoll, acceptorVars, active_connections>>

\* The end is seen: EPOLLERR or EPOLLHUP, a read of 0 bytes, a failed write.
SeesEnd(w) ==
    \/ Peer(w) = "reset"
    \/ Peer(w) = "left" /\ (ctx[wfd[w]] = "WRITE" \/ owner[wfd[w]] \notin unread)

\* is_alive = 0, or EPOLLERR, or EPOLLHUP.
HandleGone(w) ==
    /\ wpc[w] = "handle" /\ SeesEnd(w)
    /\ wpc' = [wpc EXCEPT ![w] = "del"]
    /\ UNCHANGED <<clientVars, backlog, owner, ctx, epoll, acceptorVars, wfd, batch,
                   active_connections>>

\* Mutant of CtlDel: the descriptor is closed here already, and once more after.
CtlDelCloses(w) ==
    /\ wpc[w] = "del"
    /\ epoll' = [epoll EXCEPT ![w] = @ \ {wfd[w]}]
    /\ owner' = [owner EXCEPT ![wfd[w]] = None]
    /\ wpc' = [wpc EXCEPT ![w] = "close"]
    /\ UNCHANGED <<clientVars, backlog, ctx, acceptorVars, wfd, batch, active_connections>>

CtlDel(w) ==
    /\ wpc[w] = "del"
    /\ epoll' = [epoll EXCEPT ![w] = @ \ {wfd[w]}]
    /\ wpc' = [wpc EXCEPT ![w] = "close"]
    /\ UNCHANGED <<clientVars, backlog, owner, ctx, acceptorVars, wfd, batch, active_connections>>

CloseFd(w) ==
    /\ wpc[w] = "close"
    /\ owner' = [owner EXCEPT ![wfd[w]] = None]
    /\ wpc' = [wpc EXCEPT ![w] = "sub"]
    /\ UNCHANGED <<clientVars, backlog, ctx, epoll, acceptorVars, wfd, batch, active_connections>>

Discount(w) ==
    /\ wpc[w] = "sub"
    /\ active_connections' = [active_connections EXCEPT ![w] = (@ - 1) % ULL]
    /\ Back(w)
    /\ UNCHANGED <<clientVars, backlog, owner, ctx, epoll, acceptorVars>>

-----------------------------------------------------------------------------
AcceptorStep == Accept \/ AcceptTooHigh \/ InitClientCtx \/ AddToWorker \/ CountConnection
WorkerStep(w) == \/ NextEvent(w) \/ HandleRead(w) \/ HandleWrite(w) \/ HandleGone(w)
                 \/ CtlDel(w) \/ CloseFd(w) \/ Discount(w)
Next == \/ \E c \in Clients : Connect(c) \/ SendRequest(c) \/ \E how \in Gone : Leave(c, how)
        \/ AcceptorStep
        \/ \E w \in Workers : WorkerStep(w)

Spec == Init /\ [][Next]_vars

\* The threads keep running; clients do as they like.
FairSpec ==
    /\ Spec
    /\ WF_vars(AcceptorStep)
    /\ \A w \in 0 .. Max(Cores) - 1 : WF_vars(w \in Workers /\ WorkerStep(w))

-----------------------------------------------------------------------------
(* Properties. *)

Busy(w, fd) == wpc[w] \in {"handle", "del", "close"} /\ wfd[w] = fd

\* clients[fd] and the descriptor have one user at a time, although
\* descriptors are reused without any lock: no two workers have the same one
\* in hand or registered, the acceptor never prepares one a worker still
\* uses, and a registered one is open (dumb_epoll_workers.c:64-70, 299-303,
\* 386-396).
OneUserPerFd ==
    \A w \in Workers, fd \in Fds :
        Busy(w, fd) \/ fd \in epoll[w] =>
            /\ owner[fd] \in Clients
            /\ ~(apc \in {"init", "add"} /\ afd = fd)
            /\ \A v \in Workers \ {w} : ~Busy(v, fd) /\ fd \notin epoll[v]

\* A connection is answered from a context of its own: a worker never finds
\* one that says a response is due which this client did not ask for
\* (dumb_epoll_workers.c:64-70, 386).
ContextOfThisClient ==
    \A w \in Workers : \A fd \in epoll[w] :
        /\ ctx[fd] # "STALE"
        /\ ctx[fd] = "WRITE" => client[owner[fd]] \in {"sent"} \cup Gone

B(b) == IF b THEN 1 ELSE 0

\* Every worker's gauge is the number of its connections up to what is in
\* flight: one the acceptor has registered and not yet counted, one the worker
\* has removed and still counts (dumb_epoll_workers.c:302, 396-398).
GaugeExact ==
    \A w \in Workers :
        active_connections[w] =
            (Cardinality(epoll[w]) + B(wpc[w] \in {"close", "sub"})
               - B(apc = "count" /\ target_worker = w)) % ULL

\* "Active inbound connections" (dumb_epoll_workers.c:239): the gauge never
\* reports more connections than there are clients.
GaugeSane == \A w \in Workers : active_connections[w] <= Cardinality(Clients)

\* What the server comes to: whoever asked and stays is answered, whatever the
\* others do, and the descriptor of one that left is closed and can be used
\* again (dumb_epoll_workers.c:285-305, 368-402).
Served ==
    \A c \in Clients : /\ client[c] # "sent"
                       /\ client[c] \in Gone => \A fd \in Fds : owner[fd] # c
=============================================================================
