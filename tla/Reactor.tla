------------------------------ MODULE Reactor ------------------------------
(***************************************************************************)
(* dumb_reactor.c: the connections of dumb_epoll_workers.c behind a table  *)
(* of callbacks, reactor_registry[], indexed by descriptor.  The acceptor  *)
(* fills a handler in and a worker clears it field by field, with no lock. *)
(* Here a client makes one request.                                        *)
(***************************************************************************)
EXTENDS Integers, Sequences, FiniteSets, FiniteSetsExt

CONSTANTS
    Clients,
    Cores,      \* the numbers of cores the program may be started on
    OpenMax,    \* descriptors the kernel lets the process open
    OwnFds,     \* how many of them it may need itself, the lowest ones
    MAX_FDS,    \* size of the tables
    Loads,      \* "busy", and "spaced": arrivals and departures do not overlap
    None,       \* no descriptor, nobody
    Self        \* the server, at the other end of its own descriptors

ReactorConstants ==
    /\ IsFiniteSet(Clients) /\ {None, Self} \cap (Clients \cup (0 .. OpenMax)) = {}
    /\ None # Self
    /\ Cores # {} /\ Cores \subseteq Nat \ {0} /\ IsFiniteSet(Cores)
    /\ OpenMax \in Nat \ {0} /\ OwnFds \subseteq 0 .. OpenMax
    /\ MAX_FDS \in Nat /\ Loads \subseteq {"busy", "spaced"}

Fds == 0 .. OpenMax - 1

\* The fields of handler_t in the order both threads write them.
Fields    == <<"on_read", "on_write", "app_data">>
AllFields == {"on_read", "on_write", "app_data"}

VARIABLES
    load,       \* how the clients behave; it never changes
    client,     \* client -> "new", "open", "sent", "answered", "left", "reset"
    unread,     \* the clients whose request is in the socket's buffer
    backlog,    \* the listener's queue
    owner,      \* descriptor -> the client at its other end, None when closed
    registry,   \* descriptor -> the fields of its handler that are not NULL
    ctx,        \* clients[fd].state, "STALE" until init_client_ctx
    epoll,      \* worker -> the descriptors registered with its instance
    apc, afd, rr_counter,   \* the acceptor; apc is a number while it sets fields
    wpc, wfd,   \* the workers; wpc is a number while they clear fields
    batch,      \* worker -> the descriptors of events[] it has not come to yet
    crashed,    \* a handler used the context through a NULL app_data
    reused      \* history: the clients accepted on a descriptor whose last handler
                \* a worker was still clearing

\* The array workers[], as long as the machine has cores.
Workers   == DOMAIN epoll
num_cores == Cardinality(Workers)

clientVars   == <<load, client, unread>>
acceptorVars == <<apc, afd, rr_counter, reused>>
workerVars   == <<wpc, wfd, batch>>
vars == <<clientVars, backlog, owner, registry, ctx, epoll, acceptorVars, workerVars, crashed>>

Gone == {"left", "reset"}

TypeOK ==
    /\ load \in Loads
    /\ client \in [Clients -> {"new", "open", "sent", "answered"} \cup Gone]
    /\ unread \in SUBSET Clients
    /\ backlog \in Seq(Clients)
    /\ owner \in [Fds -> Clients \cup {None, Self}]
    /\ registry \in [Fds -> SUBSET AllFields]
    /\ ctx \in [Fds -> {"STALE", "READ", "WRITE"}]
    /\ \E n \in Cores : epoll \in [0 .. n - 1 -> SUBSET {fd \in Fds : fd < MAX_FDS}]
    /\ apc \in {<<"accept", 0>>, <<"init", 0>>, <<"add", 0>>} \cup ({"set"} \X (1 .. 3))
    /\ afd \in Fds \cup {None} /\ rr_counter \in Nat
    /\ wpc \in [Workers -> ({"wait", "dispatch", "handle", "del", "close"} \X {0})
                              \cup ({"clear"} \X (1 .. 3))]
    /\ wfd \in [Workers -> Fds \cup {None}] /\ batch \in [Workers -> SUBSET Fds]
    /\ crashed \in BOOLEAN /\ reused \in SUBSET Clients

Init ==
    /\ load \in Loads
    /\ client = [c \in Clients |-> "new"] /\ unread = {} /\ backlog = <<>>
    /\ \E n \in OwnFds : owner = [fd \in Fds |-> IF fd < n THEN Self ELSE None]
    /\ ctx = [fd \in Fds |-> "STALE"]
    /\ registry = [fd \in Fds |-> {}]
    /\ \E n \in Cores : epoll = [w \in 0 .. n - 1 |-> {}]
    /\ apc = <<"accept", 0>> /\ afd = None /\ rr_counter = 0
    /\ wpc = [w \in Workers |-> <<"wait", 0>>] /\ wfd = [w \in Workers |-> None]
    /\ batch = [w \in Workers |-> {}]
    /\ crashed = FALSE /\ reused = {}

-----------------------------------------------------------------------------
(* Clients *)

Removing == \E w \in Workers : wpc[w][1] \in {"del", "close", "clear"}

\* When spaced, nobody comes before those who left have been removed ...
Connect(c) ==
    /\ client[c] = "new"
    /\ load = "spaced" => ~Removing /\ \A d \in Clients : client[d] \in Gone => \A fd \in Fds : owner[fd] # d
    /\ client' = [client EXCEPT ![c] = "open"]
    /\ backlog' = Append(backlog, c)
    /\ UNCHANGED <<load, unread, owner, registry, ctx, epoll, acceptorVars, workerVars, crashed>>

SendRequest(c) ==
    /\ client[c] = "open"
    /\ client' = [client EXCEPT ![c] = "sent"]
    /\ unread' = unread \cup {c}
    /\ UNCHANGED <<load, backlog, owner, registry, ctx, epoll, acceptorVars, workerVars, crashed>>

\* ... and nobody leaves while somebody is being accepted.
Leave(c, how) ==
    /\ client[c] \in {"open", "sent", "answered"}
    /\ load = "spaced" => backlog = <<>> /\ apc[1] = "accept"
    /\ client' = [client EXCEPT ![c] = how]
    /\ UNCHANGED <<load, unread, backlog, owner, registry, ctx, epoll, acceptorVars, workerVars,
                   crashed>>

-----------------------------------------------------------------------------
(* accept_handler, run by the main thread *)

FreeFds == {fd \in Fds : owner[fd] = None}

Accept ==
    /\ apc[1] = "accept" /\ backlog # <<>> /\ FreeFds # {} /\ Min(FreeFds) < MAX_FDS
    /\ afd' = Min(FreeFds)
    /\ owner' = [owner EXCEPT ![afd'] = Head(backlog)]
    /\ backlog' = Tail(backlog)
    /\ apc' = <<"init", 0>>
    /\ reused' = IF \E w \in Workers : wpc[w][1] = "clear" /\ wfd[w] = afd'
                  THEN reused \cup {Head(backlog)} ELSE reused
    /\ UNCHANGED <<clientVars, registry, ctx, epoll, rr_counter, workerVars, crashed>>

\* A descriptor with no place in the tables is closed at once.
AcceptTooHigh ==
    /\ apc[1] = "accept" /\ backlog # <<>> /\ FreeFds # {} /\ Min(FreeFds) >= MAX_FDS
    /\ client' = [client EXCEPT ![Head(backlog)] = "reset"]
    /\ backlog' = Tail(backlog)
    /\ UNCHANGED <<load, unread, owner, registry, ctx, epoll, acceptorVars, workerVars, crashed>>

InitClientCtx ==
    /\ apc[1] = "init"
    /\ ctx' = [ctx EXCEPT ![afd] = "READ"]
    /\ rr_counter' = rr_counter + 1
    /\ apc' = <<"set", 1>>
    /\ UNCHANGED <<clientVars, backlog, owner, registry, epoll, afd, reused, workerVars, crashed>>

SetField ==
    /\ apc[1] = "set"
    /\ registry' = [registry EXCEPT ![afd] = @ \cup {Fields[apc[2]]}]
    /\ apc' = IF apc[2] = 3 THEN <<"add", 0>> ELSE <<"set", apc[2] + 1>>
    /\ UNCHANGED <<clientVars, backlog, owner, ctx, epoll, afd, rr_counter, reused, workerVars,
                   crashed>>

\* target_worker was taken before rr_counter moved.
AddToWorker ==
    /\ apc[1] = "add"
    /\ epoll' = [epoll EXCEPT ![(rr_counter - 1) % num_cores] = @ \cup {afd}]
    /\ apc' = <<"accept", 0>> /\ afd' = None
    /\ UNCHANGED <<clientVars, backlog, owner, registry, ctx, rr_counter, reused, workerVars, crashed>>

-----------------------------------------------------------------------------
(* reactor_run and the handlers, run by a worker *)

At(w, where)   == wpc[w][1] = where
Goto(w, where) == wpc' = [wpc EXCEPT ![w] = <<where, 0>>]
Stay(w, where) == Goto(w, where) /\ UNCHANGED <<wfd, batch>>
Back(w)        == Goto(w, "wait") /\ wfd' = [wfd EXCEPT ![w] = None] /\ UNCHANGED batch
Peer(w)        == client[owner[wfd[w]]]

Ready(fd) == \/ client[owner[fd]] \in Gone
             \/ owner[fd] \in unread
             \/ ctx[fd] = "WRITE"

\* The next event of events[]; after the last one epoll_wait blocks until it can
\* return all that is ready.
NextEvent(w) ==
    LET events == IF batch[w] # {} THEN batch[w] ELSE {fd \in epoll[w] : Ready(fd)}
    IN  /\ At(w, "wait")
        /\ \E fd \in events : /\ wfd' = [wfd EXCEPT ![w] = fd]
                              /\ batch' = [batch EXCEPT ![w] = events \ {fd}]
        /\ Goto(w, "dispatch")
        /\ UNCHANGED <<clientVars, backlog, owner, registry, ctx, epoll, acceptorVars, crashed>>

Callback(fd) == IF ctx[fd] = "WRITE" THEN "on_write" ELSE "on_read"

\* EPOLLERR or EPOLLHUP removes the handler; otherwise its callback is called,
\* if it has one.
Dispatch(w) ==
    /\ At(w, "dispatch")
    /\ \/ Peer(w) = "reset" /\ Stay(w, "del")
       \/ Peer(w) # "reset" /\ Callback(wfd[w]) \in registry[wfd[w]]
             /\ Stay(w, "handle")
       \/ Peer(w) # "reset" /\ Callback(wfd[w]) \notin registry[wfd[w]] /\ Back(w)
    /\ UNCHANGED <<clientVars, backlog, owner, registry, ctx, epoll, acceptorVars, crashed>>

HandleNull(w) ==
    /\ At(w, "handle") /\ "app_data" \notin registry[wfd[w]]
    /\ crashed' = TRUE
    /\ UNCHANGED <<clientVars, backlog, owner, registry, ctx, epoll, acceptorVars, workerVars>>

CanHandle(w) == At(w, "handle") /\ "app_data" \in registry[wfd[w]]

\* client_read_handler: a request arrived.
ClientRead(w) ==
    /\ CanHandle(w) /\ ctx[wfd[w]] = "READ"
    /\ owner[wfd[w]] \in unread /\ Peer(w) # "reset"
    /\ unread' = unread \ {owner[wfd[w]]}
    /\ ctx' = [ctx EXCEPT ![wfd[w]] = "WRITE"]
    /\ Back(w)
    /\ UNCHANGED <<load, client, backlog, owner, registry, epoll, acceptorVars, crashed>>

\* client_write_handler: the response goes out, perhaps to somebody who has left.
ClientWrite(w) ==
    /\ CanHandle(w) /\ ctx[wfd[w]] = "WRITE" /\ Peer(w) # "reset"
    /\ client' = [client EXCEPT ![owner[wfd[w]]] = IF @ = "sent" THEN "answered" ELSE @]
    /\ ctx' = [ctx EXCEPT ![wfd[w]] = "READ"]
    /\ Back(w)
    /\ UNCHANGED <<load, unread, backlog, owner, registry, epoll, acceptorVars, crashed>>

\* A read of 0 bytes, or a read or write that fails: reactor_remove is called.
ClientEnd(w) ==
    /\ CanHandle(w)
    /\ \/ Peer(w) = "reset"
       \/ Peer(w) = "left" /\ (ctx[wfd[w]] = "WRITE" \/ owner[wfd[w]] \notin unread)
    /\ Stay(w, "del")
    /\ UNCHANGED <<clientVars, backlog, owner, registry, ctx, epoll, acceptorVars, crashed>>

-----------------------------------------------------------------------------
(* reactor_remove *)

CtlDel(w) ==
    /\ At(w, "del")
    /\ epoll' = [epoll EXCEPT ![w] = @ \ {wfd[w]}]
    /\ Stay(w, "close")
    /\ UNCHANGED <<clientVars, backlog, owner, registry, ctx, acceptorVars, crashed>>

CloseFd(w) ==
    /\ At(w, "close")
    /\ owner' = [owner EXCEPT ![wfd[w]] = None]
    /\ wpc' = [wpc EXCEPT ![w] = <<"clear", 1>>] /\ UNCHANGED <<wfd, batch>>
    /\ UNCHANGED <<clientVars, backlog, registry, ctx, epoll, acceptorVars, crashed>>

ClearField(w) ==
    /\ At(w, "clear")
    /\ registry' = [registry EXCEPT ![wfd[w]] = @ \ {Fields[wpc[w][2]]}]
    /\ IF wpc[w][2] = 3 THEN Back(w)
       ELSE wpc' = [wpc EXCEPT ![w] = <<"clear", wpc[w][2] + 1>>] /\ UNCHANGED <<wfd, batch>>
    /\ UNCHANGED <<clientVars, backlog, owner, ctx, epoll, acceptorVars, crashed>>

-----------------------------------------------------------------------------
AcceptorStep == ~crashed /\ (Accept \/ AcceptTooHigh \/ InitClientCtx \/ SetField \/ AddToWorker)
WorkerStep(w) ==
    /\ ~crashed
    /\ \/ NextEvent(w) \/ Dispatch(w) \/ HandleNull(w)
       \/ ClientRead(w) \/ ClientWrite(w) \/ ClientEnd(w)
       \/ CtlDel(w) \/ CloseFd(w) \/ ClearField(w)
Next == \/ \E c \in Clients : Connect(c) \/ SendRequest(c) \/ \E how \in Gone : Leave(c, how)
        \/ AcceptorStep
        \/ \E w \in Workers : WorkerStep(w)

Spec == Init /\ [][Next]_vars

\* The threads keep running; clients do as they like.
FairSpec ==
    /\ Spec
    /\ WF_vars(AcceptorStep)
    /\ \A w \in 0 .. Max(Cores) - 1 : WF_vars(w \in Workers /\ WorkerStep(w))

-----------------------------------------------------------------------------
(* Properties. *)

Uses(w, fd) == \/ fd \in epoll[w]
               \/ wfd[w] = fd /\ wpc[w][1] \in {"dispatch", "handle", "del", "close"}

\* No client's descriptor and context are used by two threads at once, even
\* with descriptors being reused: before close() they are one worker's alone
\* (dumb_reactor.c:69-74, 83-85, 234-250).
OneUserPerFd ==
    \A w \in Workers, fd \in Fds :
        Uses(w, fd) => /\ owner[fd] \in Clients
                       /\ afd # fd
                       /\ \A v \in Workers \ {w} : ~Uses(v, fd)

\* Whatever the load, a worker that has a descriptor finds the context of the client
\* at its other end and, unless that client was accepted while the handler of the one
\* before was being cleared, all of its handler.  So this window is the only way to a
\* NULL context, and it is not there when arrivals and departures do not overlap
\* (dumb_reactor.c:83-92, 144, 234-250, 271-276).
HandlerOfThisClient ==
    /\ \A w \in Workers, fd \in Fds :
          Uses(w, fd) => /\ owner[fd] \notin reused => registry[fd] = AllFields
                         /\ \/ /\ ctx[fd] = "READ"
                               /\ client[owner[fd]] = "sent" => owner[fd] \in unread
                            \/ /\ ctx[fd] = "WRITE" /\ owner[fd] \notin unread
                               /\ client[owner[fd]] \in {"sent"} \cup Gone
    /\ crashed => \E w \in Workers : At(w, "handle") /\ owner[wfd[w]] \in reused
    /\ load = "spaced" => reused = {}

\* A client that stays gets its answer: "request PING -> response PONG"
\* (servers/code/index.en.md:11).
Answered == \A c \in Clients : client[c] = "sent" ~> client[c] \in Gone \cup {"answered"}

\* What the server comes to when arrivals and departures do not overlap: clients
\* are answered and the descriptors of those who left are closed
\* (dumb_reactor.c:83-89, 219-278).
SpacedServed ==
    load = "spaced" =>
        \A c \in Clients : /\ client[c] # "sent"
                           /\ client[c] \in Gone => \A fd \in Fds : owner[fd] # c
=============================================================================
