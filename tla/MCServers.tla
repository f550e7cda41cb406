------------------------------ MODULE MCServers ------------------------------
(***************************************************************************)
(* The servers of the lecture, for TLC.  One of them is started on the     *)
(* port, so the state space is their disjoint union: program says which    *)
(* one runs, and the variables of the others keep one initial value.       *)
(***************************************************************************)
EXTENDS EpollWorkers, TLC

CONSTANTS Programs, Loads,
          Sessions, CAP, CHUNK, MsgLen,                  \* DumbConnection
          Peers, Scripts, Resets, BUF, STREAM_CHUNK_SIZE, \* BlockingServer
          Users, Lazy, Says, WINDOW, RecvMax, MAX_EVENTS, Listener,  \* ChatServers
          c1, c2, c3

VARIABLES
    program,
    r_load, r_client, r_unread, r_backlog, r_owner, registry, r_ctx, r_epoll,
    r_apc, r_afd, r_rr_counter, r_wpc, r_wfd, r_batch, crashed, reused,
    session, d_sent, d_peer, d_got, read_buf, read_len, state, bytes_to_send,
    bytes_sent, interest, alive, d_out, executed,
    threaded, b_peer, b_sent, b_got, listener, b_pc, buf, b_left, answers, total,
    active_threads, b_connections,
    polling, conn, h_left, h_fd, said, heard, inbox, h_unread, table, master_set,
    events, h_out, targets, pos

R == INSTANCE Reactor WITH
         load <- r_load, client <- r_client, unread <- r_unread, backlog <- r_backlog,
         owner <- r_owner, ctx <- r_ctx, epoll <- r_epoll, apc <- r_apc, afd <- r_afd,
         rr_counter <- r_rr_counter, wpc <- r_wpc, wfd <- r_wfd, batch <- r_batch

Req(type, body, n) == [type |-> type, body |-> body, n |-> n]

\* Every kind of request, one after the other; the first stream is longer than
\* a chunk, the second one asks for nothing.
Polite == [requests |-> << Req("PING", 2, 0), Req("STREAM", 3, 5), Req("BURN", 3, 0),
                           Req("STREAM", 2, 0) >>,
           waits |-> TRUE, resets |-> FALSE]
\* An unknown request, and one that overflows the buffer, between known ones;
\* all sent at once, and the client may vanish.
Hasty == [requests |-> << Req("STREAM", 1, 3), Req("unknown", 1, 0), Req("PING", 1, 0),
                          Req("PING", 5, 0), Req("BURN", 1, 0) >>,
          waits |-> FALSE, resets |-> TRUE]

PoliteAndHasty == {Polite, Hasty}

D == INSTANCE DumbConnection WITH
         sent <- d_sent, peer <- d_peer, got <- d_got, out <- d_out

\* Two clients of the blocking servers: one overflows the buffer, one may vanish
\* in the middle of a stream.
BlockingScripts == c1 :> << Req("PING", 1, 0), Req("BURN", 3, 0), Req("WAIT", 1, 0) >>
                   @@ c2 :> << Req("STREAM", 1, 3), Req("PING", 0, 0) >>

K == INSTANCE BlockingServer WITH
         peer <- b_peer, sent <- b_sent, got <- b_got, pc <- b_pc, left <- b_left,
         active_connections <- b_connections

\* Three users of the chat, one of whom never reads.
ChatSays == c1 :> 2 @@ c2 :> 0 @@ c3 :> 0
NoFd == -1
H == INSTANCE ChatServers WITH
         left <- h_left, fd <- h_fd, unread <- h_unread, clients <- table, out <- h_out

ASSUME ServersAssumption ==
    R!ReactorConstants /\ D!ConnectionConstants /\ K!BlockingConstants /\ H!ChatConstants

rVars == <<r_load, r_client, r_unread, r_backlog, r_owner, registry, r_ctx, r_epoll,
           r_apc, r_afd, r_rr_counter, r_wpc, r_wfd, r_batch, crashed, reused>>
dVars == <<session, d_sent, d_peer, d_got, read_buf, read_len, state, bytes_to_send,
           bytes_sent, interest, alive, d_out, executed>>
kVars == <<threaded, b_peer, b_sent, b_got, listener, b_pc, buf, b_left, answers, total,
           active_threads, b_connections>>
hVars == <<polling, conn, h_left, h_fd, said, heard, inbox, h_unread, table, master_set,
           events, h_out, targets, pos>>
allVars == <<program, vars, rVars, dVars, kVars, hVars>>

\* Those that are not started are in one fixed initial state.
WorkersIdle ==
    num_cores = Max(Cores) /\ \A fd \in Fds : owner[fd] = Self <=> fd < Max(OwnFds)
ReactorIdle ==
    /\ R!num_cores = Max(Cores) /\ \A fd \in Fds : r_owner[fd] = Self <=> fd < Max(OwnFds)
    /\ r_load = CHOOSE l \in Loads : TRUE

ServersInit ==
    /\ program \in Programs
    /\ Init /\ R!Init /\ D!Init /\ K!Init /\ H!Init
    /\ program # "workers" => WorkersIdle
    /\ program # "reactor" => ReactorIdle
    /\ program # "connection" => session = CHOOSE s \in Sessions : s.waits
    /\ program # "blocking" => threaded
    /\ program # "chat" => polling = "epoll"

WorkersRuns    == program = "workers" /\ UNCHANGED <<program, rVars, dVars, kVars, hVars>>
ReactorRuns    == program = "reactor" /\ UNCHANGED <<program, vars, dVars, kVars, hVars>>
ConnectionRuns == program = "connection" /\ UNCHANGED <<program, vars, rVars, kVars, hVars>>
BlockingRuns   == program = "blocking" /\ UNCHANGED <<program, vars, rVars, dVars, hVars>>
ChatRuns       == program = "chat" /\ UNCHANGED <<program, vars, rVars, dVars, kVars>>

ServersNext ==
    \/ WorkersRuns /\ Next
    \/ ReactorRuns /\ R!Next
    \/ ConnectionRuns /\ D!Next
    \/ BlockingRuns /\ K!Next
    \/ ChatRuns /\ H!Next

\* The threads of the servers run; in the conversations clients go on with what
\* they have to send, and read, but need not speak or leave.
ServersSpec ==
    /\ ServersInit /\ [][ServersNext]_allVars
    /\ WF_allVars(WorkersRuns /\ AcceptorStep) /\ WF_allVars(ReactorRuns /\ R!AcceptorStep)
    /\ \A w \in 0 .. Max(Cores) - 1 :
          /\ WF_allVars(WorkersRuns /\ w \in Workers /\ WorkerStep(w))
          /\ WF_allVars(ReactorRuns /\ w \in R!Workers /\ R!WorkerStep(w))
    /\ WF_allVars(ConnectionRuns /\ D!ServerStep)
    /\ WF_allVars(ConnectionRuns /\ D!ClientSend) /\ WF_allVars(ConnectionRuns /\ D!ClientShut)
    /\ WF_allVars(BlockingRuns /\ K!Accept)
    /\ \A c \in Peers : /\ WF_allVars(BlockingRuns /\ K!Handler(c))
                      /\ WF_allVars(BlockingRuns /\ (K!Connect(c) \/ K!Send(c)))
    /\ WF_allVars(ChatRuns /\ H!ServerStep)
    /\ \A c \in Users : WF_allVars(ChatRuns /\ H!Read(c))

-----------------------------------------------------------------------------
\* A descriptor and its context have one user at a time in both servers with
\* workers, although descriptors are reused (dumb_epoll_workers.c:299-303,
\* 386-396, dumb_reactor.c:83-85, 234-250).
OneUser == OneUserPerFd /\ R!OneUserPerFd

\* Every handler runs with the context of the client its descriptor belongs to, and
\* never with the last client's; in the reactor, where a handler is cleared after
\* close(), only a client accepted meanwhile can find a NULL one
\* (dumb_epoll_workers.c:64-70, 285-303, dumb_reactor.c:83-92, 144, 234-276).
RightContext == ContextOfThisClient /\ R!HandlerOfThisClient

\* A client of the reactor that stays gets its answer: "request PING -> response
\* PONG" (servers/code/index.en.md:11).
ReactorAnswered == R!Answered

\* Whole responses in order, whatever the pieces (dumb_epoll.c:69-211).
OutputInOrder == D!OutputInOrder

\* The epoll loop never waits for an event that cannot help (dumb_epoll.c:72-79,
\* 122-126, 150).
ReadsWithRoom == D!ReadsWithRoom

\* The blocking handler answers every line once and in order (dumb_common.c:101-182).
EveryLineAnswered == K!EveryLineAnswered

\* The gauges tell the connections and threads there are, up to what a thread is
\* in the middle of (dumb_epoll_workers.c:302, 398, dumb_multithreaded.c:15-26).
GaugesExact == GaugeExact /\ K!GaugesBounded

\* The chat servers know exactly the open connections (epoll_chat.c:15-51,
\* select_chat.c:62-103).
ClientsExact == H!ClientsExact

\* Chat users see each other's words in order and never their own
\* (epoll_chat.c:177-185, select_chat.c:108-118).
HeardInOrder == H!HeardInOrder

\* Every server answers and lets go: the workers and, with spaced arrivals, the
\* reactor serve and close; a client of the epoll server that waits for each
\* response gets them all, and is closed; the blocking servers come to every
\* client; the chat goes on unless select's send() waits for somebody who never
\* reads (dumb_epoll_workers.c:285-305, dumb_reactor.c:83-89, dumb_epoll.c:251-297,
\* dumb_iterative.c:38-55, dumb_multithreaded.c:15-26, epoll_chat.c:109-189).
EveryoneServed ==
    <>[](CASE program = "workers"    -> Served
           [] program = "reactor"    -> R!SpacedServed
           [] program = "connection" -> D!AnsweredAndClosed
           [] program = "blocking"   -> K!AllClosed
           [] program = "chat"       -> H!Quiet)
==============================================================================
