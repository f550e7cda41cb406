----------------------------- MODULE CoroServer ------------------------------
(***************************************************************************)
(* dumb_coro.cpp: one worker, its epoll instance and its coroutines, one   *)
(* for the listener and one for every client.  The workers share nothing   *)
(* but descriptor numbers (SO_REUSEPORT: the kernel gives each connection  *)
(* to one listener).  What epoll stores is the address of a coroutine's    *)
(* frame, which is freed at its end and may be used again at once.         *)
(* A request is a number of tokens, the last one its newline; a client     *)
(* sends the next request when it has the response.                        *)
(***************************************************************************)
EXTENDS Integers, SequencesExt

CONSTANTS Callers,
          Asks,              \* Asks[c]: requests of c, [tokens, chunks]; no chunks: PING
          Fds,               \* descriptors below MAX_FDS
          Frames,            \* addresses of coroutine frames
          CORO_BUF,          \* sizeof(buf) - 1, in tokens
          Quitters,          \* the clients that may vanish at any moment
          Nobody

Listener == 0

CoroConstants == /\ DOMAIN Asks = Callers /\ Fds \subseteq Nat \ {Listener}
                 /\ CORO_BUF \in Nat \ {0} /\ IsFiniteSet(Fds) /\ IsFiniteSet(Frames)
                 /\ Cardinality(Frames) > Cardinality(Fds)
                 /\ Nobody \notin Callers \cup {"acceptor"} /\ "acceptor" \notin Callers

VARIABLES
    caller,     \* the clients: "new", "open" or "gone"
    asked,      \* asked[c]: the number of its request
    unsent,     \* tokens of it the client has yet to send
    unread,     \* tokens in the socket's receive buffer
    room,       \* the socket's send buffer has room
    backlog,
    fd,         \* fd[c]: the descriptor of c, or Listener for none
    frame,      \* frame[a]: the coroutine whose frame is at a, or Nobody
    cpc,        \* where the coroutines of the clients are
    read_len, chunks,   \* their variables: tokens in buf, bytes_to_send in chunks
    epoll,      \* epoll[f]: [ptr, want], want = "none" when disarmed (EPOLLONESHOT)
    events,     \* what epoll_wait() returned: [ptr, who], who being whose event it is
    running     \* the coroutines on the worker's stack

sockets == <<caller, asked, unsent, unread, room>>
locals  == <<read_len, chunks>>
vars == <<sockets, backlog, fd, frame, cpc, locals, epoll, events, running>>

NoEntry  == [ptr |-> Nobody, want |-> "none"]
FreeFds  == Fds \ {fd[c] : c \in Callers}
Address(co) == CHOOSE a \in Frames : frame[a] = co
Top == running[Len(running)]
On(co) == running # <<>> /\ Top = co
Goto(c, l) == cpc' = [cpc EXCEPT ![c] = l]

\* The acceptor has run up to its first await.
Init ==
    /\ caller = [c \in Callers |-> "new"] /\ asked = [c \in Callers |-> 1]
    /\ unsent = [c \in Callers |-> Asks[c][1].tokens] /\ unread = [c \in Callers |-> 0]
    /\ room = [c \in Callers |-> TRUE]
    /\ backlog = <<>> /\ fd = [c \in Callers |-> Listener]
    /\ frame = [[a \in Frames |-> Nobody] EXCEPT ![CHOOSE a \in Frames : TRUE] = "acceptor"]
    /\ cpc = [c \in Callers |-> "none"]
    /\ read_len = [c \in Callers |-> 0] /\ chunks = [c \in Callers |-> 0]
    /\ epoll = [f \in Fds \cup {Listener} |->
                   IF f = Listener THEN [ptr |-> Address("acceptor"), want |-> "in"] ELSE NoEntry]
    /\ events = <<>> /\ running = <<>>

-----------------------------------------------------------------------------
(* Clients *)

Connect(c) ==
    /\ caller[c] = "new" /\ caller' = [caller EXCEPT ![c] = "open"]
    /\ backlog' = Append(backlog, c)
    /\ UNCHANGED <<asked, unsent, unread, room, fd, frame, cpc, locals, epoll, events, running>>

Send(c) ==
    /\ caller[c] = "open" /\ unsent[c] > 0
    /\ unsent' = [unsent EXCEPT ![c] = @ - 1] /\ unread' = [unread EXCEPT ![c] = @ + 1]
    /\ UNCHANGED <<caller, asked, room, backlog, fd, frame, cpc, locals, epoll, events, running>>

Drain(c) ==
    /\ ~room[c] /\ room' = [room EXCEPT ![c] = TRUE]
    /\ UNCHANGED <<caller, asked, unsent, unread, backlog, fd, frame, cpc, locals, epoll, events, running>>

Finished(c) == asked[c] > Len(Asks[c])

Leave(c) ==
    /\ caller[c] = "open" /\ (Finished(c) \/ c \in Quitters)
    /\ caller' = [caller EXCEPT ![c] = "gone"]
    /\ UNCHANGED <<asked, unsent, unread, room, backlog, fd, frame, cpc, locals, epoll, events, running>>

-----------------------------------------------------------------------------
(* worker_loop() *)

Owner(f) == CHOOSE c \in Callers : fd[c] = f
Readable(c) == unread[c] > 0 \/ caller[c] = "gone"
Ready(f) == CASE epoll[f].want = "none" -> FALSE
              [] f = Listener -> backlog # <<>>
              [] epoll[f].want = "in" -> Readable(Owner(f))
              [] OTHER -> room[Owner(f)] \/ caller[Owner(f)] = "gone"

EpollWait ==
    /\ running = <<>> /\ events = <<>>
    /\ LET ready == {f \in DOMAIN epoll : Ready(f)}
       IN  /\ \E s \in SetToSeqs(ready) :
                 events' = [i \in DOMAIN s |->
                     [ptr |-> epoll[s[i]].ptr,
                      who |-> IF s[i] = Listener THEN "acceptor" ELSE Owner(s[i])]]
           /\ epoll' = [f \in DOMAIN epoll |->
                           IF f \in ready THEN [epoll[f] EXCEPT !.want = "none"] ELSE epoll[f]]
           /\ ready # {}
    /\ UNCHANGED <<sockets, backlog, fd, frame, cpc, locals, running>>

Resume ==
    /\ running = <<>> /\ events # <<>>
    /\ running' = <<frame[Head(events).ptr]>>
    /\ events' = Tail(events)
    /\ UNCHANGED <<sockets, backlog, fd, frame, cpc, locals, epoll>>

Return == running' = Front(running)

\* Mutant of Suspend: the address is that of the coroutine the worker resumed.
SuspendCaller(f, co, want) ==
    Return /\ epoll' = [epoll EXCEPT ![f] = [ptr |-> Address(running[1]), want |-> want]]

\* await_suspend(): registers the frame, and control returns to whoever resumed
\* or called the coroutine.
Suspend(f, co, want) ==
    Return /\ epoll' = [epoll EXCEPT ![f] = [ptr |-> Address(co), want |-> want]]

-----------------------------------------------------------------------------
(* acceptor_coroutine() *)

\* handle_client() starts at once, on the acceptor's stack.
AcceptClient ==
    /\ On("acceptor") /\ backlog # <<>> /\ FreeFds # {}
    /\ LET c == Head(backlog)
       IN  /\ fd' = [fd EXCEPT ![c] = Min(FreeFds)]
           /\ \E a \in {b \in Frames : frame[b] = Nobody} : frame' = [frame EXCEPT ![a] = c]
           /\ Goto(c, "read") /\ running' = Append(running, c)
    /\ backlog' = Tail(backlog)
    /\ UNCHANGED <<sockets, locals, epoll, events>>

AcceptTooHigh ==
    /\ On("acceptor") /\ backlog # <<>> /\ FreeFds = {}
    /\ Goto(Head(backlog), "closed")
    /\ caller' = [caller EXCEPT ![Head(backlog)] = "gone"] /\ backlog' = Tail(backlog)
    /\ UNCHANGED <<asked, unsent, unread, room, fd, frame, locals, epoll, events, running>>

AwaitListener ==
    /\ On("acceptor") /\ backlog = <<>> /\ Suspend(Listener, "acceptor", "in")
    /\ UNCHANGED <<sockets, backlog, fd, frame, cpc, locals, events>>

-----------------------------------------------------------------------------
(* handle_client() *)

\* read() with what room the buffer has; none looks like the end of the stream.
Read(c) ==
    /\ On(c) /\ cpc[c] \in {"read", "reread"}
    /\ \/ /\ \E n \in 1 .. Min({unread[c], CORO_BUF - read_len[c]}) :
                /\ unread' = [unread EXCEPT ![c] = @ - n]
                /\ read_len' = [read_len EXCEPT ![c] = @ + n]
          /\ IF read_len'[c] = Asks[c][asked[c]].tokens
             THEN Goto(c, "write") /\ chunks' = [chunks EXCEPT ![c] = Asks[c][asked[c]].chunks]
             ELSE Goto(c, "read") /\ UNCHANGED chunks
       \/ /\ read_len[c] = CORO_BUF \/ caller[c] = "gone"
          /\ Goto(c, "close") /\ UNCHANGED <<unread, locals>>
    /\ UNCHANGED <<caller, asked, unsent, room, backlog, fd, frame, epoll, events, running>>

AwaitRead(c) ==
    /\ On(c) /\ cpc[c] = "read" /\ ~Readable(c) /\ read_len[c] < CORO_BUF
    /\ Goto(c, "reread") /\ Suspend(fd[c], c, "in")
    /\ UNCHANGED <<sockets, backlog, fd, frame, locals, events>>

\* The chunks of a STREAM and then the last line, which is all of the others'
\* responses; an error ends the loop, and the last line fails as well.
Write(c) ==
    /\ On(c) /\ cpc[c] \in {"write", "rewrite"} /\ (room[c] \/ caller[c] = "gone")
    /\ IF chunks[c] > 0
       THEN /\ chunks' = [chunks EXCEPT ![c] = IF caller[c] = "gone" THEN 0 ELSE @ - 1]
            /\ Goto(c, "write") /\ UNCHANGED <<asked, unsent, read_len>>
       ELSE /\ Goto(c, "read") /\ read_len' = [read_len EXCEPT ![c] = 0]
            /\ IF caller[c] = "gone" THEN UNCHANGED <<asked, unsent>>
               ELSE /\ asked' = [asked EXCEPT ![c] = @ + 1]
                    /\ unsent' = [unsent EXCEPT ![c] = IF asked[c] < Len(Asks[c])
                                     THEN Asks[c][asked[c] + 1].tokens ELSE 0]
            /\ UNCHANGED chunks
    /\ \E r \in BOOLEAN : room' = [room EXCEPT ![c] = r]
    /\ UNCHANGED <<caller, unread, backlog, fd, frame, epoll, events, running>>

AwaitWrite(c) ==
    /\ On(c) /\ cpc[c] = "write" /\ ~room[c] /\ caller[c] # "gone"
    /\ Goto(c, "rewrite") /\ Suspend(fd[c], c, "out")
    /\ UNCHANGED <<sockets, backlog, fd, frame, locals, events>>

\* close_client(), and co_return frees the frame.
Close(c) ==
    /\ On(c) /\ cpc[c] = "close"
    /\ epoll' = [epoll EXCEPT ![fd[c]] = NoEntry]
    /\ fd' = [fd EXCEPT ![c] = Listener]
    /\ frame' = [frame EXCEPT ![Address(c)] = Nobody]
    /\ Goto(c, "closed") /\ Return
    /\ UNCHANGED <<sockets, backlog, locals, events>>

AcceptorStep == AcceptClient \/ AcceptTooHigh \/ AwaitListener
Coroutine(c) == Read(c) \/ AwaitRead(c) \/ Write(c) \/ AwaitWrite(c) \/ Close(c)
WorkerStep == EpollWait \/ Resume \/ AcceptorStep \/ \E c \in Callers : Coroutine(c)
CallerStep(c) == Connect(c) \/ Send(c) \/ Drain(c) \/ Leave(c)
Next == WorkerStep \/ \E c \in Callers : CallerStep(c)
Spec == Init /\ [][Next]_vars

-----------------------------------------------------------------------------
\* An event resumes the coroutine it is for: its frame has not been freed, nor
\* given to another client, and it waits in an await, whatever the coroutines
\* resumed before it in the same batch did (dumb_coro.cpp:62-70, 143-146, 276-285).
EventsOfTheLiving ==
    \A i \in DOMAIN events :
        /\ frame[events[i].ptr] = events[i].who
        /\ events[i].who = "acceptor" \/ cpc[events[i].who] \in {"reread", "rewrite"}

\* Everybody is answered, or has left, or was refused or over-long; descriptors
\* and frames are given back.
CoroServed ==
    /\ \A c \in Callers : cpc[c] = "closed"
    /\ FreeFds = Fds /\ running = <<>>
=============================================================================
