--------------------------- MODULE BlockingServer ---------------------------
(***************************************************************************)
(* The DUMB servers with blocking I/O: handle_client() of dumb_common.c,   *)
(* called for one client at a time (dumb_iterative.c) or in a thread for   *)
(* each client (dumb_multithreaded.c), with the gauges of the metrics      *)
(* thread.  As in DumbConnection, <<k, j>> is token j of request k and the *)
(* last one is its newline.  The client reads all it is sent.              *)
(***************************************************************************)
EXTENDS Integers, Sequences, SequencesExt, FiniteSetsExt

CONSTANTS Peers,
          Scripts,   \* Scripts[c]: requests [type, body, n] of client c
          Resets,    \* the clients that may abort
          BUF,       \* BUF_SIZE - 1, in tokens
          STREAM_CHUNK_SIZE

Types == {"PING", "WAIT", "BURN", "STREAM", "unknown"}

BlockingConstants == /\ IsFiniteSet(Peers) /\ DOMAIN Scripts = Peers /\ Resets \subseteq Peers
                     /\ \A c \in Peers : Scripts[c] \in Seq([type : Types, body : Nat, n : Nat])
                     /\ BUF \in Nat \ {0} /\ STREAM_CHUNK_SIZE \in Nat \ {0}

Line(c, k)  == [l \in 1 .. Scripts[c][k].body + 1 |-> <<k, l>>]
Input(c)    == FlattenSeq([k \in 1 .. Len(Scripts[c]) |-> Line(c, k)])
IsNewline(c, tok) == tok[2] = Scripts[c][tok[1]].body + 1

VARIABLES
    threaded,   \* dumb_multithreaded; it never changes
    peer,       \* "new", "open", "shut" or "gone"
    sent, got,  \* tokens the client has sent, and the server read
    listener,   \* clients in the listen queue
    pc,         \* pc[c]: where the call of handle_client() for c is
    buf,        \* buf[c]: the first buf_len tokens
    left,       \* left[c]: bytes_to_send of a STREAM
    answers,    \* answers[c]: requests answered in full and as what, in order
    total,      \* the counters of requests, by type
    active_threads, active_connections   \* what the metrics thread reports

connVars == <<peer, sent, got>>
gauges   == <<active_threads, active_connections>>
vars     == <<threaded, connVars, listener, pc, buf, left, answers, total, gauges>>

Init ==
    /\ threaded \in BOOLEAN
    /\ peer = [c \in Peers |-> "new"]
    /\ sent = [c \in Peers |-> 0] /\ got = [c \in Peers |-> 0]
    /\ listener = <<>>
    /\ pc = [c \in Peers |-> "none"]
    /\ buf = [c \in Peers |-> <<>>] /\ left = [c \in Peers |-> 0]
    /\ answers = [c \in Peers |-> <<>>]
    /\ total = [y \in Types |-> 0]
    /\ active_threads = 0 /\ active_connections = 0

Goto(c, l) == pc' = [pc EXCEPT ![c] = l]

-----------------------------------------------------------------------------
(* Clients *)

Connect(c) ==
    /\ peer[c] = "new"
    /\ peer' = [peer EXCEPT ![c] = "open"]
    /\ listener' = Append(listener, c)
    /\ UNCHANGED <<threaded, sent, got, pc, buf, left, answers, total, gauges>>

\* Requests follow each other without waiting for the answers.
Send(c) ==
    /\ peer[c] = "open"
    /\ IF sent[c] < Len(Input(c))
       THEN sent' = [sent EXCEPT ![c] = @ + 1] /\ UNCHANGED peer
       ELSE peer' = [peer EXCEPT ![c] = "shut"] /\ UNCHANGED sent
    /\ UNCHANGED <<threaded, got, listener, pc, buf, left, answers, total, gauges>>

Reset(c) ==
    /\ c \in Resets /\ peer[c] \in {"open", "shut"}
    /\ peer' = [peer EXCEPT ![c] = "gone"]
    /\ UNCHANGED <<threaded, sent, got, listener, pc, buf, left, answers, total, gauges>>

-----------------------------------------------------------------------------
(* main() and thread_worker() *)

\* The iterative server accepts again when handle_client() has returned.
Accept ==
    /\ listener # <<>>
    /\ threaded \/ \A c \in Peers : pc[c] \in {"none", "end"}
    /\ Goto(Head(listener), IF threaded THEN "start" ELSE "recv")
    /\ listener' = Tail(listener)
    /\ UNCHANGED <<threaded, connVars, buf, left, answers, total, gauges>>

\* The gauges are raised before handle_client(), and lowered after it in the
\* opposite order, one atomic operation at a time.
Gauge(c) ==
    /\ CASE pc[c] = "start" -> active_threads' = active_threads + 1 /\ Goto(c, "count")
         [] pc[c] = "count" -> active_connections' = active_connections + 1 /\ Goto(c, "recv")
         [] pc[c] = "closed" /\ threaded ->
                active_connections' = active_connections - 1 /\ Goto(c, "finish")
         [] pc[c] = "finish" -> active_threads' = active_threads - 1 /\ Goto(c, "end")
         [] OTHER -> FALSE
    /\ pc[c] \in {"start", "finish"} => UNCHANGED active_connections
    /\ pc[c] \in {"count", "closed"} => UNCHANGED active_threads
    /\ UNCHANGED <<threaded, connVars, listener, buf, left, answers, total>>

-----------------------------------------------------------------------------
(* handle_client() *)

\* Mutant of Recv: nothing is kept from the last call.
RecvFresh(c) ==
    /\ pc[c] = "recv" /\ peer[c] # "gone"
    /\ \E n \in 1 .. Min({sent[c] - got[c], BUF - Len(buf[c])}) :
          /\ buf' = [buf EXCEPT ![c] = SubSeq(Input(c), got[c] + 1, got[c] + n)]
          /\ got' = [got EXCEPT ![c] = @ + n]
    /\ Goto(c, "lines")
    /\ UNCHANGED <<threaded, peer, sent, listener, left, answers, total, gauges>>

Recv(c) ==
    /\ pc[c] = "recv" /\ peer[c] # "gone"
    /\ \E n \in 1 .. Min({sent[c] - got[c], BUF - Len(buf[c])}) :
          /\ buf' = [buf EXCEPT ![c] = @ \o SubSeq(Input(c), got[c] + 1, got[c] + n)]
          /\ got' = [got EXCEPT ![c] = @ + n]
    /\ Goto(c, "lines")
    /\ UNCHANGED <<threaded, peer, sent, listener, left, answers, total, gauges>>

\* recv() returns 0 or fails; the descriptor is closed.
RecvEnd(c) ==
    /\ pc[c] = "recv"
    /\ peer[c] = "gone" \/ (peer[c] = "shut" /\ sent[c] = got[c])
    /\ Goto(c, IF threaded THEN "closed" ELSE "end")
    /\ UNCHANGED <<threaded, connVars, listener, buf, left, answers, total, gauges>>

\* The first line of the buffer; one whose beginning was dropped is unknown.
Newlines(c) == {l \in 1 .. Len(buf[c]) : IsNewline(c, buf[c][l])}
Request(c)  == buf[c][1][1]
TypeOf(c)   == IF buf[c][1][2] = 1 THEN Scripts[c][Request(c)].type ELSE "unknown"

Answered(c) == answers' = [answers EXCEPT ![c] =
                              IF peer[c] = "gone" THEN @ ELSE Append(@, <<Request(c), TypeOf(c)>>)]
\* memmove() of what follows the newline.
Shift(c) == buf' = [buf EXCEPT ![c] = SubSeq(@, Min(Newlines(c)) + 1, Len(@))]

Command(c) ==
    /\ pc[c] = "lines" /\ Newlines(c) # {}
    /\ total' = [total EXCEPT ![TypeOf(c)] = @ + 1]
    /\ IF TypeOf(c) = "STREAM"
       THEN /\ left' = [left EXCEPT ![c] = Scripts[c][Request(c)].n]
            /\ Goto(c, "stream")
            /\ UNCHANGED <<buf, answers>>
       ELSE Answered(c) /\ Shift(c) /\ UNCHANGED <<left, pc>>
    /\ UNCHANGED <<threaded, connVars, listener, gauges>>

\* One send() of the stream, or the DONE behind it; an error ends the loop.
Stream(c) ==
    /\ pc[c] = "stream"
    /\ IF left[c] > 0 /\ peer[c] # "gone"
       THEN /\ left' = [left EXCEPT ![c] = @ - Min({@, STREAM_CHUNK_SIZE})]
            /\ UNCHANGED <<pc, buf, answers>>
       ELSE /\ IF left[c] > 0 THEN UNCHANGED answers ELSE Answered(c)
            /\ left' = [left EXCEPT ![c] = 0]
            /\ Shift(c) /\ Goto(c, "lines")
    /\ UNCHANGED <<threaded, connVars, listener, total, gauges>>

\* No newline is left; a line that fills the buffer is dropped.
NoLine(c) ==
    /\ pc[c] = "lines" /\ Newlines(c) = {}
    /\ buf' = [buf EXCEPT ![c] = IF Len(@) >= BUF THEN <<>> ELSE @]
    /\ Goto(c, "recv")
    /\ UNCHANGED <<threaded, connVars, listener, left, answers, total, gauges>>

-----------------------------------------------------------------------------
Handler(c) ==
    Gauge(c) \/ Recv(c) \/ RecvEnd(c) \/ Command(c) \/ Stream(c) \/ NoLine(c)
ServerStep(c) == Accept \/ Handler(c)
Next == \E c \in Peers : Connect(c) \/ Send(c) \/ Reset(c) \/ ServerStep(c)
Spec == Init /\ [][Next]_vars

-----------------------------------------------------------------------------
(* Properties. *)

\* Every line is answered once, in order and as what it is, however it was cut up
\* and however many of them share a read; the line that overflows the buffer is
\* answered too, as an unknown one.  At the end of a connection that was not reset
\* none is missing, and the counters have counted them all (dumb_common.c:101-182).
EveryLineAnswered ==
    /\ \A c \in Peers : IsPrefix(answers[c], [k \in 1 .. Len(Scripts[c]) |->
           <<k, IF Scripts[c][k].body < BUF THEN Scripts[c][k].type ELSE "unknown">>])
    /\ \A c \in Peers : pc[c] \in {"closed", "finish", "end"} /\ peer[c] # "gone" =>
           Len(answers[c]) = Len(Scripts[c])
    /\ (\A c \in Peers : pc[c] # "stream" /\ peer[c] # "gone") =>
           SumFunction(total) = SumFunction([c \in Peers |-> Len(answers[c])])

\* The gauges never count a client that is not there: a connection has its
\* thread, a thread its client (dumb_multithreaded.c:15-26).
GaugesBounded ==
    /\ 0 <= active_connections /\ active_connections <= active_threads
    /\ active_threads <= Quantify(Peers, LAMBDA c : pc[c] \notin {"none", "end"})

\* What the server comes to: every client has been accepted and its connection
\* closed, and the gauges are back at 0 (dumb_iterative.c:38-55,
\* dumb_multithreaded.c:68-94).
AllClosed == /\ \A c \in Peers : pc[c] = "end"
             /\ active_threads = 0 /\ active_connections = 0
=============================================================================
