--------------------------- MODULE DumbConnection ---------------------------
(***************************************************************************)
(* One connection of the epoll versions of the DUMB server: handle_read    *)
(* and handle_write of dumb_epoll.c, which dumb_epoll_workers.c and        *)
(* dumb_reactor.c repeat, with partial reads and writes.  Requests and     *)
(* responses are sequences of tokens; a token of request k is <<k, j>> and *)
(* the last one is its newline.                                            *)
(***************************************************************************)
EXTENDS Integers, Sequences, SequencesExt, FiniteSetsExt

CONSTANTS
    Sessions,   \* what clients do, [requests, waits, resets]: a sequence of
                \* requests [type, body, n], with body tokens before the
                \* newline and n characters asked of STREAM; whether the next
                \* one waits for the responses; whether the client may abort
    CAP,        \* sizeof(read_buf) - 1, in tokens
    CHUNK,      \* sizeof(chunk)
    MsgLen      \* tokens of PONG, RESULT and DONE

Types == {"PING", "BURN", "STREAM", "unknown"}

ConnectionConstants ==
    /\ \A s \in Sessions : /\ s.waits \in BOOLEAN /\ s.resets \in BOOLEAN
                           /\ s.requests \in Seq([type : Types, body : Nat, n : Nat])
    /\ CAP \in Nat \ {0} /\ CHUNK \in Nat \ {0} /\ MsgLen \in Nat \ {0}

VARIABLES
    session,   \* what this client does; it never changes
    sent,      \* tokens the client has sent
    peer,      \* "open", "shut" (client has shut down its side), "gone"
    got,       \* tokens the server has read
    read_buf, read_len, state, bytes_to_send, bytes_sent,   \* client_ctx_t
    interest,  \* the event registered with epoll
    alive,     \* the server still has the connection open
    out,       \* tokens written to the client
    executed   \* requests recognised, in order

ctxVars == <<read_buf, read_len, state, bytes_to_send, bytes_sent>>
clientVars == <<session, sent, peer>>
vars    == <<clientVars, got, ctxVars, interest, alive, out, executed>>

Script == session.requests
Line(k)  == [j \in 1 .. Script[k].body + 1 |-> <<k, j>>]
Input    == FlattenSeq([k \in 1 .. Len(Script) |-> Line(k)])
IsNewline(tok) == tok[2] = Script[tok[1]].body + 1

\* A token of a response: its word, its place in it and the length of the word,
\* so that it differs from every token of a request.
Msg(m)   == [j \in 1 .. MsgLen |-> <<m, j, MsgLen>>]
Stars(n) == [j \in 1 .. n |-> <<"A", 1, 1>>]

\* What the protocol answers to request k; these servers ignore the unknown.
Response(k) ==
    CASE Script[k].type = "PING"   -> Msg("PONG")
      [] Script[k].type = "BURN"   -> Msg("RESULT")
      [] Script[k].type = "STREAM" -> Stars(Script[k].n) \o Msg("DONE")
      [] OTHER -> <<>>
Responses(ks) == FlattenSeq([i \in 1 .. Len(ks) |-> Response(ks[i])])
AllRequests == [k \in 1 .. Len(Script) |-> k]

States == {"READ", "PONG", "BURN", "STREAM", "DONE"}

TypeOK ==
    /\ session \in Sessions
    /\ sent \in 0 .. Len(Input) /\ got \in 0 .. sent
    /\ peer \in {"open", "shut", "gone"}
    /\ read_len \in 0 .. CAP
    /\ state \in States /\ interest \in {"IN", "OUT"} /\ alive \in BOOLEAN
    /\ bytes_to_send \in Nat /\ bytes_sent \in 0 .. bytes_to_send
    /\ executed \in Seq(1 .. Len(Script))

Init ==
    /\ session \in Sessions
    /\ sent = 0 /\ peer = "open" /\ got = 0
    /\ read_buf = <<>> /\ read_len = 0 /\ state = "READ"
    /\ bytes_to_send = 0 /\ bytes_sent = 0
    /\ interest = "IN" /\ alive = TRUE
    /\ out = <<>> /\ executed = <<>>

-----------------------------------------------------------------------------
(* The client *)

\* A client that waits has all responses to the requests before this one.
ClientSend ==
    /\ sent < Len(Input) /\ peer = "open"
    /\ LET k == Input[sent + 1][1]
       IN  ~session.waits \/ Len(out) = Len(Responses([i \in 1 .. k - 1 |-> i]))
    /\ sent' = sent + 1
    /\ UNCHANGED <<session, peer, got, ctxVars, interest, alive, out, executed>>

\* nc -N: no more requests, responses are still read.
ClientShut ==
    /\ sent = Len(Input) /\ peer = "open"
    /\ peer' = "shut"
    /\ UNCHANGED <<session, sent, got, ctxVars, interest, alive, out, executed>>

ClientReset ==
    /\ session.resets /\ peer # "gone"
    /\ peer' = "gone"
    /\ UNCHANGED <<session, sent, got, ctxVars, interest, alive, out, executed>>

-----------------------------------------------------------------------------
(* handle_read *)

Available == sent - got

\* The buffer after read() has returned n tokens.
Buffer(n) == SubSeq(read_buf, 1, read_len) \o SubSeq(Input, got + 1, got + n)
HasLine(b) == \E j \in 1 .. Len(b) : IsNewline(b[j])

\* The request a line is taken for.  One whose beginning was thrown away is not
\* recognised: no request of Script has a command's name further on.
CommandOf(b) == b[1][1]
TypeOf(b)    == IF b[1][2] = 1 THEN Script[CommandOf(b)].type ELSE "unknown"

\* Mutant of ReadPartial: no overflow protection.
ReadPartialFull(n) ==
    LET b == Buffer(n)
    IN  /\ ~HasLine(b)
        /\ read_buf' = b
        /\ read_len' = Len(b)
        /\ UNCHANGED <<state, bytes_to_send, bytes_sent, interest, executed>>

\* No newline yet: keep the tokens, drop them all when the buffer is full.
ReadPartial(n) ==
    LET b == Buffer(n)
    IN  /\ ~HasLine(b)
        /\ read_buf' = b
        /\ read_len' = IF Len(b) = CAP THEN 0 ELSE Len(b)
        /\ UNCHANGED <<state, bytes_to_send, bytes_sent, interest, executed>>

\* An unknown line is ignored, with everything read after it.
ReadUnknown(n) ==
    LET b == Buffer(n)
    IN  /\ HasLine(b) /\ TypeOf(b) = "unknown"
        /\ read_buf' = b
        /\ read_len' = 0
        /\ UNCHANGED <<state, bytes_to_send, bytes_sent, interest, executed>>

\* A known command sets up its response; BURN formats it into read_buf.
ReadCommand(n) ==
    LET b == Buffer(n)
    IN  /\ HasLine(b) /\ TypeOf(b) # "unknown"
        /\ state' = IF TypeOf(b) = "PING" THEN "PONG" ELSE TypeOf(b)
        /\ bytes_sent' = 0
        /\ bytes_to_send' = IF TypeOf(b) = "STREAM" THEN Script[CommandOf(b)].n ELSE MsgLen
        /\ read_buf' = IF TypeOf(b) = "BURN" THEN Msg("RESULT") ELSE b
        /\ read_len' = Len(b)
        /\ interest' = "OUT"
        /\ executed' = Append(executed, CommandOf(b))

HandleRead ==
    /\ alive /\ interest = "IN"
    /\ \E n \in 1 .. Min({Available, CAP - read_len}) :
          /\ got' = got + n
          /\ ReadPartial(n) \/ ReadUnknown(n) \/ ReadCommand(n)
    /\ UNCHANGED <<clientVars, alive, out>>

\* Mutant of Close: end of file is taken for an empty read.
CloseOnReset ==
    /\ alive /\ peer = "gone"
    /\ alive' = FALSE
    /\ UNCHANGED <<clientVars, got, ctxVars, interest, out, executed>>

\* read() returns 0, or epoll reports EPOLLERR or EPOLLHUP.
Close ==
    /\ alive
    /\ peer = "gone" \/ (peer = "shut" /\ interest = "IN" /\ Available = 0)
    /\ alive' = FALSE
    /\ UNCHANGED <<clientVars, got, ctxVars, interest, out, executed>>

-----------------------------------------------------------------------------
(* handle_write *)

Remaining == bytes_to_send - bytes_sent
ToWrite   == IF state = "STREAM" /\ Remaining > CHUNK THEN CHUNK ELSE Remaining

\* The tokens write() is given, from position bytes_sent.
Payload(n) ==
    CASE state = "STREAM" -> Stars(n)
      [] state = "BURN"   -> SubSeq(read_buf, bytes_sent + 1, bytes_sent + n)
      [] OTHER            -> SubSeq(Msg(state), bytes_sent + 1, bytes_sent + n)

BackToReading ==
    /\ state' = "READ" /\ read_len' = 0 /\ interest' = "IN"
    /\ UNCHANGED bytes_to_send

\* Mutant of StreamWritten: the trailer is forgotten.
StreamNoTrailer == BackToReading /\ bytes_sent' = 0

\* The stream is complete: DONE follows.
StreamWritten ==
    /\ state' = "DONE" /\ bytes_sent' = 0 /\ bytes_to_send' = MsgLen
    /\ UNCHANGED <<read_len, interest>>

HandleWrite ==
    /\ alive /\ interest = "OUT" /\ peer # "gone"
    /\ \E n \in (IF ToWrite = 0 THEN {0} ELSE 1 .. ToWrite) :
          /\ out' = out \o Payload(n)
          /\ \/ /\ bytes_sent + n < bytes_to_send
                /\ bytes_sent' = bytes_sent + n
                /\ UNCHANGED <<state, read_len, bytes_to_send, interest>>
             \/ /\ bytes_sent + n = bytes_to_send /\ state = "STREAM"
                /\ StreamWritten
             \/ /\ bytes_sent + n = bytes_to_send /\ state # "STREAM"
                /\ bytes_sent' = bytes_sent + n
                /\ BackToReading
    /\ UNCHANGED <<clientVars, got, read_buf, alive, executed>>

-----------------------------------------------------------------------------
ServerStep == HandleRead \/ HandleWrite \/ Close
Next == ClientSend \/ ClientShut \/ ClientReset \/ ServerStep

Spec == Init /\ [][Next]_vars

\* The event loop runs, and the client goes on sending what it has to send.
FairSpec == Spec /\ WF_vars(ServerStep) /\ WF_vars(ClientSend) /\ WF_vars(ClientShut)

-----------------------------------------------------------------------------
(* Properties. *)

\* Whatever arrives in whatever pieces, the client receives whole responses to
\* requests it made, in their order, never mixed and never twice; and back in
\* the reading state nothing is left unsaid (dumb_epoll.c:69-211).
OutputInOrder ==
    /\ IsPrefix(out, Responses(executed))
    /\ \A i, j \in 1 .. Len(executed) : i < j => executed[i] < executed[j]
    /\ state = "READ" => out = Responses(executed)

\* The loop never waits for an event that cannot help: it reads exactly when a
\* command is expected, and then has room, since a read of 0 bytes would be
\* taken for the end of the connection (dumb_epoll.c:72-79, 122-126, 150).
ReadsWithRoom == (interest = "IN") <=> (state = "READ" /\ read_len < CAP)

\* What the connection comes to: a client that waits for each response before
\* it sends the next request has all of them: "request PING -> response PONG ...
\* All delimited with \n character" (servers/code/index.en.md:11-16); and the
\* descriptor of one that shut down or went away is closed (dumb_epoll.c:290-294).
AnsweredAndClosed ==
    /\ session.waits /\ ~session.resets => out = Responses(AllRequests)
    /\ ~alive
=============================================================================
