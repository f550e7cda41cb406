------------------------------- MODULE KvStore -------------------------------
(***************************************************************************)
(* kv_store.c and kv_client.c: a store that serves one connection at a     *)
(* time, and interactive clients that wait for each response.  The user    *)
(* picks any command and may kill the client at any moment; what it had    *)
(* not sent then is missing, and the server fills it up with zeros.        *)
(***************************************************************************)
EXTENDS Integers, SequencesExt

CONSTANTS Users, Keys, Values, MAX_ENTRIES,
          COMMANDS,          \* commands the users type at most
          Empty, Nothing     \* the value of zeros; no value, key, client or request

Commands == [op : {"READ", "DELETE"}, key : Keys, value : {Nothing}]
            \cup [op : {"WRITE"}, key : Keys, value : Values]
            \cup [op : {"FIRE"}, key : {Nothing}, value : {Nothing}]

KvConstants == /\ IsFiniteSet(Users) /\ MAX_ENTRIES \in Nat \ {0} /\ COMMANDS \in Nat
               /\ Empty \notin Values /\ Nothing \notin Values \cup Keys \cup Users \cup {Empty}
               /\ Nothing \notin Commands

Entries == 1 .. MAX_ENTRIES
Unused  == [key |-> Nothing, value |-> Nothing, in_use |-> FALSE]

VARIABLES
    db,
    kernel,       \* connections in the listen queue
    serving,      \* the client behind client_fd, or Nothing
    kpc,          \* the server: "accept", "recv", "payload", "send", "fire" or "killed"
    upc,          \* the clients: "prompt", "payload", "response" or "exit"
    request,      \* request[u]: the last one
    stream,       \* stream[u]: what was sent and not received
    response,     \* response[u]: status and value on their way
    typed,
    written       \* what the requests processed so far say of each key

server == <<db, kernel, serving, kpc, written>>
client == <<upc, request, stream, typed>>
vars == <<server, client, response>>

NoResponse == <<>>

Init ==
    /\ db = [e \in Entries |-> Unused]
    /\ kernel = SetToSeq(Users)
    /\ serving = Nothing /\ kpc = "accept"
    /\ upc = [u \in Users |-> "prompt"]
    /\ request = [u \in Users |-> Nothing] /\ stream = [u \in Users |-> <<>>]
    /\ response = [u \in Users |-> NoResponse] /\ typed = 0
    /\ written = [k \in Keys |-> Nothing]

-----------------------------------------------------------------------------
(* kv_client.c *)

\* The header; after "fire" the client exits at once.
Command(u) ==
    /\ upc[u] = "prompt" /\ typed < COMMANDS /\ typed' = typed + 1
    /\ \E r \in Commands :
          /\ request' = [request EXCEPT ![u] = r]
          /\ stream' = [stream EXCEPT ![u] = Append(@, "header")]
          /\ upc' = [upc EXCEPT ![u] = CASE r.op = "FIRE" -> "exit"
                                         [] r.op = "WRITE" -> "payload"
                                         [] OTHER -> "response"]
    /\ UNCHANGED <<server, response>>

SendPayload(u) ==
    /\ upc[u] = "payload" /\ upc' = [upc EXCEPT ![u] = "response"]
    /\ stream' = [stream EXCEPT ![u] = Append(@, "payload")]
    /\ UNCHANGED <<server, request, typed, response>>

ReadResponse(u) ==
    /\ upc[u] = "response"
    /\ response[u] # NoResponse \/ kpc = "killed"
    /\ upc' = [upc EXCEPT ![u] = IF response[u] # NoResponse THEN "prompt" ELSE "exit"]
    /\ response' = [response EXCEPT ![u] = NoResponse]
    /\ UNCHANGED <<server, request, stream, typed>>

\* "quit", or a signal in the middle of a request.
Exit(u) ==
    /\ upc[u] # "exit" /\ upc' = [upc EXCEPT ![u] = "exit"]
    /\ response' = [response EXCEPT ![u] = NoResponse]
    /\ UNCHANGED <<server, request, stream, typed>>

-----------------------------------------------------------------------------
(* kv_store.c *)

Accept ==
    /\ kpc = "accept" /\ kernel # <<>>
    /\ serving' = Head(kernel) /\ kernel' = Tail(kernel) /\ kpc' = "recv"
    /\ UNCHANGED <<db, written, client, response>>

Disconnected ==
    /\ kpc = "recv" /\ upc[serving] = "exit" /\ stream[serving] = <<>>
    /\ serving' = Nothing /\ kpc' = "accept"
    /\ UNCHANGED <<db, kernel, written, client, response>>

RecvHeader ==
    /\ kpc = "recv" /\ stream[serving] # <<>>
    /\ stream' = [stream EXCEPT ![serving] = Tail(@)]
    /\ kpc' = CASE request[serving].op = "WRITE" -> "payload"
                [] request[serving].op = "FIRE" -> "fire"
                [] OTHER -> "process"
    /\ UNCHANGED <<db, kernel, serving, written, upc, request, typed, response>>

find_entry(key) ==
    LET found == {e \in Entries : db[e].in_use /\ db[e].key = key}
    IN  IF found = {} THEN 0 ELSE Min(found)

FreeEntries == {e \in Entries : ~db[e].in_use}

\* Mutant of Slot: the first free entry, wherever the key is.
SlotFree(key) ==
    IF FreeEntries # {} THEN Min(FreeEntries) ELSE find_entry(key)

\* The entry a write goes to, 0 if there is none.
Slot(key) ==
    IF find_entry(key) # 0 THEN find_entry(key) ELSE IF FreeEntries = {} THEN 0 ELSE Min(FreeEntries)

\* send() to a client that has left: the first is answered by a reset, a second
\* one may find it and raise SIGPIPE.
Reply(status, value) ==
    /\ response' = [response EXCEPT ![serving] =
                       IF upc[serving] = "exit" THEN @ ELSE <<status, value>>]
    /\ \/ kpc' = "recv"
       \/ upc[serving] = "exit" /\ value # Nothing /\ kpc' = "killed"

\* recv() with MSG_WAITALL returns early when the client has left.
Write ==
    /\ kpc = "payload"
    /\ stream[serving] # <<>> \/ upc[serving] = "exit"
    /\ LET r == request[serving]
           value == IF stream[serving] # <<>> THEN r.value ELSE Empty
           idx == Slot(r.key)
       IN  IF idx # 0
           THEN /\ db' = [db EXCEPT ![idx] = [key |-> r.key, value |-> value, in_use |-> TRUE]]
                /\ written' = [written EXCEPT ![r.key] = value]
                /\ Reply("OK", Nothing)
           ELSE Reply("ERROR", Nothing) /\ UNCHANGED <<db, written>>
    /\ stream' = [stream EXCEPT ![serving] = <<>>]
    /\ UNCHANGED <<kernel, serving, upc, request, typed>>

Read ==
    /\ kpc = "process" /\ request[serving].op = "READ"
    /\ LET idx == find_entry(request[serving].key)
       IN  IF idx # 0 THEN Reply("OK", db[idx].value) ELSE Reply("NOT_FOUND", Nothing)
    /\ UNCHANGED <<db, kernel, serving, written, client>>

Delete ==
    /\ kpc = "process" /\ request[serving].op = "DELETE"
    /\ LET idx == find_entry(request[serving].key)
       IN  IF idx # 0
           THEN /\ db' = [db EXCEPT ![idx].in_use = FALSE]
                /\ written' = [written EXCEPT ![request[serving].key] = Nothing]
                /\ Reply("OK", Nothing)
           ELSE Reply("NOT_FOUND", Nothing) /\ UNCHANGED <<db, written>>
    /\ UNCHANGED <<kernel, serving, client>>

\* Two send() to a client that has exited: the second one kills the server.
Fire ==
    /\ kpc = "fire" /\ kpc' = "killed"
    /\ UNCHANGED <<db, kernel, serving, written, client, response>>

StoreStep == Accept \/ Disconnected \/ RecvHeader \/ Write \/ Read \/ Delete \/ Fire
ClientStep(u) == Command(u) \/ SendPayload(u) \/ ReadResponse(u) \/ Exit(u)
Next == StoreStep \/ \E u \in Users : ClientStep(u)
Spec == Init /\ [][Next]_vars

-----------------------------------------------------------------------------
\* The table is a map: whatever was written, deleted and written again, a key has
\* one entry, with the last value processed, and a response on its way tells it;
\* only a client that died between header and payload leaves an empty value, and
\* only "fire" or a read nobody waits for stops the store (kv_store.c:20-25,
\* 99-139, 156-161).
StoreIsMap ==
    /\ \A k \in Keys :
          /\ {db[e].value : e \in {f \in Entries : db[f].in_use /\ db[f].key = k}}
               = {written[k]} \ {Nothing}
          /\ Cardinality({e \in Entries : db[e].in_use /\ db[e].key = k}) <= 1
    /\ \A u \in Users : response[u] # NoResponse /\ request[u].op = "READ" =>
          response[u] = IF written[request[u].key] = Nothing THEN <<"NOT_FOUND", Nothing>>
                        ELSE <<"OK", written[request[u].key]>>
    /\ (\E k \in Keys : written[k] = Empty) =>
          \E u \in Users : upc[u] = "exit" /\ request[u] # Nothing /\ request[u].op = "WRITE"
    /\ kpc = "killed" => upc[serving] = "exit" /\ request[serving].op \in {"FIRE", "READ"}

\* The store waits for nothing but a command, or the rest of one, of a client that
\* is still there, or for a connection.
StoreWaits ==
    \/ kpc = "killed"
    \/ kpc = "accept" /\ kernel = <<>>
    \/ kpc \in {"recv", "payload"} /\ upc[serving] # "exit" /\ stream[serving] = <<>>
=============================================================================
