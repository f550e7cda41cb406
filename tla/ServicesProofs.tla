---------------------------- MODULE ServicesProofs ---------------------------
(***************************************************************************)
(* The key-value store and the server with coroutines, for any number of   *)
(* users, clients, keys, descriptors and frames.                           *)
(***************************************************************************)
EXTENDS MCPrograms, SumLemmas, SequenceTheorems, WellFoundedInduction

-----------------------------------------------------------------------------
(* kv_store.c and kv_client.c *)

\* A set of numbers that is not empty has a least.
LEMMA LeastOf == ASSUME NEW S \in SUBSET Nat, S # {}
                 PROVE  \E x \in S : \A y \in S : x <= y
<1>1. PICK x \in S : \A y \in S : ~(<<y, x>> \in OpToRel(<, Nat))
  BY NatLessThanWellFounded, WFMin
<1>2. \A y \in S : ~(y < x)
  BY <1>1 DEF OpToRel
<1> QED BY <1>2

Data == Values \cup {Empty}

V_TypeOK ==
    /\ db \in [Store!Entries -> [key : Keys \cup {Nothing}, value : Data \cup {Nothing},
                                 in_use : BOOLEAN]]
    /\ kernel \in Seq(Users)
    /\ kpc \in {"accept", "recv", "payload", "process", "fire", "killed"}
    /\ IF kpc = "accept" THEN serving = Nothing ELSE serving \in Users
    /\ upc \in [Users -> {"prompt", "payload", "response", "exit"}]
    /\ request \in [Users -> Store!Commands \cup {Nothing}]
    /\ stream \in [Users -> {<<>>, <<"header">>, <<"header", "payload">>, <<"payload">>}]
    /\ response \in [Users -> {<<>>} \cup ({"OK", "ERROR", "NOT_FOUND"} \X (Data \cup {Nothing}))]
    /\ written \in [Keys -> Data \cup {Nothing}]

\* What is in a client's stream, as far as it has come.
V_Clients ==
    \A u \in Users :
        /\ stream[u] # <<>> \/ upc[u] \in {"payload", "response"} => request[u] # Nothing
        /\ upc[u] = "prompt" => stream[u] = <<>> /\ response[u] = <<>>
        /\ upc[u] = "payload" => /\ request[u].op = "WRITE" /\ response[u] = <<>>
                                 /\ \/ stream[u] = <<"header">>
                                    \/ stream[u] = <<>> /\ serving = u /\ kpc = "payload"
        /\ upc[u] = "exit" => response[u] = <<>>
        /\ request[u] # Nothing =>
              /\ request[u].op = "FIRE" => upc[u] = "exit"
              /\ request[u].op # "WRITE" => stream[u] \in {<<>>, <<"header">>}
        /\ IF serving = u /\ kpc = "payload" THEN stream[u] \in {<<>>, <<"payload">>}
           ELSE stream[u] # <<"payload">>

\* The request the server works on is the last one of the client it serves.
V_Server ==
    kpc \in {"payload", "process", "fire", "killed"} =>
        /\ request[serving] # Nothing /\ response[serving] = <<>> /\ upc[serving] # "prompt"
        /\ kpc = "payload" => request[serving].op = "WRITE"
        /\ kpc # "payload" => stream[serving] = <<>>
        /\ kpc = "process" => request[serving].op \in {"READ", "DELETE"}
        /\ kpc = "fire" => request[serving].op = "FIRE"
        /\ kpc = "killed" => upc[serving] = "exit" /\ request[serving].op \in {"READ", "FIRE"}

\* While a response is under way nothing is processed.
V_Response ==
    \A u \in Users : response[u] # <<>> =>
        /\ serving = u /\ kpc = "recv" /\ upc[u] = "response" /\ stream[u] = <<>>
        /\ request[u].op = "READ" =>
              response[u] = IF written[request[u].key] = Nothing THEN <<"NOT_FOUND", Nothing>>
                            ELSE <<"OK", written[request[u].key]>>

Uses(e, k) == db[e].in_use /\ db[e].key = k

V_Map ==
    /\ \A e \in Store!Entries : db[e].in_use => /\ db[e].key \in Keys /\ db[e].value \in Data
                                                /\ written[db[e].key] = db[e].value
    /\ \A e, f \in Store!Entries : \A k \in Keys : Uses(e, k) /\ Uses(f, k) => e = f
    /\ \A k \in Keys : written[k] # Nothing => \E e \in Store!Entries : Uses(e, k)

V_Empty ==
    (\E k \in Keys : written[k] = Empty) =>
        \E u \in Users : upc[u] = "exit" /\ request[u] # Nothing /\ request[u].op = "WRITE"

V_Inv == V_TypeOK /\ V_Clients /\ V_Server /\ V_Response /\ V_Map /\ V_Empty

LEMMA V_Constants ==
    /\ IsFiniteSet(Users) /\ MAX_ENTRIES \in Nat \ {0} /\ Store!Entries = 1 .. MAX_ENTRIES
    /\ Empty \notin Values /\ Nothing \notin Data \cup Keys \cup Users
  BY ProgramsAssumption DEF Store!KvConstants, Store!IsFiniteSet, IsFiniteSet, Store!Entries, Data

LEMMA V_Commands ==
    ASSUME NEW r \in Store!Commands
    PROVE  /\ r # Nothing /\ r.op \in {"READ", "WRITE", "DELETE", "FIRE"}
           /\ r.op # "FIRE" => r.key \in Keys
           /\ r.op = "WRITE" => r.value \in Values
<1>1. r # Nothing
  BY ProgramsAssumption DEF Store!KvConstants
<1> QED BY <1>1 DEF Store!Commands

LEMMA V_Init == Store!Init => V_Inv
<1> SUFFICES ASSUME Store!Init PROVE V_Inv
  OBVIOUS
<1> USE V_Constants
<1>1. kernel \in Seq(Users)
  <2> DEFINE n == Cardinality(Users)
  <2>1. n \in Nat /\ ExistsBijection(1 .. n, Users)
    BY FS_CardinalityType
  <2> HIDE DEF n
  <2>2. \E f \in [1 .. n -> Users] : Store!IsInjective(f)
    BY <2>1 DEF ExistsBijection, Bijection, Injection, IsInjective, Store!IsInjective
  <2>3. kernel = CHOOSE f \in [1 .. n -> Users] : Store!IsInjective(f)
    BY DEF Store!Init, Store!SetToSeq, Store!Cardinality, Cardinality, n
  <2>4. kernel \in [1 .. n -> Users]
    BY <2>2, <2>3
  <2> QED BY <2>1, <2>4
<1>2. V_TypeOK
  BY <1>1 DEF Store!Init, Store!Unused, Store!NoResponse, V_TypeOK
<1>3. V_Clients /\ V_Server /\ V_Response
  BY DEF Store!Init, Store!NoResponse, V_Clients, V_Server, V_Response
<1>4. V_Map
  BY DEF Store!Init, Store!Unused, V_Map, Uses
<1>5. V_Empty
  BY DEF Store!Init, V_Empty, Data
<1> QED BY <1>2, <1>3, <1>4, <1>5 DEF V_Inv

LEMMA V_Command == ASSUME V_Inv, NEW u \in Users, Store!Command(u) PROVE V_Inv'
<1> USE V_Constants
<1>1. /\ upc[u] = "prompt" /\ stream[u] = <<>> /\ response[u] = <<>>
      /\ UNCHANGED <<db, kernel, serving, kpc, written, response>>
  BY DEF Store!Command, Store!server, V_Inv, V_Clients
<1>2. PICK r \in Store!Commands :
        /\ request' = [request EXCEPT ![u] = r]
        /\ stream' = [stream EXCEPT ![u] = Append(@, "header")]
        /\ upc' = [upc EXCEPT ![u] = CASE r.op = "FIRE" -> "exit"
                                       [] r.op = "WRITE" -> "payload"
                                       [] OTHER -> "response"]
  BY DEF Store!Command
<1>3. stream' = [stream EXCEPT ![u] = <<"header">>]
  <2>1. Append(stream[u], "header") = <<"header">>
    BY <1>1
  <2> QED BY <1>2, <2>1 DEF V_Inv, V_TypeOK
<1> DEFINE l == CASE r.op = "FIRE" -> "exit" [] r.op = "WRITE" -> "payload"
                  [] OTHER -> "response"
<1>4. /\ l \in {"exit", "payload", "response"} /\ upc' = [upc EXCEPT ![u] = l]
      /\ (l = "exit" <=> r.op = "FIRE") /\ (l = "payload" <=> r.op = "WRITE")
  <2>1. CASE r.op = "FIRE"
    BY <1>2, <2>1
  <2>2. CASE r.op = "WRITE"
    BY <1>2, <2>2
  <2>3. CASE r.op # "FIRE" /\ r.op # "WRITE"
    BY <1>2, <2>3
  <2> QED BY <2>1, <2>2, <2>3
<1> HIDE DEF l
<1>5. V_TypeOK'
  BY <1>1, <1>2, <1>3, <1>4 DEF V_Inv, V_TypeOK
<1>6. ~(kpc \in {"payload", "process", "fire", "killed"} /\ serving = u)
  BY <1>1 DEF V_Inv, V_Server
<1>7. /\ request'[u] = r /\ stream'[u] = <<"header">> /\ upc'[u] = l
      /\ \A v \in Users : v # u => request'[v] = request[v] /\ stream'[v] = stream[v]
                                   /\ upc'[v] = upc[v]
  BY <1>2, <1>3, <1>4 DEF V_Inv, V_TypeOK
<1>8. V_Clients'
  <2>1. ASSUME NEW v \in Users, v # u PROVE V_Clients!(v)'
    BY <1>1, <1>7, <2>1 DEF V_Inv, V_Clients
  <2>2. V_Clients!(u)'
    BY <1>1, <1>4, <1>6, <1>7, V_Commands
  <2> QED BY <2>1, <2>2 DEF V_Clients
<1>9. V_Server'
  BY <1>1, <1>6, <1>7 DEF V_Inv, V_Server, V_TypeOK
<1>10. V_Response'
  BY <1>1, <1>7 DEF V_Inv, V_Response
<1>11. V_Map'
  BY <1>1 DEF V_Inv, V_Map, Uses
<1>12. V_Empty'
  BY <1>1, <1>7 DEF V_Inv, V_Empty
<1> QED BY <1>5, <1>8, <1>9, <1>10, <1>11, <1>12 DEF V_Inv

\* A header and a payload make a stream of two.
LEMMA V_Streams ==
    /\ Append(<<"header">>, "payload") = <<"header", "payload">>
    /\ <<"header", "payload">> # <<"payload">> /\ <<"header">> # <<"payload">>
    /\ <<"payload">> # <<>> /\ <<"header">> # <<>> /\ <<"header", "payload">> # <<>>
<1> DEFINE W == {"header", "payload"}
<1>1. <<"header">> \in Seq(W) /\ <<"header", "payload">> \in Seq(W) /\ "payload" \in W
  OBVIOUS
<1>2. /\ Len(<<"header">>) = 1 /\ Len(<<"header", "payload">>) = 2
      /\ <<"header">>[1] = "header"
      /\ <<"header", "payload">>[1] = "header" /\ <<"header", "payload">>[2] = "payload"
  OBVIOUS
<1> HIDE DEF W
<1>3. Append(<<"header">>, "payload") = <<"header", "payload">>
  <2>1. /\ Append(<<"header">>, "payload") \in Seq(W)
        /\ Len(Append(<<"header">>, "payload")) = 2
        /\ Append(<<"header">>, "payload")[1] = "header"
        /\ Append(<<"header">>, "payload")[2] = "payload"
    BY <1>1, <1>2, AppendProperties
  <2>2. \A k \in 1 .. Len(Append(<<"header">>, "payload")) :
           Append(<<"header">>, "payload")[k] = <<"header", "payload">>[k]
    <3>1. \A k \in 1 .. 2 : k = 1 \/ k = 2
      OBVIOUS
    <3> QED BY <1>2, <2>1, <3>1
  <2> QED BY <1>1, <1>2, <2>1, <2>2, SeqEqual
<1> QED BY <1>2, <1>3

\* The other steps of the clients.
LEMMA V_Client ==
    ASSUME V_Inv, NEW u \in Users,
           Store!SendPayload(u) \/ Store!ReadResponse(u) \/ Store!Exit(u)
    PROVE  V_Inv'
<1> USE V_Constants
<1>1. UNCHANGED <<db, kernel, serving, kpc, written, request>>
  BY DEF Store!SendPayload, Store!ReadResponse, Store!Exit, Store!server
<1>2. CASE Store!SendPayload(u)
  <2>1. /\ upc[u] = "payload" /\ upc' = [upc EXCEPT ![u] = "response"] /\ UNCHANGED response
        /\ stream' = [stream EXCEPT ![u] = Append(@, "payload")]
    BY <1>2 DEF Store!SendPayload
  <2>2. /\ request[u] # Nothing /\ request[u].op = "WRITE" /\ response[u] = <<>>
        /\ IF serving = u /\ kpc = "payload" THEN stream[u] = <<>> ELSE stream[u] = <<"header">>
    BY <2>1 DEF V_Inv, V_Clients
  <2>3. PICK s \in {<<"header", "payload">>, <<"payload">>} :
            /\ stream' = [stream EXCEPT ![u] = s]
            /\ IF serving = u /\ kpc = "payload" THEN s = <<"payload">>
               ELSE s = <<"header", "payload">>
    <3>1. Append(<<"header">>, "payload") = <<"header", "payload">>
      BY V_Streams
    <3>2. Append(<<>>, "payload") = <<"payload">>
      OBVIOUS
    <3> QED BY <2>1, <2>2, <3>1, <3>2 DEF V_Inv, V_TypeOK
  <2>4. V_TypeOK'
    BY <1>1, <2>1, <2>3, ZenonT(40) DEF V_Inv, V_TypeOK
  <2>5. /\ stream'[u] = s /\ upc'[u] = "response"
        /\ \A v \in Users : v # u => stream'[v] = stream[v] /\ upc'[v] = upc[v]
    BY <2>1, <2>3 DEF V_Inv, V_TypeOK
  <2>6. V_Clients'
    <3>1. ASSUME NEW v \in Users, v # u PROVE V_Clients!(v)'
      BY <1>1, <2>1, <2>5, <3>1 DEF V_Inv, V_Clients
    <3>2. V_Clients!(u)'
      BY <1>1, <2>1, <2>2, <2>3, <2>5, V_Streams
    <3> QED BY <3>1, <3>2 DEF V_Clients
  <2>7. V_Server'
    BY <1>1, <2>1, <2>2, <2>5 DEF V_Inv, V_Server, V_TypeOK
  <2>8. V_Response'
    BY <1>1, <2>1, <2>2, <2>5 DEF V_Inv, V_Response
  <2>9. V_Map' /\ V_Empty'
    BY <1>1, <2>1, <2>5 DEF V_Inv, V_Map, Uses, V_Empty
  <2> QED BY <2>4, <2>6, <2>7, <2>8, <2>9 DEF V_Inv
<1>3. CASE Store!ReadResponse(u) \/ Store!Exit(u)
  <2>1. /\ response' = [response EXCEPT ![u] = <<>>] /\ UNCHANGED stream
    BY <1>3 DEF Store!ReadResponse, Store!Exit, Store!NoResponse
  <2>2. PICK l \in {"prompt", "exit"} :
            /\ upc' = [upc EXCEPT ![u] = l]
            /\ l = "prompt" => upc[u] = "response" /\ response[u] # <<>>
            /\ upc[u] # "exit"
    BY <1>3 DEF Store!ReadResponse, Store!Exit, Store!NoResponse
  <2>3. V_TypeOK'
    BY <1>1, <2>1, <2>2 DEF V_Inv, V_TypeOK
  <2>4. /\ response'[u] = <<>> /\ upc'[u] = l
        /\ \A v \in Users : v # u => response'[v] = response[v] /\ upc'[v] = upc[v]
    BY <2>1, <2>2 DEF V_Inv, V_TypeOK
  <2>5. l = "prompt" => serving = u /\ kpc = "recv" /\ stream[u] = <<>>
    BY <2>2 DEF V_Inv, V_Response
  <2>6. V_Clients'
    <3>1. ASSUME NEW v \in Users, v # u PROVE V_Clients!(v)'
      BY <1>1, <2>1, <2>4, <3>1 DEF V_Inv, V_Clients
    <3>2. V_Clients!(u)'
      BY <1>1, <2>1, <2>2, <2>4, <2>5 DEF V_Inv, V_Clients
    <3> QED BY <3>1, <3>2 DEF V_Clients
  <2>7. V_Server'
    BY <1>1, <2>1, <2>2, <2>4, <2>5 DEF V_Inv, V_Server, V_TypeOK
  <2>8. V_Response'
    BY <1>1, <2>1, <2>4 DEF V_Inv, V_Response
  <2>9. V_Map' /\ V_Empty'
    BY <1>1, <2>2, <2>4 DEF V_Inv, V_Map, Uses, V_Empty
  <2> QED BY <2>3, <2>6, <2>7, <2>8, <2>9 DEF V_Inv
<1> QED BY <1>2, <1>3

\* Of the server: accept(), the end of a connection, a header, and the command
\* that kills it.
LEMMA V_Connection ==
    ASSUME V_Inv, Store!Accept \/ Store!Disconnected \/ Store!RecvHeader \/ Store!Fire
    PROVE  V_Inv'
<1> USE V_Constants
<1>1. UNCHANGED <<db, written, upc, request, response>>
  BY DEF Store!Accept, Store!Disconnected, Store!RecvHeader, Store!Fire, Store!client
<1>2. V_Map' /\ V_Empty'
  BY <1>1 DEF V_Inv, V_Map, Uses, V_Empty
<1>3. CASE Store!Accept
  <2>1. /\ kpc = "accept" /\ kpc' = "recv" /\ serving = Nothing /\ UNCHANGED stream
        /\ serving' = Head(kernel) /\ kernel' = Tail(kernel) /\ kernel # <<>>
    BY <1>3 DEF Store!Accept, Store!client, V_Inv, V_TypeOK
  <2>2. serving' \in Users /\ kernel' \in Seq(Users)
    BY <2>1 DEF V_Inv, V_TypeOK
  <2>3. V_TypeOK'
    BY <1>1, <2>1, <2>2 DEF V_Inv, V_TypeOK
  <2>4. V_Clients' /\ V_Server' /\ V_Response'
    BY <1>1, <2>1 DEF V_Inv, V_Clients, V_Server, V_Response
  <2> QED BY <1>2, <2>3, <2>4 DEF V_Inv
<1>4. CASE Store!Disconnected
  <2>1. /\ kpc = "recv" /\ kpc' = "accept" /\ serving' = Nothing /\ upc[serving] = "exit"
        /\ UNCHANGED <<kernel, stream>> /\ serving \in Users
    BY <1>4 DEF Store!Disconnected, Store!client, V_Inv, V_TypeOK
  <2>2. V_TypeOK'
    BY <1>1, <2>1 DEF V_Inv, V_TypeOK
  <2>3. V_Clients' /\ V_Server' /\ V_Response'
    BY <1>1, <2>1 DEF V_Inv, V_Clients, V_Server, V_Response
  <2> QED BY <1>2, <2>2, <2>3 DEF V_Inv
<1>5. CASE Store!RecvHeader
  <2>1. /\ kpc = "recv" /\ stream[serving] # <<>> /\ serving \in Users
        /\ stream' = [stream EXCEPT ![serving] = Tail(@)] /\ UNCHANGED <<kernel, serving>>
    BY <1>5 DEF Store!RecvHeader, V_Inv, V_TypeOK
  <2>2. /\ request[serving] \in Store!Commands /\ response[serving] = <<>>
        /\ upc[serving] # "prompt"
        /\ stream[serving] \in {<<"header">>, <<"header", "payload">>}
        /\ request[serving].op # "WRITE" => stream[serving] = <<"header">>
        /\ request[serving].op = "FIRE" => upc[serving] = "exit"
        /\ upc[serving] = "payload" => stream[serving] = <<"header">>
    BY <2>1 DEF V_Inv, V_TypeOK, V_Clients, V_Response
  <2>3. PICK s \in {<<>>, <<"payload">>} :
            /\ stream' = [stream EXCEPT ![serving] = s]
            /\ stream[serving] = <<"header">> => s = <<>>
    <3>1. Tail(<<"header">>) = <<>>
      OBVIOUS
    <3>2. Tail(<<"header", "payload">>) = <<"payload">>
      OBVIOUS
    <3> QED BY <2>1, <2>2, <3>1, <3>2 DEF V_Inv, V_TypeOK
  <2>4. /\ kpc' \in {"payload", "process", "fire"}
        /\ kpc' = "payload" <=> request[serving].op = "WRITE"
        /\ kpc' = "fire" <=> request[serving].op = "FIRE"
    <3>1. CASE request[serving].op = "WRITE"
      BY <1>5, <3>1 DEF Store!RecvHeader
    <3>2. CASE request[serving].op = "FIRE"
      BY <1>5, <3>2 DEF Store!RecvHeader
    <3>3. CASE request[serving].op # "WRITE" /\ request[serving].op # "FIRE"
      BY <1>5, <3>3 DEF Store!RecvHeader
    <3> QED BY <3>1, <3>2, <3>3
  <2>5. V_TypeOK'
    <3>1. stream' \in [Users -> {<<>>, <<"header">>, <<"header", "payload">>, <<"payload">>}]
      BY <2>1, <2>3 DEF V_Inv, V_TypeOK
    <3> QED BY <1>1, <2>1, <2>4, <3>1 DEF V_Inv, V_TypeOK
  <2>6. stream'[serving] = s /\ \A v \in Users : v # serving => stream'[v] = stream[v]
    BY <2>1, <2>3 DEF V_Inv, V_TypeOK
  <2>7. V_Clients'
    <3>1. ASSUME NEW v \in Users, v # serving PROVE V_Clients!(v)'
      BY <1>1, <2>1, <2>6, <3>1 DEF V_Inv, V_Clients
    <3>2. V_Clients!(serving)'
      BY <1>1, <2>1, <2>2, <2>3, <2>4, <2>6, V_Streams DEF V_Inv, V_Clients
    <3> QED BY <1>1, <2>1, <3>1, <3>2 DEF V_Clients
  <2>8. V_Server'
    BY <1>1, <2>1, <2>2, <2>3, <2>4, <2>6, V_Commands DEF V_Server
  <2>9. V_Response'
    BY <1>1, <2>1, <2>2, <2>6 DEF V_Inv, V_Response
  <2> QED BY <1>2, <2>5, <2>7, <2>8, <2>9 DEF V_Inv
<1>6. CASE Store!Fire
  <2>1. kpc = "fire" /\ kpc' = "killed" /\ UNCHANGED <<kernel, serving, stream>> /\ serving \in Users
    BY <1>6 DEF Store!Fire, Store!client, V_Inv, V_TypeOK
  <2>2. V_TypeOK'
    BY <1>1, <2>1 DEF V_Inv, V_TypeOK
  <2>3. V_Clients' /\ V_Server' /\ V_Response'
    BY <1>1, <2>1 DEF V_Inv, V_Clients, V_Server, V_Response
  <2> QED BY <1>2, <2>2, <2>3 DEF V_Inv
<1> QED BY <1>3, <1>4, <1>5, <1>6

\* find_entry(): the entry that is in use for a key, or 0.
LEMMA V_Found ==
    ASSUME V_TypeOK, NEW k \in Keys
    PROVE  \/ Store!find_entry(k) = 0 /\ \A e \in Store!Entries : ~Uses(e, k)
           \/ Store!find_entry(k) \in Store!Entries /\ Uses(Store!find_entry(k), k)
<1> DEFINE found == {e \in Store!Entries : db[e].in_use /\ db[e].key = k}
<1>1. Store!find_entry(k) = IF found = {} THEN 0 ELSE Store!Min(found)
  BY DEF Store!find_entry
<1>2. CASE found = {}
  BY <1>1, <1>2 DEF Uses
<1>3. CASE found # {}
  <2>1. found \in SUBSET Nat
    BY V_Constants
  <2>2. \E x \in found : \A y \in found : x <= y
    BY <1>3, <2>1, LeastOf
  <2>3. Store!Min(found) \in found
    BY <2>2 DEF Store!Min
  <2> QED BY <1>1, <1>3, <2>3 DEF Uses
<1> QED BY <1>2, <1>3

LEMMA V_Slot ==
    ASSUME V_TypeOK, NEW k \in Keys, Store!Slot(k) # 0
    PROVE  /\ Store!Slot(k) \in Store!Entries
           /\ \/ Uses(Store!Slot(k), k)
              \/ ~db[Store!Slot(k)].in_use /\ \A e \in Store!Entries : ~Uses(e, k)
<1>1. CASE Store!find_entry(k) # 0
  BY <1>1, V_Found DEF Store!Slot
<1>2. CASE Store!find_entry(k) = 0
  <2>1. 0 \notin Store!Entries
    BY V_Constants
  <2>2. \A e \in Store!Entries : ~Uses(e, k)
    BY <1>2, <2>1, V_Found
  <2>3. Store!FreeEntries # {} /\ Store!Slot(k) = Store!Min(Store!FreeEntries)
    BY <1>2 DEF Store!Slot
  <2>4. Store!FreeEntries \in SUBSET Nat
    BY V_Constants DEF Store!FreeEntries
  <2>5. \E x \in Store!FreeEntries : \A y \in Store!FreeEntries : x <= y
    BY <2>3, <2>4, LeastOf
  <2>6. Store!Min(Store!FreeEntries) \in Store!FreeEntries
    BY <2>5 DEF Store!Min
  <2> QED BY <2>2, <2>3, <2>6 DEF Store!FreeEntries
<1> QED BY <1>1, <1>2

\* The end of every request but "fire".
LEMMA V_Reply ==
    ASSUME V_Inv, kpc \in {"payload", "process"},
           NEW st \in {"OK", "ERROR", "NOT_FOUND"}, NEW val \in Data \cup {Nothing},
           Store!Reply(st, val),
           UNCHANGED <<kernel, serving, upc, request>>, upc[serving] # "payload",
           stream' \in [Users -> {<<>>, <<"header">>, <<"header", "payload">>, <<"payload">>}],
           stream'[serving] = <<>>, \A v \in Users : v # serving => stream'[v] = stream[v],
           val # Nothing => request[serving].op = "READ",
           request[serving].op = "READ" =>
               <<st, val>> = IF written'[request[serving].key] = Nothing
                             THEN <<"NOT_FOUND", Nothing>>
                             ELSE <<"OK", written'[request[serving].key]>>,
           db' \in [Store!Entries -> [key : Keys \cup {Nothing}, value : Data \cup {Nothing},
                                      in_use : BOOLEAN]],
           written' \in [Keys -> Data \cup {Nothing}]
    PROVE  V_TypeOK' /\ V_Clients' /\ V_Server' /\ V_Response'
<1> USE V_Constants
<1>1. /\ serving \in Users /\ request[serving] # Nothing /\ response[serving] = <<>>
      /\ upc[serving] \in {"response", "exit"}
      /\ request[serving].op = "READ" \/ val = Nothing
      /\ request[serving].op # "FIRE"
  BY DEF V_Inv, V_Server, V_TypeOK
<1>2. \A v \in Users : response[v] = <<>>
  BY DEF V_Inv, V_Response
<1> DEFINE rep == IF upc[serving] = "exit" THEN <<>> ELSE <<st, val>>
<1>3. response' = [response EXCEPT ![serving] = rep]
  BY <1>1 DEF Store!Reply
<1>4. /\ rep \in {<<>>} \cup ({"OK", "ERROR", "NOT_FOUND"} \X (Data \cup {Nothing}))
      /\ rep # <<>> => upc[serving] = "response" /\ rep = <<st, val>>
  BY <1>1
<1> HIDE DEF rep
<1>5. /\ kpc' \in {"recv", "killed"}
      /\ kpc' = "killed" => upc[serving] = "exit" /\ request[serving].op = "READ"
  BY DEF Store!Reply
<1>6. response'[serving] = rep /\ \A v \in Users : v # serving => response'[v] = <<>>
  BY <1>1, <1>2, <1>3 DEF V_Inv, V_TypeOK
<1>7. V_TypeOK'
  <2>1. response' \in [Users -> {<<>>} \cup ({"OK", "ERROR", "NOT_FOUND"} \X (Data \cup {Nothing}))]
    BY <1>3, <1>4 DEF V_Inv, V_TypeOK
  <2> QED BY <1>1, <1>5, <2>1 DEF V_Inv, V_TypeOK
<1>8. V_Clients'
  <2>1. ASSUME NEW v \in Users, v # serving PROVE V_Clients!(v)'
    BY <1>5, <1>6, <2>1 DEF V_Inv, V_Clients
  <2>2. V_Clients!(serving)'
    BY <1>1, <1>4, <1>5, <1>6, V_Streams
  <2> QED BY <2>1, <2>2 DEF V_Clients
<1>9. V_Server'
  BY <1>1, <1>4, <1>5, <1>6 DEF V_Server
<1>10. V_Response'
  <2> SUFFICES ASSUME NEW v \in Users, response'[v] # <<>> PROVE V_Response!(v)'
    BY DEF V_Response
  <2>1. v = serving /\ kpc' = "recv" /\ upc[v] = "response" /\ response'[v] = <<st, val>>
    BY <1>4, <1>5, <1>6
  <2> QED BY <2>1
<1> QED BY <1>7, <1>8, <1>9, <1>10

LEMMA V_Write == ASSUME V_Inv, Store!Write PROVE V_Inv'
<1> USE V_Constants
<1> DEFINE r == request[serving]
           value == IF stream[serving] # <<>> THEN r.value ELSE Empty
           idx == Store!Slot(r.key)
<1>1. /\ kpc = "payload" /\ (stream[serving] # <<>> \/ upc[serving] = "exit")
      /\ stream' = [stream EXCEPT ![serving] = <<>>]
      /\ UNCHANGED <<kernel, serving, upc, request>>
  BY DEF Store!Write
<1>2. /\ serving \in Users /\ r \in Store!Commands /\ r # Nothing /\ r.op = "WRITE"
      /\ upc[serving] # "payload"
  BY <1>1 DEF V_Inv, V_TypeOK, V_Server, V_Clients
<1>3. r.key \in Keys /\ value \in Data /\ value # Nothing
      /\ (value = Empty => upc[serving] = "exit")
  <2>1. r.key \in Keys /\ r.value \in Values
    BY <1>2, V_Commands
  <2> QED BY <1>1, <2>1 DEF Data
<1>4. /\ stream' \in [Users -> {<<>>, <<"header">>, <<"header", "payload">>, <<"payload">>}]
      /\ stream'[serving] = <<>> /\ \A v \in Users : v # serving => stream'[v] = stream[v]
  BY <1>1, <1>2 DEF V_Inv, V_TypeOK
<1>5. CASE idx # 0
  <2>1. /\ db' = [db EXCEPT ![idx] = [key |-> r.key, value |-> value, in_use |-> TRUE]]
        /\ written' = [written EXCEPT ![r.key] = value] /\ Store!Reply("OK", Nothing)
    BY <1>5 DEF Store!Write
  <2>2. /\ idx \in Store!Entries
        /\ Uses(idx, r.key) \/ (~db[idx].in_use /\ \A e \in Store!Entries : ~Uses(e, r.key))
    BY <1>3, <1>5, V_Slot DEF V_Inv
  <2> HIDE DEF r, value, idx
  <2>3. /\ db' \in [Store!Entries -> [key : Keys \cup {Nothing}, value : Data \cup {Nothing},
                                      in_use : BOOLEAN]]
        /\ written' \in [Keys -> Data \cup {Nothing}]
    BY <1>3, <2>1, <2>2 DEF V_Inv, V_TypeOK
  <2>4. V_TypeOK' /\ V_Clients' /\ V_Server' /\ V_Response'
    BY <1>1, <1>2, <1>4, <2>1, <2>3, V_Reply DEF r
  <2>5. /\ db'[idx].key = r.key /\ db'[idx].value = value /\ db'[idx].in_use
        /\ written'[r.key] = value
        /\ \A e \in Store!Entries : e # idx => db'[e] = db[e]
        /\ \A k \in Keys : k # r.key => written'[k] = written[k]
    BY <1>3, <2>1, <2>2 DEF V_Inv, V_TypeOK
  <2>6. \A e \in Store!Entries : e # idx => ~Uses(e, r.key)
    BY <1>3, <2>2 DEF V_Inv, V_Map
  <2>7. \A k \in Keys : k # r.key => ~Uses(idx, k)
    BY <2>2 DEF Uses
  <2>8. V_Map'
    <3>1. \A e \in Store!Entries : db'[e].in_use =>
             db'[e].key \in Keys /\ db'[e].value \in Data /\ written'[db'[e].key] = db'[e].value
      <4> TAKE e \in Store!Entries
      <4>1. CASE e = idx
        BY <1>3, <2>5, <4>1
      <4>2. CASE e # idx
        BY <2>5, <2>6, <4>2 DEF V_Inv, V_Map, Uses
      <4> QED BY <4>1, <4>2
    <3>2. \A e \in Store!Entries, k \in Keys :
             Uses(e, k)' <=> IF k = r.key THEN e = idx ELSE Uses(e, k)
      BY <2>2, <2>5, <2>6, <2>7 DEF Uses
    <3>3. \A e, f \in Store!Entries : \A k \in Keys : Uses(e, k)' /\ Uses(f, k)' => e = f
      BY <3>2 DEF V_Inv, V_Map
    <3>4. \A k \in Keys : written'[k] # Nothing => \E e \in Store!Entries : Uses(e, k)'
      BY <2>2, <2>5, <3>2 DEF V_Inv, V_Map
    <3> QED BY <3>1, <3>3, <3>4 DEF V_Map
  <2>9. V_Empty'
    BY <1>1, <1>2, <1>3, <2>5 DEF V_Inv, V_Empty, r
  <2> QED BY <2>4, <2>8, <2>9 DEF V_Inv
<1>6. CASE idx = 0
  <2>1. UNCHANGED <<db, written>> /\ Store!Reply("ERROR", Nothing)
    BY <1>6 DEF Store!Write
  <2>2. V_TypeOK' /\ V_Clients' /\ V_Server' /\ V_Response'
    <3>1. db' \in [Store!Entries -> [key : Keys \cup {Nothing}, value : Data \cup {Nothing},
                                     in_use : BOOLEAN]] /\ written' \in [Keys -> Data \cup {Nothing}]
      BY <2>1 DEF V_Inv, V_TypeOK
    <3> HIDE DEF idx, value
    <3> QED BY <1>1, <1>2, <1>4, <2>1, <3>1, V_Reply
  <2>3. V_Map' /\ V_Empty'
    BY <1>1, <2>1 DEF V_Inv, V_Map, Uses, V_Empty
  <2> QED BY <2>2, <2>3 DEF V_Inv
<1> QED BY <1>5, <1>6

LEMMA V_ReadDelete == ASSUME V_Inv, Store!Read \/ Store!Delete PROVE V_Inv'
<1> USE V_Constants
<1> DEFINE r == request[serving]
           idx == Store!find_entry(r.key)
<1>1. /\ kpc = "process" /\ r.op \in {"READ", "DELETE"}
      /\ UNCHANGED <<kernel, serving, upc, request, stream>>
  BY DEF Store!Read, Store!Delete, Store!client
<1>2. /\ serving \in Users /\ r \in Store!Commands /\ upc[serving] # "payload"
      /\ stream[serving] = <<>>
  BY <1>1 DEF V_Inv, V_TypeOK, V_Server, V_Clients
<1>3. r.key \in Keys
  BY <1>1, <1>2, V_Commands
<1>4. \/ idx = 0 /\ \A e \in Store!Entries : ~Uses(e, r.key)
      \/ idx \in Store!Entries /\ Uses(idx, r.key) /\ idx # 0
  BY <1>3, V_Found DEF V_Inv
<1>5. /\ idx = 0 => written[r.key] = Nothing
      /\ idx # 0 => db[idx].value = written[r.key] /\ written[r.key] \in Data
  BY <1>3, <1>4 DEF V_Inv, V_Map, Uses
<1>6. /\ stream' \in [Users -> {<<>>, <<"header">>, <<"header", "payload">>, <<"payload">>}]
      /\ stream'[serving] = <<>> /\ \A v \in Users : v # serving => stream'[v] = stream[v]
  BY <1>1, <1>2 DEF V_Inv, V_TypeOK
<1>7. ASSUME UNCHANGED <<db, written>> PROVE V_Map' /\ V_Empty'
  BY <1>1, <1>7 DEF V_Inv, V_Map, Uses, V_Empty
<1>8. ASSUME UNCHANGED <<db, written>>
      PROVE  /\ db' \in [Store!Entries -> [key : Keys \cup {Nothing}, value : Data \cup {Nothing},
                                           in_use : BOOLEAN]]
             /\ written' \in [Keys -> Data \cup {Nothing}]
  BY <1>8 DEF V_Inv, V_TypeOK
<1>9. CASE Store!Read
  <2>1. /\ UNCHANGED <<db, written>> /\ r.op = "READ"
        /\ IF idx # 0 THEN Store!Reply("OK", db[idx].value) ELSE Store!Reply("NOT_FOUND", Nothing)
    BY <1>9 DEF Store!Read
  <2>2. V_TypeOK' /\ V_Clients' /\ V_Server' /\ V_Response'
    <3> HIDE DEF idx
    <3>1. CASE idx # 0
      <4>1. PICK val \in Data : val = db[idx].value /\ val = written[r.key] /\ val # Nothing
        BY <1>5, <3>1
      <4>2. Store!Reply("OK", val)
        BY <2>1, <3>1, <4>1
      <4> QED BY <1>1, <1>2, <1>6, <1>8, <2>1, <4>1, <4>2, V_Reply
    <3>2. CASE idx = 0
      <4>1. Store!Reply("NOT_FOUND", Nothing) /\ written[r.key] = Nothing
        BY <1>5, <2>1, <3>2
      <4> QED BY <1>1, <1>2, <1>6, <1>8, <2>1, <4>1, V_Reply
    <3> QED BY <3>1, <3>2
  <2> QED BY <1>7, <2>1, <2>2 DEF V_Inv
<1>10. CASE Store!Delete /\ idx = 0
  <2>1. UNCHANGED <<db, written>> /\ r.op = "DELETE" /\ Store!Reply("NOT_FOUND", Nothing)
    BY <1>10 DEF Store!Delete
  <2>2. V_TypeOK' /\ V_Clients' /\ V_Server' /\ V_Response'
    BY <1>1, <1>2, <1>6, <1>8, <2>1, V_Reply
  <2> QED BY <1>7, <2>1, <2>2 DEF V_Inv
<1>11. CASE Store!Delete /\ idx # 0
  <2>1. /\ db' = [db EXCEPT ![idx].in_use = FALSE] /\ r.op = "DELETE"
        /\ written' = [written EXCEPT ![r.key] = Nothing] /\ Store!Reply("OK", Nothing)
    BY <1>11 DEF Store!Delete
  <2>2. idx \in Store!Entries /\ Uses(idx, r.key)
    BY <1>4, <1>11
  <2> HIDE DEF idx
  <2>3. /\ db' \in [Store!Entries -> [key : Keys \cup {Nothing}, value : Data \cup {Nothing},
                                      in_use : BOOLEAN]]
        /\ written' \in [Keys -> Data \cup {Nothing}]
    <3> DEFINE new == [db[idx] EXCEPT !.in_use = FALSE]
    <3>1. db[idx] \in [key : Keys \cup {Nothing}, value : Data \cup {Nothing}, in_use : BOOLEAN]
      BY <2>2 DEF V_Inv, V_TypeOK
    <3>2. new \in [key : Keys \cup {Nothing}, value : Data \cup {Nothing}, in_use : BOOLEAN]
      BY <3>1
    <3>3. db' = [db EXCEPT ![idx] = new]
      BY <2>1
    <3> HIDE DEF new
    <3>4. db' \in [Store!Entries -> [key : Keys \cup {Nothing}, value : Data \cup {Nothing},
                                      in_use : BOOLEAN]]
      BY <2>2, <3>2, <3>3 DEF V_Inv, V_TypeOK
    <3> QED BY <1>3, <2>1, <3>4 DEF V_Inv, V_TypeOK
  <2>4. V_TypeOK' /\ V_Clients' /\ V_Server' /\ V_Response'
    BY <1>1, <1>2, <1>6, <2>1, <2>3, V_Reply
  <2>5. /\ ~db'[idx].in_use /\ written'[r.key] = Nothing
        /\ \A e \in Store!Entries : e # idx => db'[e] = db[e]
        /\ \A k \in Keys : k # r.key => written'[k] = written[k]
    BY <1>3, <2>1, <2>2 DEF V_Inv, V_TypeOK
  <2>6. \A e \in Store!Entries : e # idx => ~Uses(e, r.key)
    BY <1>3, <2>2 DEF V_Inv, V_Map
  <2>7. V_Map'
    <3>1. \A e \in Store!Entries : db'[e].in_use =>
             db'[e].key \in Keys /\ db'[e].value \in Data /\ written'[db'[e].key] = db'[e].value
      <4> TAKE e \in Store!Entries
      <4>1. CASE e = idx
        BY <2>5, <4>1
      <4>2. CASE e # idx
        BY <2>5, <2>6, <4>2 DEF V_Inv, V_Map, Uses
      <4> QED BY <4>1, <4>2
    <3>2. \A e \in Store!Entries, k \in Keys : Uses(e, k)' <=> k # r.key /\ Uses(e, k)
      BY <2>2, <2>5, <2>6 DEF Uses
    <3>3. \A e, f \in Store!Entries : \A k \in Keys : Uses(e, k)' /\ Uses(f, k)' => e = f
      BY <3>2 DEF V_Inv, V_Map
    <3>4. \A k \in Keys : written'[k] # Nothing => \E e \in Store!Entries : Uses(e, k)'
      BY <2>5, <3>2 DEF V_Inv, V_Map
    <3> QED BY <3>1, <3>3, <3>4 DEF V_Map
  <2>8. V_Empty'
    <3>1. Nothing # Empty
      BY DEF Data
    <3> QED BY <1>1, <2>5, <3>1 DEF V_Inv, V_Empty
  <2> QED BY <2>4, <2>7, <2>8 DEF V_Inv
<1> QED BY <1>9, <1>10, <1>11

\* What the invariant says of the table, in terms of sets of entries.
LEMMA V_Table == V_Inv => StoreIsMap
<1> SUFFICES ASSUME V_Inv PROVE StoreIsMap
  OBVIOUS
<1> USE V_Constants
<1>1. ASSUME NEW k \in Keys
      PROVE  LET S == {e \in Store!Entries : db[e].in_use /\ db[e].key = k}
             IN  /\ {db[e].value : e \in S} = {written[k]} \ {Nothing}
                 /\ Store!Cardinality(S) <= 1
  <2> DEFINE S == {e \in Store!Entries : db[e].in_use /\ db[e].key = k}
  <2>1. CASE S = {}
    <3>1. written[k] = Nothing
      BY <2>1 DEF V_Inv, V_Map, Uses
    <3>2. Store!Cardinality(S) = 0
      BY <2>1, FS_EmptySet DEF Store!Cardinality, Cardinality
    <3> QED BY <2>1, <3>1, <3>2
  <2>2. CASE S # {}
    <3>1. PICK e : e \in S
      BY <2>2
    <3>2. S = {e}
      BY <3>1 DEF V_Inv, V_Map, Uses
    <3>3. db[e].value = written[k] /\ written[k] # Nothing
      BY <3>1 DEF V_Inv, V_Map
    <3>4. Store!Cardinality(S) = 1
      <4>1. Cardinality({e}) = 1
        BY FS_Singleton
      <4> HIDE DEF S
      <4> QED BY <3>2, <4>1 DEF Store!Cardinality, Cardinality
    <3>5. {db[f].value : f \in S} = {written[k]}
      BY <3>2, <3>3
    <3> HIDE DEF S
    <3>6. {db[f].value : f \in S} = {written[k]} \ {Nothing} /\ Store!Cardinality(S) <= 1
      BY <3>3, <3>4, <3>5
    <3> QED BY <3>6 DEF S
  <2> QED BY <2>1, <2>2
<1>2. \A u \in Users : response[u] # Store!NoResponse /\ request[u].op = "READ" =>
         response[u] = IF written[request[u].key] = Nothing THEN <<"NOT_FOUND", Nothing>>
                       ELSE <<"OK", written[request[u].key]>>
  BY DEF V_Inv, V_Response, Store!NoResponse
<1>3. kpc = "killed" => upc[serving] = "exit" /\ request[serving].op \in {"FIRE", "READ"}
  BY DEF V_Inv, V_Server
<1> QED BY <1>1, <1>2, <1>3 DEF StoreIsMap, Store!StoreIsMap, V_Inv, V_Empty

\* The key-value store is a map, whoever dies: a key has one entry with the last
\* value processed and a response under way tells it; only a client that died
\* between header and payload leaves an empty value, and only "fire" or a read
\* nobody waits for stops the store (kv_store.c:20-25, 99-139, 156-161), for any
\* sets of clients, keys and values and any size of the table.
THEOREM TableIsMap == Store!Spec => []StoreIsMap
<1>1. V_Inv /\ [Store!Next]_Store!vars => V_Inv'
  <2> SUFFICES ASSUME V_Inv, [Store!Next]_Store!vars PROVE V_Inv'
    OBVIOUS
  <2>1. CASE Store!StoreStep
    BY <2>1, V_Connection, V_Write, V_ReadDelete DEF Store!StoreStep
  <2>2. ASSUME NEW u \in Users, Store!ClientStep(u) PROVE V_Inv'
    BY <2>2, V_Command, V_Client DEF Store!ClientStep
  <2>3. CASE UNCHANGED Store!vars
    <3>1. /\ UNCHANGED <<db, kernel, serving, kpc, written>>
          /\ UNCHANGED <<upc, request, stream, response>>
      BY <2>3 DEF Store!vars, Store!server, Store!client
    <3>2. V_TypeOK' /\ V_Clients' /\ V_Server' /\ V_Response'
      BY <3>1 DEF V_Inv, V_TypeOK, V_Clients, V_Server, V_Response
    <3>3. V_Map' /\ V_Empty'
      BY <3>1 DEF V_Inv, V_Map, Uses, V_Empty
    <3> QED BY <3>2, <3>3 DEF V_Inv
  <2> QED BY <2>1, <2>2, <2>3 DEF Store!Next
<1> QED BY <1>1, V_Init, V_Table, PTL DEF Store!Spec

-----------------------------------------------------------------------------
(* dumb_coro.cpp: one worker and its coroutines *)

Living(c)  == cpc[c] \notin {"none", "closed"}
Waiting(c) == cpc[c] \in {"reread", "rewrite"}
Runs(co)   == \E i \in 1 .. Len(o_running) : o_running[i] = co
Told(co)   == \E i \in 1 .. Len(events) : events[i].who = co

O_TypeOK ==
    /\ caller \in [Callers -> {"new", "open", "gone"}]
    /\ backlog \in Seq(Callers)
    /\ fd \in [Callers -> Fds \cup {Coro!Listener}]
    /\ frame \in [Frames -> Callers \cup {"acceptor", Nobody}]
    /\ cpc \in [Callers -> {"none", "read", "reread", "write", "rewrite", "close", "closed"}]
    /\ epoll \in [Fds \cup {Coro!Listener} -> [ptr : Frames \cup {Nobody},
                                               want : {"none", "in", "out"}]]
    /\ events \in Seq([ptr : Frames, who : Callers \cup {"acceptor"}])
    /\ \/ o_running \in {<<>>, <<"acceptor">>}
       \/ \E c \in Callers : Living(c) /\ o_running \in {<<c>>, <<"acceptor", c>>}

\* Every coroutine has one frame, and every client it lives for one descriptor.
O_Frames ==
    /\ \A a, b \in Frames : frame[a] = frame[b] /\ frame[a] # Nobody => a = b
    /\ \E a \in Frames : frame[a] = "acceptor"
    /\ \A c \in Callers : Living(c) => fd[c] # Coro!Listener /\ \E a \in Frames : frame[a] = c
    /\ \A a \in Frames : frame[a] \in Callers => Living(frame[a])
    /\ \A c \in Callers : ~Living(c) => fd[c] = Coro!Listener
    /\ \A c, d \in Callers : fd[c] = fd[d] /\ Living(c) => c = d

\* In the queue are clients that have not been accepted, each once.
O_Backlog ==
    /\ \A i \in 1 .. Len(backlog) : cpc[backlog[i]] = "none" /\ caller[backlog[i]] # "new"
    /\ \A i, j \in 1 .. Len(backlog) : backlog[i] = backlog[j] => i = j
    /\ \A c \in Callers : caller[c] = "new" => cpc[c] = "none"

\* What is armed belongs to a coroutine that waits, neither running nor about to
\* be resumed.
O_Armed ==
    /\ \A f \in Fds : epoll[f].want # "none" =>
          \E c \in Callers : /\ fd[c] = f /\ Waiting(c) /\ ~Runs(c) /\ ~Told(c)
                             /\ epoll[f].ptr \in Frames /\ frame[epoll[f].ptr] = c
    /\ epoll[Coro!Listener].want # "none" =>
          /\ epoll[Coro!Listener].ptr \in Frames
          /\ frame[epoll[Coro!Listener].ptr] = "acceptor"
          /\ ~Runs("acceptor") /\ ~Told("acceptor")

\* An event is for a coroutine that waits; there are no two for one.
O_Events ==
    /\ \A i \in 1 .. Len(events) :
          /\ frame[events[i].ptr] = events[i].who /\ ~Runs(events[i].who)
          /\ events[i].who = "acceptor" \/ Waiting(events[i].who)
    /\ \A i, j \in 1 .. Len(events) : events[i].who = events[j].who => i = j

O_Inv == O_TypeOK /\ O_Frames /\ O_Backlog /\ O_Armed /\ O_Events

LEMMA O_Constants ==
    /\ Coro!Listener = 0 /\ Fds \subseteq Nat /\ 0 \notin Fds
    /\ IsFiniteSet(Fds) /\ IsFiniteSet(Frames) /\ Frames # {}
    /\ Nobody \notin Callers /\ Nobody # "acceptor" /\ "acceptor" \notin Callers
<1>1. /\ Coro!Listener = 0 /\ Fds \subseteq Nat /\ 0 \notin Fds
      /\ IsFiniteSet(Fds) /\ IsFiniteSet(Frames) /\ Cardinality(Frames) > Cardinality(Fds)
      /\ Nobody \notin Callers /\ Nobody # "acceptor" /\ "acceptor" \notin Callers
  BY ProgramsAssumption DEF Coro!CoroConstants, Coro!Listener, Coro!IsFiniteSet, IsFiniteSet,
       Coro!Cardinality, Cardinality
<1>2. Cardinality(Fds) \in Nat /\ Cardinality({}) = 0
  BY <1>1, FS_CardinalityType, FS_EmptySet
<1> QED BY <1>1, <1>2

Coroutines == Callers \cup {"acceptor"}

\* Who is on the worker's stack.
LEMMA O_Stack ==
    /\ o_running = <<>> => \A x : ~Runs(x)
    /\ \A y : o_running = <<y>> => \A x : Runs(x) <=> x = y
    /\ \A y, z : o_running = <<y, z>> => \A x : Runs(x) <=> x = y \/ x = z
<1>1. ASSUME o_running = <<>>, NEW x PROVE ~Runs(x)
  BY <1>1 DEF Runs
<1>2. ASSUME NEW y, o_running = <<y>>, NEW x PROVE Runs(x) <=> x = y
  <2>1. Len(o_running) = 1 /\ o_running[1] = y
    BY <1>2
  <2>2. \A i \in 1 .. 1 : i = 1
    OBVIOUS
  <2>3. 1 \in 1 .. 1
    OBVIOUS
  <2> QED BY <2>1, <2>2, <2>3 DEF Runs
<1>3. ASSUME NEW y, NEW z, o_running = <<y, z>>, NEW x PROVE Runs(x) <=> x = y \/ x = z
  <2>1. Len(o_running) = 2 /\ o_running[1] = y /\ o_running[2] = z
    BY <1>3
  <2>2. \A i \in 1 .. 2 : i = 1 \/ i = 2
    OBVIOUS
  <2>3. 1 \in 1 .. 2 /\ 2 \in 1 .. 2
    OBVIOUS
  <2> QED BY <2>1, <2>2, <2>3 DEF Runs
<1> QED BY <1>1, <1>2, <1>3

LEMMA O_On ==
    ASSUME O_TypeOK, NEW co \in Coroutines, Coro!On(co)
    PROVE  /\ Runs(co)
           /\ co = "acceptor" => o_running = <<"acceptor">>
           /\ co # "acceptor" => Living(co) /\ o_running \in {<<co>>, <<"acceptor", co>>}
<1> USE O_Constants DEF Coroutines
<1>1. o_running # <<>> /\ o_running[Len(o_running)] = co
  BY DEF Coro!On, Coro!Top
<1>2. CASE o_running = <<"acceptor">>
  <2>1. co = "acceptor"
    BY <1>1, <1>2
  <2> QED BY <1>2, <2>1, O_Stack
<1>3. ASSUME NEW c \in Callers, Living(c), o_running \in {<<c>>, <<"acceptor", c>>}
      PROVE  Runs(co) /\ co = c
  <2>1. CASE o_running = <<c>>
    BY <1>1, <2>1, O_Stack
  <2>2. CASE o_running = <<"acceptor", c>>
    <3>1. co = c
      BY <1>1, <2>2
    <3> QED BY <2>2, <3>1, O_Stack
  <2> QED BY <1>3, <2>1, <2>2
<1> QED BY <1>1, <1>2, <1>3 DEF O_TypeOK

\* Control returns to who resumed or called the coroutine.
LEMMA O_Return ==
    ASSUME O_TypeOK, NEW co \in Coroutines, Coro!On(co), Coro!Return
    PROVE  o_running' \in {<<>>, <<"acceptor">>} /\ \A x : Runs(x)' => Runs(x) /\ x # co
<1> USE O_Constants
<1>1. o_running' = SubSeq(o_running, 1, Len(o_running) - 1)
  BY DEF Coro!Return, Coro!Front
<1>2. CASE o_running \in {<<"acceptor">>, <<co>>}
  <2>1. o_running' = <<>>
    <3>1. ASSUME NEW y \in Coroutines, o_running = <<y>> PROVE o_running' = <<>>
      <4>1. <<y>> \in Seq(Coroutines) /\ Len(<<y>>) = 1
        OBVIOUS
      <4>2. SubSeq(<<y>>, 1, 0) = <<>>
        BY <4>1, SubSeqProperties
      <4> QED BY <1>1, <3>1, <4>1, <4>2
    <3> QED BY <1>2, <3>1 DEF Coroutines
  <2> QED BY <2>1 DEF Runs
<1>3. CASE co # "acceptor" /\ o_running = <<"acceptor", co>>
  <2>1. /\ <<"acceptor", co>> \in Seq(Coroutines) /\ Len(<<"acceptor", co>>) = 2
        /\ <<"acceptor", co>>[1] = "acceptor" /\ <<"acceptor">> \in Seq(Coroutines)
        /\ Len(<<"acceptor">>) = 1 /\ <<"acceptor">>[1] = "acceptor"
    BY DEF Coroutines
  <2>2. PICK t : t = SubSeq(<<"acceptor", co>>, 1, 1)
    OBVIOUS
  <2>3. t \in Seq(Coroutines) /\ Len(t) = 1 /\ t[1] = "acceptor"
    BY <2>1, <2>2, SubSeqProperties
  <2>4. t = <<"acceptor">>
    <3>1. \A i \in 1 .. 1 : t[i] = <<"acceptor">>[i]
      BY <2>1, <2>3
    <3> QED BY <2>1, <2>3, <3>1, SeqEqual
  <2>5. o_running' = <<"acceptor">>
    <3>1. Len(o_running) - 1 = 1
      BY <1>3, <2>1
    <3> QED BY <1>1, <1>3, <2>2, <2>4, <3>1
  <2>6. \A x : Runs(x)' => x = "acceptor"
    BY <2>5 DEF Runs
  <2>7. Runs("acceptor")
    BY <1>3, O_Stack
  <2> QED BY <1>3, <2>5, <2>6, <2>7
<1> QED BY <1>2, <1>3, O_On

LEMMA O_Init == Coro!Init => O_Inv
<1> SUFFICES ASSUME Coro!Init PROVE O_Inv
  OBVIOUS
<1> USE O_Constants
<1>1. /\ caller = [c \in Callers |-> "new"] /\ backlog = <<>> /\ events = <<>>
      /\ fd = [c \in Callers |-> Coro!Listener] /\ o_running = <<>>
      /\ cpc = [c \in Callers |-> "none"]
      /\ epoll = [f \in Fds \cup {Coro!Listener} |->
                     IF f = Coro!Listener THEN [ptr |-> Coro!Address("acceptor"), want |-> "in"]
                     ELSE Coro!NoEntry]
  BY DEF Coro!Init
<1> DEFINE b == CHOOSE a \in Frames : TRUE
<1>2. b \in Frames /\ frame = [[a \in Frames |-> Nobody] EXCEPT ![b] = "acceptor"]
  BY DEF Coro!Init
<1> HIDE DEF b
<1>3. /\ frame \in [Frames -> Callers \cup {"acceptor", Nobody}] /\ frame[b] = "acceptor"
      /\ \A a \in Frames : a # b => frame[a] = Nobody
  BY <1>2
<1>4. Coro!Address("acceptor") \in Frames /\ frame[Coro!Address("acceptor")] = "acceptor"
  BY <1>2, <1>3 DEF Coro!Address
<1>5. epoll \in [Fds \cup {Coro!Listener} -> [ptr : Frames \cup {Nobody}, want : {"none", "in", "out"}]]
  BY <1>1, <1>4 DEF Coro!NoEntry
<1>6. O_TypeOK
  BY <1>1, <1>3, <1>5 DEF O_TypeOK
<1>7. O_Frames
  BY <1>1, <1>2, <1>3 DEF O_Frames, Living
<1>8. O_Backlog /\ O_Events
  BY <1>1 DEF O_Backlog, O_Events
<1>9. O_Armed
  <2>1. /\ \A f \in Fds : epoll[f].want = "none"
        /\ epoll[Coro!Listener].ptr = Coro!Address("acceptor")
    BY <1>1 DEF Coro!NoEntry
  <2> QED BY <1>1, <1>4, <2>1 DEF O_Armed, Runs, Told
<1> QED BY <1>6, <1>7, <1>8, <1>9 DEF O_Inv

\* Clients connect, send, read and leave.
LEMMA O_Caller == ASSUME O_Inv, NEW c \in Callers, Coro!CallerStep(c) PROVE O_Inv'
<1> USE O_Constants
<1>1. UNCHANGED <<fd, frame, cpc, epoll, events, o_running>>
  BY DEF Coro!CallerStep, Coro!Connect, Coro!Send, Coro!Drain, Coro!Leave
<1>2. O_Frames' /\ O_Armed' /\ O_Events'
  BY <1>1 DEF O_Inv, O_Frames, O_Armed, O_Events, Living, Waiting, Runs, Told
<1>3. O_TypeOK' /\ O_Backlog'
  <2>1. CASE Coro!Connect(c)
    <3>1. /\ caller[c] = "new" /\ caller' = [caller EXCEPT ![c] = "open"]
          /\ backlog' = Append(backlog, c)
      BY <2>1 DEF Coro!Connect
    <3>2. backlog \in Seq(Callers)
      BY DEF O_Inv, O_TypeOK
    <3>3. /\ backlog' \in Seq(Callers) /\ Len(backlog') = Len(backlog) + 1 /\ Len(backlog) \in Nat
          /\ backlog'[Len(backlog) + 1] = c
          /\ \A i \in 1 .. Len(backlog) : backlog'[i] = backlog[i]
      BY <3>1, <3>2, AppendProperties
    <3>4. O_TypeOK'
      BY <1>1, <3>1, <3>3 DEF O_Inv, O_TypeOK, Living
    <3>5. \A i \in 1 .. Len(backlog) : backlog[i] # c
      BY <3>1 DEF O_Inv, O_Backlog
    <3>6. /\ caller'[c] = "open" /\ cpc[c] = "none"
          /\ \A d \in Callers : d # c => caller'[d] = caller[d]
      BY <3>1 DEF O_Inv, O_TypeOK, O_Backlog
    <3>7. \A i \in 1 .. Len(backlog') : i = Len(backlog) + 1 \/ i \in 1 .. Len(backlog)
      BY <3>3
    <3>8. \A i \in 1 .. Len(backlog) : backlog[i] \in Callers
      BY <3>2
    <3>9. O_Backlog'
      BY <1>1, <3>3, <3>5, <3>6, <3>7, <3>8 DEF O_Inv, O_Backlog
    <3> QED BY <3>4, <3>9
  <2>2. CASE Coro!Send(c) \/ Coro!Drain(c)
    BY <1>1, <2>2 DEF Coro!Send, Coro!Drain, O_Inv, O_TypeOK, O_Backlog, Living
  <2>3. CASE Coro!Leave(c)
    <3>1. caller[c] = "open" /\ caller' = [caller EXCEPT ![c] = "gone"] /\ UNCHANGED backlog
      BY <2>3 DEF Coro!Leave
    <3>2. O_TypeOK'
      BY <1>1, <3>1 DEF O_Inv, O_TypeOK, Living
    <3>3. \A d \in Callers : caller'[d] = "new" <=> caller[d] = "new"
      BY <3>1 DEF O_Inv, O_TypeOK
    <3>4. \A i \in 1 .. Len(backlog) : backlog[i] \in Callers
      BY DEF O_Inv, O_TypeOK
    <3>5. O_Backlog'
      BY <1>1, <3>1, <3>3, <3>4 DEF O_Inv, O_Backlog
    <3> QED BY <3>2, <3>5
  <2> QED BY <2>1, <2>2, <2>3 DEF Coro!CallerStep
<1> QED BY <1>2, <1>3 DEF O_Inv

LEMMA O_Who ==
    ASSUME O_TypeOK
    PROVE  /\ Len(events) \in Nat
           /\ \A i \in 1 .. Len(events) : events[i].ptr \in Frames /\ events[i].who \in Coroutines
<1>1. events \in Seq([ptr : Frames, who : Callers \cup {"acceptor"}])
  BY DEF O_TypeOK
<1>2. \A i \in 1 .. Len(events) : events[i] \in [ptr : Frames, who : Callers \cup {"acceptor"}]
  BY <1>1, ElementOfSeq
<1> QED BY <1>1, <1>2 DEF Coroutines

\* A coroutine goes on without an await.
LEMMA O_Local ==
    ASSUME O_Inv, NEW c \in Callers, Coro!On(c), NEW l \in {"read", "write", "close"},
           cpc' = [cpc EXCEPT ![c] = l],
           UNCHANGED <<caller, backlog, fd, frame, epoll, events, o_running>>
    PROVE  O_Inv'
<1> USE O_Constants
<1>1. Runs(c) /\ Living(c)
  BY O_On DEF O_Inv, Coroutines
<1>2. /\ cpc'[c] = l /\ \A d \in Callers : d # c => cpc'[d] = cpc[d]
  BY DEF O_Inv, O_TypeOK
<1>3. \A d \in Callers : /\ Living(d)' <=> Living(d)
                         /\ ~Runs(d) => (Waiting(d)' <=> Waiting(d))
                         /\ cpc[d] = "none" <=> cpc'[d] = "none"
  BY <1>1, <1>2 DEF Living, Waiting
<1>4. \A x : (Runs(x)' <=> Runs(x)) /\ (Told(x)' <=> Told(x))
  BY DEF Runs, Told
<1>5. O_TypeOK'
  <2>1. cpc' \in [Callers -> {"none", "read", "reread", "write", "rewrite", "close", "closed"}]
    BY DEF O_Inv, O_TypeOK
  <2> QED BY <1>3, <2>1 DEF O_Inv, O_TypeOK
<1>6. O_Frames'
  BY <1>3 DEF O_Inv, O_Frames
<1>7. O_Backlog'
  <2>1. \A i \in 1 .. Len(backlog) : backlog[i] \in Callers
    BY DEF O_Inv, O_TypeOK
  <2> QED BY <1>3, <2>1 DEF O_Inv, O_Backlog
<1>8. O_Armed'
  BY <1>3, <1>4 DEF O_Inv, O_Armed
<1>9. O_Events'
  <2>1. \A i \in 1 .. Len(events) : events[i].who \in Callers \cup {"acceptor"}
    BY O_Who DEF O_Inv, Coroutines
  <2> QED BY <1>3, <1>4, <2>1 DEF O_Inv, O_Events
<1> QED BY <1>5, <1>6, <1>7, <1>8, <1>9 DEF O_Inv

\* await_suspend() of a client's coroutine.
LEMMA O_Suspend ==
    ASSUME O_Inv, NEW c \in Callers, Coro!On(c), NEW l \in {"reread", "rewrite"},
           NEW w \in {"in", "out"}, Coro!Suspend(fd[c], c, w),
           cpc' = [cpc EXCEPT ![c] = l], UNCHANGED <<caller, backlog, fd, frame, events>>
    PROVE  O_Inv'
<1> USE O_Constants
<1>1. Runs(c) /\ Living(c)
  BY O_On DEF O_Inv, Coroutines
<1>2. o_running' \in {<<>>, <<"acceptor">>} /\ \A x : Runs(x)' => Runs(x) /\ x # c
  BY O_Return DEF Coro!Suspend, O_Inv, Coroutines
<1>3. fd[c] \in Fds /\ \E a \in Frames : frame[a] = c
  BY <1>1 DEF O_Inv, O_Frames, O_TypeOK
<1> DEFINE p == Coro!Address(c)
<1>4. p \in Frames /\ frame[p] = c
  BY <1>3 DEF Coro!Address
<1>5. epoll' = [epoll EXCEPT ![fd[c]] = [ptr |-> p, want |-> w]]
  BY DEF Coro!Suspend
<1> HIDE DEF p
<1>6. /\ epoll'[fd[c]].ptr = p
      /\ \A f \in Fds \cup {Coro!Listener} : f # fd[c] => epoll'[f] = epoll[f]
  BY <1>3, <1>5 DEF O_Inv, O_TypeOK
<1>7. /\ cpc'[c] = l /\ \A d \in Callers : d # c => cpc'[d] = cpc[d]
  BY DEF O_Inv, O_TypeOK
<1>8. \A d \in Callers : /\ Living(d)' <=> Living(d)
                         /\ Waiting(d) => Waiting(d)'
                         /\ cpc[d] = "none" <=> cpc'[d] = "none"
  BY <1>1, <1>7 DEF Living, Waiting
<1>9. \A x : Told(x)' <=> Told(x)
  BY DEF Told
<1>10. ~Told(c)
  BY <1>1 DEF Told, O_Inv, O_Events
<1>11. O_TypeOK'
  <2>1. cpc' \in [Callers -> {"none", "read", "reread", "write", "rewrite", "close", "closed"}]
    BY DEF O_Inv, O_TypeOK
  <2>2. epoll' \in [Fds \cup {Coro!Listener} -> [ptr : Frames \cup {Nobody},
                                                 want : {"none", "in", "out"}]]
    BY <1>3, <1>4, <1>5 DEF O_Inv, O_TypeOK
  <2> QED BY <1>2, <2>1, <2>2 DEF O_Inv, O_TypeOK
<1>12. O_Frames'
  BY <1>8 DEF O_Inv, O_Frames
<1>13. O_Backlog'
  <2>1. \A i \in 1 .. Len(backlog) : backlog[i] \in Callers
    BY DEF O_Inv, O_TypeOK
  <2> QED BY <1>8, <2>1 DEF O_Inv, O_Backlog
<1>14. O_Armed'
  <2>1. ASSUME NEW f \in Fds, epoll'[f].want # "none"
        PROVE  \E d \in Callers : /\ fd[d] = f /\ Waiting(d)' /\ ~Runs(d)' /\ ~Told(d)'
                                  /\ epoll'[f].ptr \in Frames /\ frame[epoll'[f].ptr] = d
    <3>1. CASE f = fd[c]
      <4>1. Waiting(c)'
        BY <1>7 DEF Waiting
      <4> QED BY <1>2, <1>4, <1>6, <1>9, <1>10, <3>1, <4>1
    <3>2. CASE f # fd[c]
      <4>1. epoll'[f] = epoll[f]
        BY <1>6, <3>2
      <4>2. PICK d \in Callers : /\ fd[d] = f /\ Waiting(d) /\ ~Runs(d) /\ ~Told(d)
                                 /\ epoll[f].ptr \in Frames /\ frame[epoll[f].ptr] = d
        BY <2>1, <4>1 DEF O_Inv, O_Armed
      <4> QED BY <1>2, <1>8, <1>9, <4>1, <4>2
    <3> QED BY <3>1, <3>2
  <2>2. epoll'[Coro!Listener] = epoll[Coro!Listener]
    BY <1>3, <1>6
  <2>3. epoll'[Coro!Listener].want # "none" =>
            /\ epoll'[Coro!Listener].ptr \in Frames
            /\ frame[epoll'[Coro!Listener].ptr] = "acceptor"
            /\ ~Runs("acceptor")' /\ ~Told("acceptor")'
    BY <1>2, <1>9, <2>2 DEF O_Inv, O_Armed
  <2> QED BY <2>1, <2>3 DEF O_Armed
<1>15. O_Events'
  <2>1. \A i \in 1 .. Len(events) : events[i].who \in Callers \cup {"acceptor"}
    BY O_Who DEF O_Inv, Coroutines
  <2> QED BY <1>2, <1>8, <2>1 DEF O_Inv, O_Events
<1> QED BY <1>11, <1>12, <1>13, <1>14, <1>15 DEF O_Inv

LEMMA O_Client ==
    ASSUME O_Inv, NEW c \in Callers,
           Coro!Read(c) \/ Coro!AwaitRead(c) \/ Coro!Write(c) \/ Coro!AwaitWrite(c)
    PROVE  O_Inv'
<1>1. CASE Coro!Read(c)
  <2>1. /\ Coro!On(c) /\ UNCHANGED <<caller, backlog, fd, frame, epoll, events, o_running>>
        /\ \E l \in {"read", "write", "close"} : cpc' = [cpc EXCEPT ![c] = l]
    BY <1>1 DEF Coro!Read, Coro!Goto
  <2> QED BY <2>1, O_Local
<1>2. CASE Coro!Write(c)
  <2>1. /\ Coro!On(c) /\ UNCHANGED <<caller, backlog, fd, frame, epoll, events, o_running>>
        /\ \E l \in {"read", "write", "close"} : cpc' = [cpc EXCEPT ![c] = l]
    BY <1>2 DEF Coro!Write, Coro!Goto
  <2> QED BY <2>1, O_Local
<1>3. CASE Coro!AwaitRead(c)
  <2>1. /\ Coro!On(c) /\ UNCHANGED <<caller, backlog, fd, frame, events>>
        /\ cpc' = [cpc EXCEPT ![c] = "reread"] /\ Coro!Suspend(fd[c], c, "in")
    BY <1>3 DEF Coro!AwaitRead, Coro!Goto, Coro!sockets
  <2> QED BY <2>1, O_Suspend
<1>4. CASE Coro!AwaitWrite(c)
  <2>1. /\ Coro!On(c) /\ UNCHANGED <<caller, backlog, fd, frame, events>>
        /\ cpc' = [cpc EXCEPT ![c] = "rewrite"] /\ Coro!Suspend(fd[c], c, "out")
    BY <1>4 DEF Coro!AwaitWrite, Coro!Goto, Coro!sockets
  <2> QED BY <2>1, O_Suspend
<1> QED BY <1>1, <1>2, <1>3, <1>4

\* The coroutine an armed descriptor belongs to.
Wakes(f) == IF f = Coro!Listener THEN "acceptor" ELSE Coro!Owner(f)

LEMMA O_Wakes ==
    ASSUME O_Inv, NEW f \in Fds \cup {Coro!Listener}, epoll[f].want # "none"
    PROVE  /\ epoll[f].ptr \in Frames /\ frame[epoll[f].ptr] = Wakes(f)
           /\ ~Runs(Wakes(f)) /\ ~Told(Wakes(f))
           /\ IF f = Coro!Listener THEN Wakes(f) = "acceptor"
              ELSE Wakes(f) \in Callers /\ Waiting(Wakes(f)) /\ fd[Wakes(f)] = f
<1> USE O_Constants
<1>1. CASE f = Coro!Listener
  BY <1>1 DEF O_Inv, O_Armed, Wakes
<1>2. CASE f # Coro!Listener
  <2>1. PICK c \in Callers : /\ fd[c] = f /\ Waiting(c) /\ ~Runs(c) /\ ~Told(c)
                             /\ epoll[f].ptr \in Frames /\ frame[epoll[f].ptr] = c
    BY <1>2 DEF O_Inv, O_Armed
  <2>2. Living(c)
    BY <2>1 DEF Living, Waiting
  <2>3. Coro!Owner(f) = c
    <3>1. \A d \in Callers : fd[d] = f => d = c
      BY <2>1, <2>2 DEF O_Inv, O_Frames
    <3> QED BY <2>1, <3>1 DEF Coro!Owner
  <2> QED BY <1>2, <2>1, <2>3 DEF Wakes
<1> QED BY <1>1, <1>2

LEMMA O_EpollWait == ASSUME O_Inv, Coro!EpollWait PROVE O_Inv'
<1> USE O_Constants
<1> DEFINE ready == {f \in DOMAIN epoll : Coro!Ready(f)}
           n == Coro!Cardinality(ready)
<1>1. /\ o_running = <<>> /\ events = <<>>
      /\ UNCHANGED <<caller, backlog, fd, frame, cpc, o_running>>
  BY DEF Coro!EpollWait, Coro!sockets
<1>2. PICK s \in Coro!SetToSeqs(ready) :
         events' = [i \in DOMAIN s |->
             [ptr |-> epoll[s[i]].ptr,
              who |-> IF s[i] = Coro!Listener THEN "acceptor" ELSE Coro!Owner(s[i])]]
  BY DEF Coro!EpollWait
<1>3. epoll' = [f \in DOMAIN epoll |->
                   IF f \in ready THEN [epoll[f] EXCEPT !.want = "none"] ELSE epoll[f]]
  BY DEF Coro!EpollWait
<1>4. DOMAIN epoll = Fds \cup {Coro!Listener} /\ ready \subseteq Fds \cup {Coro!Listener}
  BY DEF O_Inv, O_TypeOK
<1>5. \A f \in ready : epoll[f].want # "none"
  BY DEF Coro!Ready
<1>6. n \in Nat
  <2>1. IsFiniteSet(Fds \cup {Coro!Listener})
    BY FS_Singleton, FS_Union
  <2>2. IsFiniteSet(ready)
    BY <1>4, <2>1, FS_Subset
  <2>3. Cardinality(ready) \in Nat
    BY <2>2, FS_CardinalityType
  <2> QED BY <2>3 DEF Coro!Cardinality, Cardinality
<1>7. /\ s \in [1 .. n -> ready]
      /\ \A i, j \in 1 .. n : i # j => s[i] # s[j]
  BY DEF Coro!SetToSeqs
<1> HIDE DEF ready, n
<1>8. events' = [i \in 1 .. n |-> [ptr |-> epoll[s[i]].ptr, who |-> Wakes(s[i])]]
  BY <1>2, <1>7 DEF Wakes
<1>9. \A f \in ready : /\ epoll[f].ptr \in Frames /\ frame[epoll[f].ptr] = Wakes(f)
                       /\ Wakes(f) \in Coroutines
                       /\ Wakes(f) = "acceptor" \/ Waiting(Wakes(f))
  BY <1>4, <1>5, O_Wakes DEF Coroutines
<1>10. \A f, g \in Fds \cup {Coro!Listener} :
          epoll[f].want # "none" /\ epoll[g].want # "none" /\ Wakes(f) = Wakes(g) => f = g
  BY O_Wakes
<1>11. /\ events' \in Seq([ptr : Frames, who : Callers \cup {"acceptor"}]) /\ Len(events') = n
       /\ \A i \in 1 .. n : events'[i].ptr = epoll[s[i]].ptr /\ events'[i].who = Wakes(s[i])
  <2>1. \A i \in 1 .. n : [ptr |-> epoll[s[i]].ptr, who |-> Wakes(s[i])]
                             \in [ptr : Frames, who : Callers \cup {"acceptor"}]
    BY <1>7, <1>9 DEF Coroutines
  <2>2. events' \in [1 .. n -> [ptr : Frames, who : Callers \cup {"acceptor"}]]
    BY <1>8, <2>1
  <2>3. events' \in Seq([ptr : Frames, who : Callers \cup {"acceptor"}]) /\ Len(events') = n
    <3> DEFINE T == [ptr : Frames, who : Callers \cup {"acceptor"}]
    <3>1. events' \in [1 .. n -> T]
      BY <2>2
    <3> HIDE DEF T
    <3>2. events' \in Seq(T) /\ Len(events') = n
      BY <1>6, <3>1
    <3> QED BY <3>2 DEF T
  <2> QED BY <1>8, <2>3
<1>12. /\ epoll' \in [Fds \cup {Coro!Listener} -> [ptr : Frames \cup {Nobody},
                                                   want : {"none", "in", "out"}]]
       /\ \A f \in Fds \cup {Coro!Listener} :
             epoll'[f].want # "none" => f \notin ready /\ epoll'[f] = epoll[f]
  <2>1. \A f \in Fds \cup {Coro!Listener} :
           /\ epoll[f] \in [ptr : Frames \cup {Nobody}, want : {"none", "in", "out"}]
           /\ [epoll[f] EXCEPT !.want = "none"]
                 \in [ptr : Frames \cup {Nobody}, want : {"none", "in", "out"}]
           /\ [epoll[f] EXCEPT !.want = "none"].want = "none"
    BY DEF O_Inv, O_TypeOK
  <2>2. \A f \in Fds \cup {Coro!Listener} :
           epoll'[f] = IF f \in ready THEN [epoll[f] EXCEPT !.want = "none"] ELSE epoll[f]
    BY <1>3, <1>4
  <2>3. epoll' \in [Fds \cup {Coro!Listener} -> [ptr : Frames \cup {Nobody},
                                                 want : {"none", "in", "out"}]]
    BY <1>3, <1>4, <2>1
  <2> QED BY <2>1, <2>2, <2>3
<1>13. O_TypeOK'
  BY <1>1, <1>11, <1>12 DEF O_Inv, O_TypeOK
<1>14. O_Frames' /\ O_Backlog'
  BY <1>1 DEF O_Inv, O_Frames, O_Backlog, Living
<1>15. \A x : ~Runs(x)'
  BY <1>1 DEF Runs
<1>16. O_Armed'
  <2>1. ASSUME NEW f \in Fds \cup {Coro!Listener}, epoll'[f].want # "none"
        PROVE  ~Told(Wakes(f))' /\ epoll'[f] = epoll[f] /\ epoll[f].want # "none"
    <3>1. f \notin ready /\ epoll'[f] = epoll[f]
      BY <1>12, <2>1
    <3>2. \A i \in 1 .. n : Wakes(s[i]) # Wakes(f)
      <4> TAKE i \in 1 .. n
      <4>1. s[i] \in ready /\ s[i] \in Fds \cup {Coro!Listener} /\ s[i] # f
        BY <1>4, <1>7, <3>1, ZenonT(40)
      <4>2. epoll[s[i]].want # "none" /\ epoll[f].want # "none"
        BY <1>5, <2>1, <3>1, <4>1 DEF ready
      <4> QED BY <1>10, <4>1, <4>2
    <3>3. Wakes(f)' = Wakes(f)
      BY <1>1 DEF Wakes, Coro!Owner
    <3> QED BY <1>11, <2>1, <3>1, <3>2, <3>3 DEF Told
  <2>2. \A f \in Fds : epoll'[f].want # "none" =>
          \E c \in Callers : /\ fd[c] = f /\ Waiting(c) /\ ~Told(c)'
                             /\ epoll'[f].ptr \in Frames /\ frame[epoll'[f].ptr] = c
    <3> TAKE f \in Fds
    <3> HAVE epoll'[f].want # "none"
    <3>1. ~Told(Wakes(f))' /\ epoll'[f] = epoll[f] /\ epoll[f].want # "none"
      BY <2>1
    <3>2. /\ epoll[f].ptr \in Frames /\ frame[epoll[f].ptr] = Wakes(f)
          /\ Wakes(f) \in Callers /\ Waiting(Wakes(f)) /\ fd[Wakes(f)] = f
      BY <3>1, O_Wakes
    <3>3. Wakes(f)' = Wakes(f)
      BY <1>1 DEF Wakes, Coro!Owner
    <3>4. PICK c \in Callers : c = Wakes(f)
      BY <3>2
    <3>5. ~Told(c)'
      BY <3>1, <3>3, <3>4 DEF Told
    <3> QED BY <3>1, <3>2, <3>4, <3>5
  <2>3. epoll'[Coro!Listener].want # "none" =>
          /\ epoll'[Coro!Listener].ptr \in Frames
          /\ frame[epoll'[Coro!Listener].ptr] = "acceptor" /\ ~Told("acceptor")'
    BY <2>1, O_Wakes DEF Wakes
  <2> QED BY <1>1, <1>15, <2>2, <2>3 DEF O_Armed, Waiting
<1>17. O_Events'
  <2>1. \A i, j \in 1 .. n : Wakes(s[i]) = Wakes(s[j]) => i = j
    BY <1>4, <1>5, <1>7, <1>10 DEF ready
  <2>2. \A i \in 1 .. n : /\ frame[epoll[s[i]].ptr] = Wakes(s[i])
                          /\ Wakes(s[i]) = "acceptor" \/ Waiting(Wakes(s[i]))
    BY <1>7, <1>9
  <2> QED BY <1>1, <1>11, <1>15, <2>1, <2>2 DEF O_Events, Waiting
<1> QED BY <1>13, <1>14, <1>16, <1>17 DEF O_Inv

LEMMA O_Resume == ASSUME O_Inv, Coro!Resume PROVE O_Inv'
<1> USE O_Constants
<1> DEFINE e == events[1]
<1>1. /\ o_running = <<>> /\ events # <<>> /\ UNCHANGED <<caller, backlog, fd, frame, cpc, epoll>>
      /\ o_running' = <<frame[Head(events).ptr]>> /\ events' = Tail(events)
  BY DEF Coro!Resume, Coro!sockets
<1> DEFINE T == [ptr : Frames, who : Callers \cup {"acceptor"}]
<1>2. events \in Seq(T)
  BY DEF O_Inv, O_TypeOK
<1> HIDE DEF T
<1>3. /\ Head(events) = e /\ Len(events) \in Nat \ {0}
      /\ events' \in Seq(T) /\ Len(events') = Len(events) - 1
      /\ \A i \in 1 .. Len(events') : events'[i] = events[i + 1]
  BY <1>1, <1>2, HeadTailProperties
<1>4. /\ frame[e.ptr] = e.who /\ e.who \in Coroutines
      /\ e.who = "acceptor" \/ Waiting(e.who)
  BY <1>3, O_Who DEF O_Inv, O_Events
<1> HIDE DEF e
<1>5. o_running' = <<e.who>> /\ \A x : Runs(x)' <=> x = e.who
  <2>1. o_running' = <<e.who>>
    BY <1>1, <1>3, <1>4
  <2>2. Len(o_running') = 1 /\ o_running'[1] = e.who
    BY <2>1
  <2>3. 1 \in 1 .. 1 /\ \A i \in 1 .. 1 : i = 1
    OBVIOUS
  <2> QED BY <2>1, <2>2, <2>3 DEF Runs
<1>6. \A x : Told(x)' => Told(x) /\ x # e.who
  <2>1. \A i \in 1 .. Len(events') : i + 1 \in 1 .. Len(events) /\ i + 1 # 1
    BY <1>3
  <2>2. 1 \in 1 .. Len(events)
    BY <1>3
  <2> QED BY <1>3, <2>1, <2>2 DEF Told, O_Inv, O_Events, e
<1>7. Told(e.who) /\ \A x : ~Runs(x)
  <2>1. 1 \in 1 .. Len(events)
    BY <1>3
  <2> QED BY <1>1, <2>1 DEF Told, Runs, e
<1>8. O_TypeOK'
  <2>1. \A c \in Callers : c = e.who => Living(c)'
    BY <1>1, <1>4 DEF Waiting, Living
  <2>2. o_running' = <<"acceptor">> \/ \E c \in Callers : Living(c)' /\ o_running' = <<c>>
    BY <1>4, <1>5, <2>1 DEF Coroutines
  <2> QED BY <1>1, <1>3, <2>2 DEF O_Inv, O_TypeOK, T
<1>9. O_Frames' /\ O_Backlog'
  BY <1>1 DEF O_Inv, O_Frames, O_Backlog, Living
<1>10. O_Armed'
  <2>1. \A f \in Fds : epoll[f].want # "none" =>
          \E c \in Callers : /\ fd[c] = f /\ Waiting(c) /\ ~Told(c)
                             /\ epoll[f].ptr \in Frames /\ frame[epoll[f].ptr] = c
    BY DEF O_Inv, O_Armed
  <2>2. epoll[Coro!Listener].want # "none" =>
          /\ epoll[Coro!Listener].ptr \in Frames
          /\ frame[epoll[Coro!Listener].ptr] = "acceptor" /\ ~Told("acceptor")
    BY DEF O_Inv, O_Armed
  <2>3. \A x : ~Told(x) => ~Told(x)' /\ ~Runs(x)'
    BY <1>5, <1>6, <1>7
  <2> QED BY <1>1, <2>1, <2>2, <2>3 DEF O_Armed, Waiting
<1>11. O_Events'
  <2>1. \A i \in 1 .. Len(events') : i + 1 \in 1 .. Len(events) /\ i + 1 # 1 /\ i \in Int
    BY <1>3
  <2>2. \A x, i : i \in 1 .. Len(events') /\ events'[i].who = x => Told(x)'
    BY DEF Told
  <2>3. \A i \in 1 .. Len(events') :
           /\ frame[events'[i].ptr] = events'[i].who
           /\ events'[i].who = "acceptor" \/ Waiting(events'[i].who)
    BY <1>3, <2>1 DEF O_Inv, O_Events
  <2>4. \A i, j \in 1 .. Len(events') : events'[i].who = events'[j].who => i = j
    <3> TAKE i, j \in 1 .. Len(events')
    <3> HAVE events'[i].who = events'[j].who
    <3>1. i + 1 = j + 1
      BY <1>3, <2>1 DEF O_Inv, O_Events
    <3> QED BY <2>1, <3>1
  <2>5. \A x, i : i \in 1 .. Len(events') /\ events'[i].who = x => ~Runs(x)'
    BY <1>5, <1>6, <2>2
  <2>6. \A x, i : i \in 1 .. Len(events') /\ events'[i].who = x => x = "acceptor" \/ Waiting(x)'
    BY <1>1, <2>3 DEF Waiting
  <2> QED BY <1>1, <2>3, <2>4, <2>5, <2>6 DEF O_Events
<1> QED BY <1>8, <1>9, <1>10, <1>11 DEF O_Inv

LEMMA O_AwaitListener == ASSUME O_Inv, Coro!AwaitListener PROVE O_Inv'
<1> USE O_Constants
<1>1. /\ Coro!On("acceptor") /\ Coro!Suspend(Coro!Listener, "acceptor", "in")
      /\ UNCHANGED <<caller, backlog, fd, frame, cpc, events>>
  BY DEF Coro!AwaitListener, Coro!sockets
<1>2. Runs("acceptor")
  BY <1>1, O_On DEF O_Inv, Coroutines
<1>3. o_running' \in {<<>>, <<"acceptor">>} /\ \A x : Runs(x)' => Runs(x) /\ x # "acceptor"
  BY <1>1, O_Return DEF Coro!Suspend, O_Inv, Coroutines
<1> DEFINE p == Coro!Address("acceptor")
<1>4. p \in Frames /\ frame[p] = "acceptor"
  BY DEF Coro!Address, O_Inv, O_Frames
<1>5. epoll' = [epoll EXCEPT ![Coro!Listener] = [ptr |-> p, want |-> "in"]]
  BY <1>1 DEF Coro!Suspend
<1> HIDE DEF p
<1>6. epoll'[Coro!Listener].ptr = p /\ \A f \in Fds : epoll'[f] = epoll[f]
  BY <1>5 DEF O_Inv, O_TypeOK
<1>7. \A x : Told(x)' <=> Told(x)
  BY <1>1 DEF Told
<1>8. ~Told("acceptor")
  BY <1>2 DEF Told, O_Inv, O_Events
<1>9. O_TypeOK'
  <2>1. epoll' \in [Fds \cup {Coro!Listener} -> [ptr : Frames \cup {Nobody},
                                                 want : {"none", "in", "out"}]]
    BY <1>4, <1>5 DEF O_Inv, O_TypeOK
  <2> QED BY <1>1, <1>3, <2>1 DEF O_Inv, O_TypeOK
<1>10. O_Frames' /\ O_Backlog'
  BY <1>1 DEF O_Inv, O_Frames, O_Backlog, Living
<1>11. O_Armed'
  <2>1. \A f \in Fds : epoll[f].want # "none" =>
          \E c \in Callers : /\ fd[c] = f /\ Waiting(c) /\ ~Runs(c)' /\ ~Told(c)'
                             /\ epoll[f].ptr \in Frames /\ frame[epoll[f].ptr] = c
    <3> TAKE f \in Fds
    <3> HAVE epoll[f].want # "none"
    <3>1. PICK c \in Callers : /\ fd[c] = f /\ Waiting(c) /\ ~Runs(c) /\ ~Told(c)
                               /\ epoll[f].ptr \in Frames /\ frame[epoll[f].ptr] = c
      BY DEF O_Inv, O_Armed
    <3> QED BY <1>3, <1>7, <3>1
  <2> QED BY <1>1, <1>3, <1>4, <1>6, <1>7, <1>8, <2>1 DEF O_Armed, Waiting
<1>12. O_Events'
  BY <1>1, <1>3 DEF O_Inv, O_Events, Waiting
<1> QED BY <1>9, <1>10, <1>11, <1>12 DEF O_Inv

\* The first of the queue, and the rest.
LEMMA O_First ==
    ASSUME O_Inv, backlog # <<>>, backlog' = Tail(backlog)
    PROVE  /\ Head(backlog) \in Callers /\ backlog' \in Seq(Callers)
           /\ cpc[Head(backlog)] = "none" /\ caller[Head(backlog)] # "new"
           /\ \A i \in 1 .. Len(backlog') : /\ backlog'[i] \in Callers
                                            /\ backlog'[i] # Head(backlog)
                                            /\ cpc[backlog'[i]] = "none"
                                            /\ caller[backlog'[i]] # "new"
           /\ \A i, j \in 1 .. Len(backlog') : backlog'[i] = backlog'[j] => i = j
<1>1. backlog \in Seq(Callers)
  BY DEF O_Inv, O_TypeOK
<1>2. /\ Head(backlog) = backlog[1] /\ Len(backlog) \in Nat \ {0}
      /\ backlog' \in Seq(Callers) /\ Len(backlog') = Len(backlog) - 1
      /\ \A i \in 1 .. Len(backlog') : backlog'[i] = backlog[i + 1]
  BY <1>1, HeadTailProperties
<1>3. 1 \in 1 .. Len(backlog)
  BY <1>2
<1>4. \A i \in 1 .. Len(backlog') : i + 1 \in 1 .. Len(backlog) /\ i + 1 # 1 /\ i \in Int
  BY <1>2
<1>5. \A i \in 1 .. Len(backlog) : backlog[i] \in Callers
  BY <1>1
<1>6. \A i, j \in 1 .. Len(backlog') : backlog'[i] = backlog'[j] => i = j
  <2> TAKE i, j \in 1 .. Len(backlog')
  <2> HAVE backlog'[i] = backlog'[j]
  <2>1. i + 1 = j + 1
    BY <1>2, <1>4 DEF O_Inv, O_Backlog
  <2> QED BY <1>4, <2>1
<1>7. \A i \in 1 .. Len(backlog') : backlog'[i] # Head(backlog)
  BY <1>2, <1>3, <1>4 DEF O_Inv, O_Backlog
<1> QED BY <1>2, <1>3, <1>4, <1>5, <1>6, <1>7 DEF O_Inv, O_Backlog

LEMMA O_TooHigh == ASSUME O_Inv, Coro!AcceptTooHigh PROVE O_Inv'
<1> USE O_Constants
<1> DEFINE h == Head(backlog)
<1>1. /\ backlog # <<>> /\ backlog' = Tail(backlog) /\ cpc' = [cpc EXCEPT ![h] = "closed"]
      /\ caller' = [caller EXCEPT ![h] = "gone"]
      /\ UNCHANGED <<fd, frame, epoll, events, o_running>>
  BY DEF Coro!AcceptTooHigh, Coro!Goto
<1>2. PICK c \in Callers : c = h
  BY <1>1, O_First
<1>3. /\ cpc[c] = "none" /\ backlog' \in Seq(Callers)
      /\ \A i \in 1 .. Len(backlog') : /\ backlog'[i] \in Callers /\ backlog'[i] # c
                                       /\ cpc[backlog'[i]] = "none"
                                       /\ caller[backlog'[i]] # "new"
      /\ \A i, j \in 1 .. Len(backlog') : backlog'[i] = backlog'[j] => i = j
  BY <1>1, <1>2, O_First
<1>4. /\ cpc'[c] = "closed" /\ caller'[c] = "gone"
      /\ \A d \in Callers : d # c => cpc'[d] = cpc[d] /\ caller'[d] = caller[d]
      /\ caller' \in [Callers -> {"new", "open", "gone"}]
      /\ cpc' \in [Callers -> {"none", "read", "reread", "write", "rewrite", "close", "closed"}]
  BY <1>1, <1>2 DEF O_Inv, O_TypeOK
<1>5. \A d \in Callers : (Living(d)' <=> Living(d)) /\ (Waiting(d)' <=> Waiting(d))
  BY <1>3, <1>4 DEF Living, Waiting
<1>6. \A x : (Runs(x)' <=> Runs(x)) /\ (Told(x)' <=> Told(x))
  BY <1>1 DEF Runs, Told
<1>7. O_TypeOK'
  BY <1>1, <1>3, <1>4, <1>5 DEF O_Inv, O_TypeOK
<1>8. O_Frames'
  BY <1>1, <1>5 DEF O_Inv, O_Frames
<1>9. O_Backlog'
  BY <1>3, <1>4 DEF O_Inv, O_Backlog
<1>10. O_Armed'
  BY <1>1, <1>5, <1>6 DEF O_Inv, O_Armed
<1>11. O_Events'
  <2>1. \A i \in 1 .. Len(events) : events[i].who \in Callers \cup {"acceptor"}
    BY O_Who DEF O_Inv, Coroutines
  <2> QED BY <1>1, <1>5, <1>6, <2>1 DEF O_Inv, O_Events
<1> QED BY <1>7, <1>8, <1>9, <1>10, <1>11 DEF O_Inv

LEMMA O_Accept == ASSUME O_Inv, Coro!AcceptClient PROVE O_Inv'
<1> USE O_Constants
<1> DEFINE h == Head(backlog)
<1>1. /\ Coro!On("acceptor") /\ backlog # <<>> /\ backlog' = Tail(backlog)
      /\ Coro!FreeFds # {}
      /\ fd' = [fd EXCEPT ![h] = Coro!Min(Coro!FreeFds)] /\ cpc' = [cpc EXCEPT ![h] = "read"]
      /\ o_running' = Append(o_running, h) /\ UNCHANGED <<caller, epoll, events>>
  BY DEF Coro!AcceptClient, Coro!Goto, Coro!sockets
<1>2. PICK a \in Frames : frame[a] = Nobody /\ frame' = [frame EXCEPT ![a] = h]
  BY DEF Coro!AcceptClient
<1>3. PICK c \in Callers : c = h
  BY <1>1, O_First
<1>4. /\ cpc[c] = "none" /\ backlog' \in Seq(Callers) /\ caller[c] # "new"
      /\ \A i \in 1 .. Len(backlog') : /\ backlog'[i] \in Callers /\ backlog'[i] # c
                                       /\ cpc[backlog'[i]] = "none"
                                       /\ caller[backlog'[i]] # "new"
      /\ \A i, j \in 1 .. Len(backlog') : backlog'[i] = backlog'[j] => i = j
  BY <1>1, <1>3, O_First
<1>5. PICK n \in Fds : n = Coro!Min(Coro!FreeFds) /\ \A d \in Callers : fd[d] # n
  <2>1. Coro!FreeFds \in SUBSET Nat
    BY DEF Coro!FreeFds
  <2>2. \E x \in Coro!FreeFds : \A y \in Coro!FreeFds : x <= y
    BY <1>1, <2>1, LeastOf
  <2>3. Coro!Min(Coro!FreeFds) \in Coro!FreeFds
    BY <2>2 DEF Coro!Min
  <2> QED BY <2>3 DEF Coro!FreeFds
<1> HIDE DEF h
<1>6. /\ fd'[c] = n /\ cpc'[c] = "read" /\ frame'[a] = c
      /\ \A d \in Callers : d # c => fd'[d] = fd[d] /\ cpc'[d] = cpc[d]
      /\ \A b \in Frames : b # a => frame'[b] = frame[b]
      /\ fd' \in [Callers -> Fds \cup {Coro!Listener}]
      /\ frame' \in [Frames -> Callers \cup {"acceptor", Nobody}]
      /\ cpc' \in [Callers -> {"none", "read", "reread", "write", "rewrite", "close", "closed"}]
  BY <1>1, <1>2, <1>3, <1>5 DEF O_Inv, O_TypeOK
<1>7. o_running = <<"acceptor">> /\ o_running' = <<"acceptor", c>>
  <2>1. o_running = <<"acceptor">>
    BY <1>1, O_On DEF O_Inv, Coroutines
  <2>2. /\ <<"acceptor">> \in Seq(Coroutines) /\ Len(<<"acceptor">>) = 1
        /\ <<"acceptor">>[1] = "acceptor" /\ c \in Coroutines
        /\ <<"acceptor", c>> \in Seq(Coroutines) /\ Len(<<"acceptor", c>>) = 2
        /\ <<"acceptor", c>>[1] = "acceptor" /\ <<"acceptor", c>>[2] = c
    BY DEF Coroutines
  <2>3. PICK t : t = Append(<<"acceptor">>, c)
    OBVIOUS
  <2>4. t \in Seq(Coroutines) /\ Len(t) = 2 /\ t[1] = "acceptor" /\ t[2] = c
    BY <2>2, <2>3, AppendProperties
  <2>5. \A i \in 1 .. 2 : t[i] = <<"acceptor", c>>[i]
    <3>1. \A i \in 1 .. 2 : i = 1 \/ i = 2
      OBVIOUS
    <3> QED BY <2>2, <2>4, <3>1
  <2>6. t = <<"acceptor", c>>
    BY <2>2, <2>4, <2>5, SeqEqual
  <2> QED BY <1>1, <1>3, <2>1, <2>3, <2>6
<1>8. \A x : Runs(x)' => Runs(x) \/ x = c
  <2>1. Len(o_running') = 2 /\ o_running'[1] = "acceptor" /\ o_running'[2] = c
    BY <1>7
  <2>2. \A i \in 1 .. 2 : i = 1 \/ i = 2
    OBVIOUS
  <2>3. Runs("acceptor")
    BY <1>7, O_Stack
  <2> QED BY <2>1, <2>2, <2>3 DEF Runs
<1>9. \A d \in Callers : /\ Living(d)' <=> Living(d) \/ d = c
                         /\ d # c => (Waiting(d)' <=> Waiting(d))
  BY <1>6 DEF Living, Waiting
<1>10. ~Living(c) /\ ~Waiting(c) /\ \A b \in Frames : frame[b] # c
  BY <1>4 DEF Living, Waiting, O_Inv, O_Frames
<1>11. \A x : Told(x)' <=> Told(x)
  BY <1>1 DEF Told
<1>12. O_TypeOK'
  BY <1>1, <1>4, <1>6, <1>7, <1>9 DEF O_Inv, O_TypeOK
<1>13. O_Frames'
  <2>1. \A e, b \in Frames : frame'[e] = frame'[b] /\ frame'[e] # Nobody => e = b
    BY <1>6, <1>10 DEF O_Inv, O_Frames
  <2>2. \E e \in Frames : frame'[e] = "acceptor"
    <3>1. PICK e \in Frames : frame[e] = "acceptor"
      BY DEF O_Inv, O_Frames
    <3>2. e # a
      BY <1>2, <3>1
    <3> QED BY <1>6, <3>1, <3>2
  <2>3. ASSUME NEW d \in Callers, Living(d)'
        PROVE  fd'[d] # Coro!Listener /\ \E e \in Frames : frame'[e] = d
    <3>1. CASE d = c
      BY <1>5, <1>6, <3>1
    <3>2. CASE d # c
      <4>1. PICK e \in Frames : frame[e] = d
        BY <1>9, <2>3, <3>2 DEF O_Inv, O_Frames
      <4>2. e # a
        BY <1>2, <4>1
      <4> QED BY <1>6, <1>9, <2>3, <3>2, <4>1, <4>2 DEF O_Inv, O_Frames
    <3> QED BY <3>1, <3>2
  <2>4. \A e, d : e \in Frames /\ d = frame'[e] /\ d \in Callers => Living(d)'
    BY <1>6, <1>9 DEF O_Inv, O_Frames
  <2>5. \A d \in Callers : ~Living(d)' => fd'[d] = Coro!Listener
    BY <1>6, <1>9 DEF O_Inv, O_Frames
  <2>6. \A d, e \in Callers : fd'[d] = fd'[e] /\ Living(d)' => d = e
    BY <1>5, <1>6, <1>9 DEF O_Inv, O_Frames
  <2> QED BY <2>1, <2>2, <2>3, <2>4, <2>5, <2>6 DEF O_Frames
<1>14. O_Backlog'
  BY <1>1, <1>4, <1>6 DEF O_Inv, O_Backlog
<1>15. O_Armed'
  <2>1. ASSUME NEW f \in Fds, epoll[f].want # "none"
        PROVE  \E d \in Callers : /\ fd'[d] = f /\ Waiting(d)' /\ ~Runs(d)' /\ ~Told(d)'
                                  /\ epoll[f].ptr \in Frames /\ frame'[epoll[f].ptr] = d
    <3>1. PICK d \in Callers : /\ fd[d] = f /\ Waiting(d) /\ ~Runs(d) /\ ~Told(d)
                               /\ epoll[f].ptr \in Frames /\ frame[epoll[f].ptr] = d
      BY <2>1 DEF O_Inv, O_Armed
    <3>2. d # c /\ epoll[f].ptr # a
      BY <1>2, <1>10, <3>1
    <3> QED BY <1>6, <1>8, <1>9, <1>11, <3>1, <3>2
  <2>2. Runs("acceptor")
    BY <1>7, O_Stack
  <2>3. epoll[Coro!Listener].want = "none"
    BY <2>2 DEF O_Inv, O_Armed
  <2>4. epoll' = epoll
    BY <1>1
  <2>5. \A f \in Fds : epoll'[f].want # "none" =>
           \E d \in Callers : /\ fd'[d] = f /\ Waiting(d)' /\ ~Runs(d)' /\ ~Told(d)'
                              /\ epoll'[f].ptr \in Frames /\ frame'[epoll'[f].ptr] = d
    BY <2>1, <2>4
  <2>6. epoll'[Coro!Listener].want = "none"
    BY <2>3, <2>4
  <2> QED BY <2>5, <2>6, Zenon DEF O_Armed
<1>16. O_Events'
  <2>1. \A i \in 1 .. Len(events) : events[i].ptr \in Frames /\ events[i].who \in Callers \cup {"acceptor"}
    BY O_Who DEF O_Inv, Coroutines
  <2>2. \A i \in 1 .. Len(events) :
           /\ frame[events[i].ptr] = events[i].who /\ ~Runs(events[i].who)
           /\ events[i].who # c /\ events[i].ptr # a
           /\ events[i].who = "acceptor" \/ Waiting(events[i].who)
    BY <1>2, <1>10, <2>1 DEF O_Inv, O_Events
  <2>3. \A i \in 1 .. Len(events) :
           /\ frame'[events[i].ptr] = events[i].who
           /\ \A x : x = events[i].who => ~Runs(x)' /\ (x = "acceptor" \/ Waiting(x)')
    BY <1>6, <1>8, <1>9, <2>1, <2>2
  <2> QED BY <1>1, <2>3 DEF O_Inv, O_Events
<1> QED BY <1>12, <1>13, <1>14, <1>15, <1>16 DEF O_Inv

\* The frame of a coroutine that ends is nobody's in epoll or in events.
LEMMA O_Close == ASSUME O_Inv, NEW c \in Callers, Coro!Close(c) PROVE O_Inv'
<1> USE O_Constants
<1> DEFINE a == Coro!Address(c)
<1>1. /\ Coro!On(c) /\ Coro!Return /\ epoll' = [epoll EXCEPT ![fd[c]] = Coro!NoEntry]
      /\ fd' = [fd EXCEPT ![c] = Coro!Listener] /\ frame' = [frame EXCEPT ![a] = Nobody]
      /\ cpc' = [cpc EXCEPT ![c] = "closed"] /\ UNCHANGED <<caller, backlog, events>>
  BY DEF Coro!Close, Coro!Goto, Coro!sockets
<1>2. Runs(c) /\ Living(c)
  BY <1>1, O_On DEF O_Inv, Coroutines
<1>3. o_running' \in {<<>>, <<"acceptor">>} /\ \A x : Runs(x)' => Runs(x) /\ x # c
  BY <1>1, O_Return DEF O_Inv, Coroutines
<1>4. fd[c] \in Fds /\ \E b \in Frames : frame[b] = c
  BY <1>2 DEF O_Inv, O_Frames, O_TypeOK
<1>5. a \in Frames /\ frame[a] = c
  BY <1>4 DEF Coro!Address
<1> HIDE DEF a
<1>6. /\ fd'[c] = Coro!Listener /\ cpc'[c] = "closed" /\ frame'[a] = Nobody
      /\ \A d \in Callers : d # c => fd'[d] = fd[d] /\ cpc'[d] = cpc[d]
      /\ \A b \in Frames : b # a => frame'[b] = frame[b]
      /\ epoll'[fd[c]].want = "none"
      /\ \A f \in Fds \cup {Coro!Listener} : f # fd[c] => epoll'[f] = epoll[f]
  BY <1>1, <1>4, <1>5 DEF O_Inv, O_TypeOK, Coro!NoEntry
<1>7. \A d \in Callers : /\ Living(d)' <=> Living(d) /\ d # c
                         /\ d # c => (Waiting(d)' <=> Waiting(d))
  BY <1>6 DEF Living, Waiting
<1>8. \A x : Told(x)' <=> Told(x)
  BY <1>1 DEF Told
<1>9. ~Told(c)
  BY <1>2 DEF Told, O_Inv, O_Events
<1>10. O_TypeOK'
  <2>1. /\ cpc' \in [Callers -> {"none", "read", "reread", "write", "rewrite", "close", "closed"}]
        /\ fd' \in [Callers -> Fds \cup {Coro!Listener}]
        /\ frame' \in [Frames -> Callers \cup {"acceptor", Nobody}]
    BY <1>1, <1>5 DEF O_Inv, O_TypeOK
  <2>2. epoll' \in [Fds \cup {Coro!Listener} -> [ptr : Frames \cup {Nobody},
                                                 want : {"none", "in", "out"}]]
    BY <1>1, <1>4 DEF O_Inv, O_TypeOK, Coro!NoEntry
  <2> QED BY <1>1, <1>3, <2>1, <2>2 DEF O_Inv, O_TypeOK
<1>11. O_Frames'
  <2>1. \A e, b \in Frames : frame'[e] = frame'[b] /\ frame'[e] # Nobody => e = b
    BY <1>6 DEF O_Inv, O_Frames
  <2>2. \E e \in Frames : frame'[e] = "acceptor"
    <3>1. PICK e \in Frames : frame[e] = "acceptor"
      BY DEF O_Inv, O_Frames
    <3>2. e # a
      BY <1>5, <3>1
    <3> QED BY <1>6, <3>1, <3>2
  <2>3. ASSUME NEW d \in Callers, Living(d)'
        PROVE  fd'[d] # Coro!Listener /\ \E e \in Frames : frame'[e] = d
    <3>1. Living(d) /\ d # c
      BY <1>7, <2>3
    <3>2. PICK e \in Frames : frame[e] = d
      BY <3>1 DEF O_Inv, O_Frames
    <3>3. e # a
      BY <1>5, <3>1, <3>2
    <3> QED BY <1>6, <3>1, <3>2, <3>3 DEF O_Inv, O_Frames
  <2>4. \A e, d : e \in Frames /\ d = frame'[e] /\ d \in Callers => Living(d)'
    <3>1. \A e \in Frames : e # a => frame[e] # c
      BY <1>5 DEF O_Inv, O_Frames
    <3> QED BY <1>6, <1>7, <3>1 DEF O_Inv, O_Frames
  <2>5. \A d \in Callers : ~Living(d)' => fd'[d] = Coro!Listener
    BY <1>6, <1>7 DEF O_Inv, O_Frames
  <2>6. \A d, e \in Callers : fd'[d] = fd'[e] /\ Living(d)' => d = e
    BY <1>6, <1>7 DEF O_Inv, O_Frames
  <2> QED BY <2>1, <2>2, <2>3, <2>4, <2>5, <2>6 DEF O_Frames
<1>12. O_Backlog'
  <2>1. \A i \in 1 .. Len(backlog) : backlog[i] \in Callers /\ backlog[i] # c
    BY <1>2 DEF O_Inv, O_TypeOK, O_Backlog, Living
  <2>2. caller[c] # "new"
    BY <1>2 DEF O_Inv, O_Backlog, Living
  <2> QED BY <1>1, <1>6, <2>1, <2>2 DEF O_Inv, O_Backlog
<1>13. O_Armed'
  <2>1. ASSUME NEW f \in Fds, epoll'[f].want # "none"
        PROVE  \E d \in Callers : /\ fd'[d] = f /\ Waiting(d)' /\ ~Runs(d)' /\ ~Told(d)'
                                  /\ epoll'[f].ptr \in Frames /\ frame'[epoll'[f].ptr] = d
    <3>1. f # fd[c] /\ epoll'[f] = epoll[f]
      BY <1>6, <2>1
    <3>2. PICK d \in Callers : /\ fd[d] = f /\ Waiting(d) /\ ~Runs(d) /\ ~Told(d)
                               /\ epoll[f].ptr \in Frames /\ frame[epoll[f].ptr] = d
      BY <2>1, <3>1 DEF O_Inv, O_Armed
    <3>3. d # c /\ epoll[f].ptr # a
      BY <1>5, <3>1, <3>2
    <3> QED BY <1>3, <1>6, <1>7, <1>8, <3>1, <3>2, <3>3
  <2>2. epoll'[Coro!Listener] = epoll[Coro!Listener]
    BY <1>4, <1>6
  <2>3. epoll'[Coro!Listener].want # "none" =>
            /\ epoll'[Coro!Listener].ptr \in Frames
            /\ frame'[epoll'[Coro!Listener].ptr] = "acceptor"
            /\ ~Runs("acceptor")' /\ ~Told("acceptor")'
    BY <1>3, <1>5, <1>6, <1>8, <2>2 DEF O_Inv, O_Armed
  <2> QED BY <2>1, <2>3 DEF O_Armed
<1>14. O_Events'
  <2>1. \A i \in 1 .. Len(events) : events[i].ptr \in Frames /\ events[i].who \in Callers \cup {"acceptor"}
    BY O_Who DEF O_Inv, Coroutines
  <2>2. \A i \in 1 .. Len(events) :
           /\ frame[events[i].ptr] = events[i].who /\ ~Runs(events[i].who)
           /\ events[i].who # c /\ events[i].ptr # a
           /\ events[i].who = "acceptor" \/ Waiting(events[i].who)
    BY <1>2, <1>5, <2>1 DEF O_Inv, O_Events
  <2>3. \A i \in 1 .. Len(events) :
           /\ frame'[events[i].ptr] = events[i].who
           /\ \A x : x = events[i].who => ~Runs(x)' /\ (x = "acceptor" \/ Waiting(x)')
    BY <1>3, <1>6, <1>7, <2>1, <2>2
  <2> QED BY <1>1, <2>3 DEF O_Inv, O_Events
<1> QED BY <1>10, <1>11, <1>12, <1>13, <1>14 DEF O_Inv

\* An event resumes the coroutine it is for: whatever the coroutines resumed
\* before it in the same batch did, its frame has not been freed nor given to
\* another client, and it waits in an await (dumb_coro.cpp:62-70, 143-146,
\* 276-285), for any number of clients, descriptors and frames.
THEOREM EventsFindTheirCoroutine == Coro!Spec => []EventsOfTheLiving
<1>1. O_Inv /\ [Coro!Next]_Coro!vars => O_Inv'
  <2> SUFFICES ASSUME O_Inv, [Coro!Next]_Coro!vars PROVE O_Inv'
    OBVIOUS
  <2>1. CASE Coro!EpollWait \/ Coro!Resume \/ Coro!AcceptorStep
    BY <2>1, O_EpollWait, O_Resume, O_Accept, O_TooHigh, O_AwaitListener DEF Coro!AcceptorStep
  <2>2. ASSUME NEW c \in Callers, Coro!Coroutine(c) PROVE O_Inv'
    BY <2>2, O_Client, O_Close DEF Coro!Coroutine
  <2>3. ASSUME NEW c \in Callers, Coro!CallerStep(c) PROVE O_Inv'
    BY <2>3, O_Caller
  <2>4. CASE UNCHANGED Coro!vars
    <3>1. UNCHANGED <<caller, backlog, fd, frame, cpc, epoll, events, o_running>>
      BY <2>4 DEF Coro!vars, Coro!sockets
    <3>2. O_TypeOK' /\ O_Frames' /\ O_Backlog'
      BY <3>1 DEF O_Inv, O_TypeOK, O_Frames, O_Backlog, Living
    <3>3. O_Armed' /\ O_Events'
      BY <3>1 DEF O_Inv, O_Armed, O_Events, Waiting, Runs, Told
    <3> QED BY <3>2, <3>3 DEF O_Inv
  <2> QED BY <2>1, <2>2, <2>3, <2>4 DEF Coro!Next, Coro!WorkerStep
<1>2. O_Inv => EventsOfTheLiving
  <2> SUFFICES ASSUME O_Inv PROVE EventsOfTheLiving
    OBVIOUS
  <2>1. DOMAIN events = 1 .. Len(events)
    BY DEF O_Inv, O_TypeOK
  <2> QED BY <2>1 DEF O_Inv, O_Events, Waiting, EventsOfTheLiving, Coro!EventsOfTheLiving
<1> QED BY <1>1, <1>2, O_Init, PTL DEF Coro!Spec

-----------------------------------------------------------------------------
(* l6-2_server.c and l6-2_client.c *)

\* The operators of MineField's sums are those of SumLemmas.
LEMMA FieldSum == ASSUME NEW f PROVE Field!SumFunction(f) = SumFunctionOnSet(f, DOMAIN f)
BY Zenon DEF Field!SumFunction, Field!SumFunctionOnSet, Field!FoldFunctionOnSet, Field!MapThenFoldSet,
             SumFunctionOnSet, FoldFunctionOnSet, MapThenFoldSet

F_Places == {"test", "lock", "waiting", "locked", "found", "sleep", "destroy", "oops", "over", "error"}

F_TypeOK == /\ board \in [Fields -> Nat] /\ score \in [FieldPlayers -> Nat]
            /\ fpc \in [Field!Lockers -> F_Places]
            /\ seen \in [FieldPlayers -> {<<>>} \cup (Fields \X Nat)]

\* Whoever locks the mutex of a dead owner makes it consistent, so it is either
\* sound or destroyed; and only a destroyed one is refused.
F_Mutex == /\ mutexState \in {"ok", "destroyed"}
           /\ (\E t \in Field!Lockers : fpc[t] = "error") => mutexState = "destroyed"

\* Who is between lock and unlock owns the mutex, destroyed or not; so what a
\* player has read is still on the board when it takes it.
F_Owner == \A t \in Field!Lockers : fpc[t] \in {"locked", "found"} => owner = t
F_Found == \A p \in FieldPlayers : fpc[p] = "found" => \E f \in Fields : seen[p] = <<f, board[f]>>

F_Total == SumFunctionOnSet(board, Fields) + SumFunctionOnSet(score, FieldPlayers)
             = SumFunctionOnSet(Points, Fields)

F_Inv == F_TypeOK /\ F_Mutex /\ F_Owner /\ F_Found /\ F_Total

LEMMA F_Finite == /\ IsFiniteSet(Fields) /\ IsFiniteSet(FieldPlayers)
                  /\ Points \in [Fields -> 1 .. 9] /\ Server \notin FieldPlayers
                  /\ Free \notin FieldPlayers \cup {Server}
BY ProgramsAssumption DEF Field!FieldConstants, Field!IsFiniteSet, IsFiniteSet

LEMMA F_InvInit == Field!Init => F_Inv
<1> SUFFICES ASSUME Field!Init PROVE F_Inv
  OBVIOUS
<1>1. F_TypeOK
  BY F_Finite DEF F_TypeOK, F_Places, Field!Init, Field!Lockers
<1>2. F_Mutex /\ F_Owner /\ F_Found
  BY F_Finite DEF F_Mutex, F_Owner, F_Found, Field!Init, Field!Lockers
<1>3. board = Points /\ \A p \in FieldPlayers : score[p] = 0
  BY DEF Field!Init
<1>4. SumFunctionOnSet(score, FieldPlayers) = 0 * Cardinality(FieldPlayers)
  BY <1>3, F_Finite, SumOfEqual
<1>5. Cardinality(FieldPlayers) \in Nat /\ SumFunctionOnSet(Points, Fields) \in Int
  <2>1. \A f \in Fields : Points[f] \in Int
    BY F_Finite
  <2> QED BY <2>1, F_Finite, FS_CardinalityType, SumType
<1>6. F_Total
  BY <1>3, <1>4, <1>5 DEF F_Total
<1> QED BY <1>1, <1>2, <1>6 DEF F_Inv

\* What a player has found goes from the board to its score.
LEMMA F_Take == ASSUME F_Inv, NEW p \in FieldPlayers, Field!Take(p) PROVE F_Inv'
<1>1. PICK f \in Fields : seen[p] = <<f, board[f]>>
  BY DEF F_Inv, F_Found, Field!Take
<1>2. /\ score' = [score EXCEPT ![p] = @ + board[f]]
      /\ board' = [board EXCEPT ![f] = 0]
      /\ seen' = [seen EXCEPT ![p] = <<>>]
      /\ Field!Goto(p, "sleep") /\ Field!Unlock /\ fpc[p] = "found"
  BY <1>1 DEF Field!Take
<1>3. board \in [Fields -> Nat] /\ score \in [FieldPlayers -> Nat] /\ p \in Field!Lockers
  BY DEF F_Inv, F_TypeOK, Field!Lockers
<1>4. board' \in [Fields -> Nat] /\ score' \in [FieldPlayers -> Nat]
  BY <1>2, <1>3
<1>5. /\ \A g \in Fields : board[g] \in Int /\ board'[g] \in Int
      /\ \A q \in FieldPlayers : score[q] \in Int /\ score'[q] \in Int
  BY <1>3, <1>4
<1>6. SumFunctionOnSet(board', Fields) = SumFunctionOnSet(board, Fields) + (0 - board[f])
  <2> DEFINE n == 0
  <2>1. IsFiniteSet(Fields) /\ board \in [Fields -> Int] /\ n \in Int
    BY <1>3, F_Finite
  <2>2. board' = [board EXCEPT ![f] = n]
    BY <1>2
  <2> HIDE DEF n
  <2>3. SumFunctionOnSet([board EXCEPT ![f] = n], Fields)
          = SumFunctionOnSet(board, Fields) + (n - board[f])
    BY <2>1, SumExcept
  <2> QED BY <2>2, <2>3 DEF n
<1>7. SumFunctionOnSet(score', FieldPlayers)
        = SumFunctionOnSet(score, FieldPlayers) + ((score[p] + board[f]) - score[p])
  <2> DEFINE n == score[p] + board[f]
  <2>1. IsFiniteSet(FieldPlayers) /\ score \in [FieldPlayers -> Int] /\ n \in Int
    BY <1>3, F_Finite
  <2>2. score' = [score EXCEPT ![p] = n]
    BY <1>2
  <2> HIDE DEF n
  <2>3. SumFunctionOnSet([score EXCEPT ![p] = n], FieldPlayers)
          = SumFunctionOnSet(score, FieldPlayers) + (n - score[p])
    BY <2>1, SumExcept
  <2> QED BY <2>2, <2>3 DEF n
<1>8. SumFunctionOnSet(board, Fields) \in Int /\ SumFunctionOnSet(score, FieldPlayers) \in Int
  BY <1>5, F_Finite, SumType
<1>9. board[f] \in Int /\ score[p] \in Int
  BY <1>3
<1>10. F_Total'
  BY <1>6, <1>7, <1>8, <1>9 DEF F_Inv, F_Total
<1>11. fpc'[p] = "sleep" /\ \A t \in Field!Lockers : t # p => fpc'[t] = fpc[t]
  BY <1>2, <1>3 DEF F_Inv, F_TypeOK, Field!Goto
<1>12. F_TypeOK'
  BY <1>2, <1>4 DEF F_Inv, F_TypeOK, F_Places, Field!Goto
<1>13. F_Mutex'
  BY <1>2, <1>3, <1>11 DEF F_Inv, F_Mutex, Field!Unlock
<1>14. \A t \in Field!Lockers : t # p => fpc[t] \notin {"locked", "found"}
  BY <1>2, <1>3 DEF F_Inv, F_Owner
<1>15. F_Owner' /\ F_Found'
  BY <1>11, <1>14 DEF F_Owner, F_Found, Field!Lockers
<1> QED BY <1>10, <1>12, <1>13, <1>15 DEF F_Inv

\* Steps that leave board, scores and findings alone.
LEMMA F_Moves ==
    ASSUME F_Inv, UNCHANGED <<board, score, seen>>,
           NEW t \in Field!Lockers, NEW l \in F_Places \ {"found"}, Field!Goto(t, l),
           mutexState' \in {mutexState, "destroyed"},
           l = "error" => mutexState' = "destroyed",
           l = "locked" => owner' = t,
           \A u \in Field!Lockers : u # t /\ fpc[u] \in {"locked", "found"} => owner' = u
    PROVE  F_Inv'
<1>1. fpc'[t] = l /\ \A u \in Field!Lockers : u # t => fpc'[u] = fpc[u]
  BY DEF F_Inv, F_TypeOK, Field!Goto
<1>2. F_TypeOK' /\ F_Total'
  BY DEF F_Inv, F_TypeOK, F_Total, Field!Goto
<1>3. F_Mutex'
  BY <1>1 DEF F_Inv, F_Mutex
<1>4. F_Owner' /\ F_Found'
  BY <1>1 DEF F_Inv, F_Owner, F_Found, Field!Lockers
<1> QED BY <1>2, <1>3, <1>4 DEF F_Inv

LEMMA F_InvStep == F_Inv /\ [Field!Next]_(Field!vars) => F_Inv'
<1> SUFFICES ASSUME F_Inv, [Field!Next]_(Field!vars) PROVE F_Inv'
  OBVIOUS
<1>1. Server \in Field!Lockers /\ FieldPlayers \subseteq Field!Lockers
  BY DEF Field!Lockers
<1>2. CASE UNCHANGED Field!vars \/ Field!SigInt \/ Field!sighandling
  BY <1>2 DEF F_Inv, F_TypeOK, F_Mutex, F_Owner, F_Found, F_Total, Field!vars, Field!SigInt,
              Field!sighandling
<1>3. \A t \in Field!Lockers : fpc[t] \in {"locked", "found"} => owner = t
  BY DEF F_Inv, F_Owner
<1>4. ASSUME NEW t \in Field!Lockers, Field!Enter(t) PROVE F_Inv'
  <2> DEFINE l == IF mutexState = "destroyed" THEN "error" ELSE "waiting"
  <2>1. /\ Field!Goto(t, l) /\ UNCHANGED <<board, score, owner, mutexState, seen>>
        /\ l \in F_Places \ {"found"} /\ l # "locked"
        /\ l = "error" => mutexState = "destroyed"
    BY <1>4 DEF Field!Enter, F_Places
  <2> HIDE DEF l
  <2> QED BY <1>3, <2>1, F_Moves
<1>5. ASSUME NEW t \in Field!Lockers, Field!Lock(t) PROVE F_Inv'
  <2>1. /\ owner = Free \/ Field!OwnerDied
        /\ owner' = t /\ Field!Goto(t, "locked")
        /\ UNCHANGED <<board, score, mutexState, seen>>
    BY <1>5 DEF Field!Lock, F_Inv, F_Mutex
  <2>2. \A u \in Field!Lockers : fpc[u] \notin {"locked", "found"}
    BY <1>3, <2>1, F_Finite DEF Field!OwnerDied, Field!Lockers
  <2>3. "locked" \in F_Places \ {"found"}
    BY DEF F_Places
  <2> QED BY <2>1, <2>2, <2>3, F_Moves
<1>6. ASSUME NEW p \in FieldPlayers, Field!Search(p) PROVE F_Inv'
  <2>1. PICK f \in Fields :
            \/ /\ board[f] = 0 /\ Field!Goto(p, "over") /\ Field!Unlock /\ UNCHANGED seen
            \/ /\ board[f] # 0 /\ Field!Goto(p, "found")
               /\ seen' = [seen EXCEPT ![p] = <<f, board[f]>>]
               /\ UNCHANGED <<owner, mutexState>>
    BY <1>6 DEF Field!Search
  <2>2. fpc[p] = "locked" /\ UNCHANGED <<board, score>> /\ p \in Field!Lockers
    BY <1>1, <1>6 DEF Field!Search
  <2>3. \A u \in Field!Lockers : u # p => fpc[u] \notin {"locked", "found"}
    BY <1>3, <2>2
  <2>4. CASE Field!Goto(p, "over") /\ Field!Unlock /\ UNCHANGED seen
    <3>1. mutexState' = mutexState
      BY <2>4 DEF Field!Unlock, F_Inv, F_Mutex
    <3>2. "over" \in F_Places \ {"found"}
      BY DEF F_Places
    <3> QED BY <2>2, <2>3, <2>4, <3>1, <3>2, F_Moves
  <2>5. CASE /\ Field!Goto(p, "found") /\ seen' = [seen EXCEPT ![p] = <<f, board[f]>>]
             /\ UNCHANGED <<owner, mutexState>>
    <3>1. /\ fpc'[p] = "found" /\ \A u \in Field!Lockers : u # p => fpc'[u] = fpc[u]
          /\ seen'[p] = <<f, board[f]>> /\ \A q \in FieldPlayers : q # p => seen'[q] = seen[q]
      BY <2>2, <2>5 DEF F_Inv, F_TypeOK, Field!Goto
    <3>2. fpc' \in [Field!Lockers -> F_Places]
      BY <2>5 DEF F_Inv, F_TypeOK, F_Places, Field!Goto
    <3>3. <<f, board[f]>> \in Fields \X Nat
      BY DEF F_Inv, F_TypeOK
    <3>4. F_TypeOK' /\ F_Total'
      BY <2>2, <2>5, <3>2, <3>3 DEF F_Inv, F_TypeOK, F_Total
    <3>5. F_Mutex'
      BY <2>5, <3>1 DEF F_Inv, F_Mutex
    <3>6. F_Owner' /\ F_Found'
      BY <1>1, <1>3, <2>2, <2>3, <2>5, <3>1 DEF F_Owner, F_Found
    <3> QED BY <3>4, <3>5, <3>6 DEF F_Inv
  <2> QED BY <2>1, <2>4, <2>5
<1>7. ASSUME NEW t \in Field!Lockers,
             NEW l \in {"test", "lock", "sleep", "destroy", "oops", "over"}, Field!Goto(t, l),
             UNCHANGED <<board, score, seen>>, mutexState' \in {mutexState, "destroyed"},
             owner' = owner \/ fpc[t] = "locked"
      PROVE  F_Inv'
  <2>1. l \in F_Places \ {"found"}
    BY DEF F_Places
  <2>2. \A u \in Field!Lockers : u # t /\ fpc[u] \in {"locked", "found"} => owner' = u
    BY <1>3, <1>7
  <2> QED BY <1>7, <2>1, <2>2, F_Moves
<1>8. ASSUME NEW t \in Field!Lockers, Field!Sleep(t) PROVE F_Inv'
  BY <1>7, <1>8 DEF Field!Sleep
<1>9. ASSUME NEW p \in FieldPlayers, Field!Ops(p) PROVE F_Inv'
  BY <1>1, <1>7, <1>9 DEF Field!Ops
<1>10. CASE Field!TestRunning
  BY <1>1, <1>7, <1>10 DEF Field!TestRunning
<1>11. CASE Field!PrintBoard
  <2>1. mutexState' = mutexState
    BY <1>11 DEF F_Inv, F_Mutex, Field!PrintBoard, Field!Unlock
  <2> QED BY <1>1, <1>7, <1>11, <2>1 DEF Field!PrintBoard
<1>12. CASE Field!Destroy
  BY <1>1, <1>7, <1>12 DEF Field!Destroy
<1> QED BY <1>1, <1>2, <1>4, <1>5, <1>6, <1>8, <1>9, <1>10, <1>11, <1>12, F_Take
        DEF Field!Next, Field!ServerStep, Field!PlayerStep

\* Points are on the board or with one player, and the mutex stays usable until it
\* is destroyed, wherever players exit (l6-2_client.c:56-93, l6-2_server.c:114-136,
\* 144), for any board and any number of players.
THEOREM NoPointLost == Field!Spec => []PointsKept
<1>1. F_Inv => PointsKept
  <2> SUFFICES ASSUME F_Inv PROVE Field!PointsKept
    BY DEF PointsKept
  <2>1. DOMAIN board = Fields /\ DOMAIN score = FieldPlayers /\ DOMAIN Points = Fields
    BY F_Finite DEF F_Inv, F_TypeOK
  <2>2. Field!SumFunction(board) + Field!SumFunction(score) = Field!SumFunction(Points)
    BY <2>1, FieldSum DEF F_Inv, F_Total
  <2>3. mutexState # "notrecoverable"
    BY DEF F_Inv, F_Mutex
  <2> QED BY <2>2, <2>3 DEF F_Inv, F_Mutex, Field!PointsKept
<1> QED BY <1>1, F_InvInit, F_InvStep, PTL DEF Field!Spec

-----------------------------------------------------------------------------
(* l7-1_server.c: the calculator *)

LEMMA C_Constants ==
    /\ INT32_MAX \in Nat
    /\ \A c \in Askers : Sums[c] \subseteq Calc!int32_t \X STRING \X Calc!int32_t
BY ProgramsAssumption DEF Calc!CalcConstants

LEMMA DivMod == ASSUME NEW x \in Int, NEW m \in Nat \ {0}
                PROVE  \E p \in Int, s \in 0 .. m - 1 :
                          /\ p = x \div m /\ s = x % m /\ x = m * p + s
                          /\ m * p <= x /\ x < m * p + m
<1> DEFINE p == x \div m
           s == x % m
<1>1. p \in Int /\ s \in 0 .. m - 1 /\ x = m * p + s
  BY SMTT(30)
<1>2. ASSUME NEW t \in Int, t = m * p PROVE t <= x /\ x < t + m
  BY <1>1, <1>2
<1>3. m * p \in Int
  BY <1>1, SMTT(30)
<1>4. m * p <= x /\ x < m * p + m
  <2> HIDE DEF p
  <2> QED BY <1>2, <1>3
<1>5. p = x \div m /\ s = x % m
  OBVIOUS
<1> HIDE DEF p, s
<1> WITNESS p \in Int, s \in 0 .. m - 1
<1> QED BY <1>1, <1>4, <1>5, Zenon

\* There is one quotient, and one remainder less than the divisor.
LEMMA QuotientUnique ==
    ASSUME NEW y \in Nat \ {0}, NEW x \in Int, NEW p \in Int, NEW q \in Int,
           y * p <= x, x < y * p + y, y * q <= x, x < y * q + y
    PROVE  p = q
<1>1. ASSUME NEW i \in Int, NEW j \in Int, i < j PROVE y * j >= y * i + y
  <2>1. PICK d \in Nat : j = i + 1 + d
    BY <1>1
  <2>2. y * j = y * i + y + y * d
    BY <2>1, SMTT(30)
  <2>3. y * d >= 0
    BY SMTT(30)
  <2>4. y * j \in Int /\ y * i \in Int /\ y * d \in Int
    BY SMTT(30)
  <2> QED BY <2>2, <2>3, <2>4
<1>2. y * p \in Int /\ y * q \in Int
  BY SMTT(30)
<1>3. ~(p < q)
  <2> SUFFICES ASSUME p < q PROVE FALSE
    OBVIOUS
  <2>1. y * q >= y * p + y
    BY <1>1
  <2> QED BY <1>2, <2>1
<1>4. ~(q < p)
  <2> SUFFICES ASSUME q < p PROVE FALSE
    OBVIOUS
  <2>1. y * p >= y * q + y
    BY <1>1
  <2> QED BY <1>2, <2>1
<1> QED BY <1>3, <1>4

\* A number that an int can hold is not changed.
LEMMA C_Wrap == ASSUME NEW n \in Calc!int32_t PROVE Calc!Wrap(n) = n
<1> USE C_Constants
<1> DEFINE m == 2 * (INT32_MAX + 1)
           x == n + INT32_MAX + 1
<1>1. m \in Nat \ {0} /\ x \in Int /\ 0 <= x /\ x < m /\ n \in Int
  BY DEF Calc!int32_t
<1>2. Calc!Wrap(n) = (x % m) - (INT32_MAX + 1)
  BY DEF Calc!Wrap
<1>3. n = x - (INT32_MAX + 1)
  BY <1>1
<1> HIDE DEF m, x
<1>4. PICK p \in Int, r \in 0 .. m - 1 :
         r = x % m /\ x = m * p + r /\ m * p <= x /\ x < m * p + m
  BY <1>1, DivMod
<1>5. m * p \in Int /\ m * 0 = 0
  BY <1>1, SMTT(30)
<1>6. p = 0
  BY <1>1, <1>4, <1>5, QuotientUnique
<1>7. x % m = x
  BY <1>1, <1>4, <1>5, <1>6
<1> QED BY <1>2, <1>3, <1>7

\* A quotient towards zero leaves less than the divisor, and is the only one.
LEMMA C_Quotient ==
    ASSUME NEW a \in Int, NEW b \in Int, b # 0, NEW n \in Int
    PROVE  /\ Calc!Quotient(a, b) \in Int
           /\ Calc!Abs(a - n * b) < Calc!Abs(b) /\ Calc!Abs(n * b) <= Calc!Abs(a)
                 <=> n = Calc!Quotient(a, b)
<1> DEFINE x == Calc!Abs(a)
           y == Calc!Abs(b)
           s == IF (a < 0 /\ b < 0) \/ (a >= 0 /\ b >= 0) THEN 1 ELSE -1
<1>1. x \in Nat /\ y \in Nat \ {0}
  BY DEF Calc!Abs
<1>2. PICK p \in Int : p = x \div y /\ y * p <= x /\ x < y * p + y
  <2> HIDE DEF x, y
  <2>1. x \in Int
    BY <1>1
  <2> QED BY <1>1, <2>1, DivMod
<1>3. Calc!Quotient(a, b) = IF s = 1 THEN p ELSE -p
  BY <1>2 DEF Calc!Quotient
<1>4. p \in Int /\ y * p \in Int
  BY <1>1, SMTT(30)
<1>5. p >= 0
  <2> SUFFICES ASSUME p <= -1 PROVE FALSE
    BY <1>4
  <2>1. y * p <= -y
    BY <1>1, <1>4, SMTT(30)
  <2> QED BY <1>1, <1>2, <1>4, <2>1
<1> DEFINE k == s * n
<1>6. /\ k \in Int /\ s \in {1, -1} /\ n = s * k /\ y * k \in Int
      /\ Calc!Abs(a - n * b) = Calc!Abs(x - y * k) /\ Calc!Abs(n * b) = Calc!Abs(y * k)
  <2>1. CASE a >= 0 /\ b > 0
    BY <2>1, SMTT(30) DEF Calc!Abs
  <2>2. CASE a >= 0 /\ b < 0
    BY <2>2, SMTT(30) DEF Calc!Abs
  <2>3. CASE a < 0 /\ b > 0
    BY <2>3, SMTT(30) DEF Calc!Abs
  <2>4. CASE a < 0 /\ b < 0
    BY <2>4, SMTT(30) DEF Calc!Abs
  <2> QED BY <2>1, <2>2, <2>3, <2>4
<1>7. n = Calc!Quotient(a, b) <=> k = p
  BY <1>3, <1>4, <1>6
<1> HIDE DEF x, y, s, k
<1>8. ASSUME k = p PROVE Calc!Abs(x - y * k) < y /\ Calc!Abs(y * k) <= x
  <2>1. y * p >= 0
    BY <1>1, <1>4, <1>5, SMTT(30)
  <2> QED BY <1>1, <1>2, <1>4, <1>8, <2>1 DEF Calc!Abs
<1>9. ASSUME Calc!Abs(x - y * k) < y, Calc!Abs(y * k) <= x PROVE k = p
  <2>1. k >= 0
    <3> SUFFICES ASSUME k <= -1 PROVE FALSE
      BY <1>6
    <3>1. y * k <= -y
      BY <1>1, <1>6, SMTT(30)
    <3> QED BY <1>1, <1>6, <1>9, <3>1 DEF Calc!Abs
  <2>2. y * k >= 0
    BY <1>1, <1>6, <2>1, SMTT(30)
  <2>3. y * k <= x /\ x < y * k + y
    BY <1>1, <1>6, <1>9, <2>2 DEF Calc!Abs
  <2> QED BY <1>1, <1>2, <1>4, <1>6, <2>3, QuotientUnique
<1> QED BY <1>1, <1>3, <1>4, <1>6, <1>7, <1>8, <1>9 DEF x, y

\* What client c asked for, and whether that quotient stops the server.
Operand(c, i) == asks[c][i]
Fatal(c) == Operand(c, 2) = "/" /\ Calc!Overflows(Operand(c, 1), Operand(c, 3))

\* Every answer is calculate()'s, of the client's own request.
C_Answers ==
    /\ asks \in [Askers -> Calc!int32_t \X STRING \X Calc!int32_t]
    /\ result = [c \in Askers |-> result[c]]
    /\ \A c \in Askers :
          \/ result[c] = Calc!NoResult
          \/ /\ ~Fatal(c)
             /\ result[c] = Calc!calculate(Operand(c, 1), Operand(c, 2), Operand(c, 3))

\* A connection is served from accept() until it is closed or the server killed.
C_Serving ==
    /\ l_dpc \in {"epoll", "accept", "read", "ended", "killed"}
    /\ l_dpc = "read" => client_socket # {}
    /\ l_dpc \in {"epoll", "accept", "ended"} => client_socket = {}
    /\ l_dpc \in {"epoll", "ended"} => nfds = {}
    /\ l_dpc = "killed" => \E c \in client_socket : Fatal(c)

C_Inv == C_Answers /\ C_Serving

LEMMA C_Init == Calc!Init => C_Inv
<1> SUFFICES ASSUME Calc!Init PROVE C_Inv
  OBVIOUS
<1>1. asks \in [Askers -> UNION {Sums[c] : c \in Askers}] /\ \A c \in Askers : asks[c] \in Sums[c]
  BY DEF Calc!Init
<1>2. \A c \in Askers : asks[c] \in Calc!int32_t \X STRING \X Calc!int32_t
  BY <1>1, C_Constants
<1>3. asks \in [Askers -> Calc!int32_t \X STRING \X Calc!int32_t]
  BY <1>1, <1>2
<1>4. result = [c \in Askers |-> Calc!NoResult]
  BY DEF Calc!Init
<1>5. C_Answers
  BY <1>3, <1>4 DEF C_Answers
<1>6. C_Serving
  BY DEF Calc!Init, C_Serving
<1> QED BY <1>5, <1>6 DEF C_Inv

LEMMA C_Answer == C_Inv /\ Calc!Answer => C_Inv'
<1> SUFFICES ASSUME C_Inv, Calc!Answer PROVE C_Inv'
  OBVIOUS
<1> DEFINE v == Calc!Served
<1>1. l_dpc = "read" /\ UNCHANGED <<asks, nfds>>
  BY DEF Calc!Answer, Calc!clients
<1>2. v \in client_socket
  BY <1>1 DEF C_Inv, C_Serving, Calc!Served
<1>3. \A c : Fatal(c)' = Fatal(c) /\ \A i : Operand(c, i)' = Operand(c, i)
  BY <1>1 DEF Fatal, Operand, Calc!Overflows
<1>4. CASE Fatal(v)
  <2>1. l_dpc' = "killed" /\ UNCHANGED <<result, client_socket>>
    BY <1>4 DEF Calc!Answer, Fatal, Operand
  <2>2. C_Serving'
    BY <1>2, <1>3, <1>4, <2>1 DEF C_Serving
  <2> QED BY <1>1, <1>3, <2>1, <2>2 DEF C_Inv, C_Answers
<1>5. CASE ~Fatal(v)
  <2> DEFINE n == Calc!calculate(Operand(v, 1), Operand(v, 2), Operand(v, 3))
  <2>1. /\ result' = [result EXCEPT ![v] = n] /\ client_socket' = {}
        /\ l_dpc' = IF nfds = {} THEN "epoll" ELSE "accept"
    BY <1>5 DEF Calc!Answer, Calc!NextEvent, Fatal, Operand
  <2> HIDE DEF v, n
  <2>2. /\ result' = [c \in Askers |-> result'[c]]
        /\ \A c \in Askers : result'[c] = IF c = v THEN n ELSE result[c]
    BY <2>1 DEF C_Inv, C_Answers
  <2>3. \A c \in Askers :
          \/ result'[c] = Calc!NoResult
          \/ ~Fatal(c) /\ result'[c] = Calc!calculate(Operand(c, 1), Operand(c, 2), Operand(c, 3))
    BY <1>5, <2>2 DEF C_Inv, C_Answers, n
  <2>4. C_Answers'
    BY <1>1, <1>3, <2>2, <2>3 DEF C_Inv, C_Answers
  <2>5. C_Serving'
    BY <1>1, <2>1 DEF C_Serving
  <2> QED BY <2>4, <2>5 DEF C_Inv
<1> QED BY <1>4, <1>5

LEMMA C_Others ==
    ASSUME C_Inv, Calc!Next \/ UNCHANGED Calc!vars, ~Calc!Answer
    PROVE  C_Inv'
<1>1. UNCHANGED <<asks, result>>
  BY DEF Calc!Next, Calc!ServerStep, Calc!EpollWait, Calc!End, Calc!add_new_client, Calc!bulk_read,
         Calc!ShortRead, Calc!SigInt, Calc!Connect, Calc!Send, Calc!Leave, Calc!clients, Calc!vars
<1>2. \A c : Fatal(c)' = Fatal(c) /\ \A i : Operand(c, i)' = Operand(c, i)
  BY <1>1 DEF Fatal, Operand, Calc!Overflows
<1>3. C_Answers'
  BY <1>1, <1>2 DEF C_Inv, C_Answers
<1>4. C_Serving'
  <2> USE DEF C_Inv, C_Serving
  <2>1. CASE Calc!EpollWait \/ Calc!End
    BY <1>2, <2>1 DEF Calc!EpollWait, Calc!End
  <2>2. CASE Calc!add_new_client
    BY <1>2, <2>2 DEF Calc!add_new_client
  <2>3. CASE Calc!ShortRead
    BY <1>2, <2>3 DEF Calc!ShortRead, Calc!NextEvent
  <2>4. CASE UNCHANGED <<nfds, client_socket, l_dpc>>
    BY <1>2, <2>4
  <2>5. \/ Calc!EpollWait \/ Calc!End \/ Calc!add_new_client \/ Calc!ShortRead
        \/ UNCHANGED <<nfds, client_socket, l_dpc>>
    BY DEF Calc!Next, Calc!ServerStep, Calc!bulk_read, Calc!SigInt, Calc!Connect, Calc!Send,
           Calc!Leave, Calc!vars
  <2> QED BY <2>1, <2>2, <2>3, <2>4, <2>5
<1> QED BY <1>3, <1>4 DEF C_Inv

\* What calculate() returns, for operands an int holds.
LEMMA C_Right ==
    ASSUME NEW a \in Calc!int32_t, NEW b \in Calc!int32_t, NEW op \in STRING,
           op = "/" => ~Calc!Overflows(a, b)
    PROVE  LET r == Calc!calculate(a, op, b)
               exact == CASE op = "+" -> {a + b} [] op = "-" -> {a - b} [] op = "*" -> {a * b}
                          [] OTHER -> {n \in Calc!int32_t : b # 0 /\ Calc!Abs(a - n * b) < Calc!Abs(b)
                                                            /\ Calc!Abs(n * b) <= Calc!Abs(a)}
           IN  /\ r # Calc!NoResult
               /\ r[1] = 1 <=> op \in {"+", "-", "*"} \/ (op = "/" /\ b # 0)
               /\ r[1] = 1 /\ exact \subseteq Calc!int32_t => {r[2]} = exact
<1> DEFINE r == Calc!calculate(a, op, b)
           Right(exact) == /\ r # Calc!NoResult
                           /\ r[1] = 1 <=> op \in {"+", "-", "*"} \/ (op = "/" /\ b # 0)
                           /\ r[1] = 1 /\ exact \subseteq Calc!int32_t => {r[2]} = exact
           Q == {n \in Calc!int32_t : b # 0 /\ Calc!Abs(a - n * b) < Calc!Abs(b)
                                      /\ Calc!Abs(n * b) <= Calc!Abs(a)}
<1>1. CASE op = "+"
  <2>1. r = <<1, Calc!Wrap(a + b)>>
    BY <1>1 DEF Calc!calculate
  <2>2. {a + b} \subseteq Calc!int32_t => Calc!Wrap(a + b) = a + b
    BY C_Wrap
  <2>3. Right({a + b})
    BY <1>1, <2>1, <2>2 DEF Calc!NoResult
  <2> QED BY <1>1, <2>3
<1>2. CASE op = "-"
  <2>1. r = <<1, Calc!Wrap(a - b)>>
    BY <1>2 DEF Calc!calculate
  <2>2. {a - b} \subseteq Calc!int32_t => Calc!Wrap(a - b) = a - b
    BY C_Wrap
  <2>3. Right({a - b})
    BY <1>2, <2>1, <2>2 DEF Calc!NoResult
  <2> QED BY <1>2, <2>3
<1>3. CASE op = "*"
  <2>1. r = <<1, Calc!Wrap(a * b)>>
    BY <1>3 DEF Calc!calculate
  <2>2. {a * b} \subseteq Calc!int32_t => Calc!Wrap(a * b) = a * b
    BY C_Wrap
  <2>3. Right({a * b})
    BY <1>3, <2>1, <2>2 DEF Calc!NoResult
  <2> QED BY <1>3, <2>3
<1>4. CASE op = "/" /\ b # 0
  <2>1. r = <<1, Calc!Quotient(a, b)>>
    BY <1>4 DEF Calc!calculate
  <2>2. Calc!Quotient(a, b) \in Calc!int32_t /\ a \in Int /\ b \in Int
    BY <1>4 DEF Calc!Overflows, Calc!int32_t
  <2>3. Q = {Calc!Quotient(a, b)}
    <3>1. \A n \in Calc!int32_t : n \in Q <=> n = Calc!Quotient(a, b)
      <4> TAKE n \in Calc!int32_t
      <4>1. n \in Int
        BY DEF Calc!int32_t
      <4> QED BY <1>4, <2>2, <4>1, C_Quotient
    <3> QED BY <2>2, <3>1
  <2> HIDE DEF Q
  <2>4. Right(Q)
    BY <1>4, <2>1, <2>3 DEF Calc!NoResult
  <2> QED BY <1>4, <2>4 DEF Q
<1>5. CASE op \notin {"+", "-", "*"} /\ ~(op = "/" /\ b # 0)
  <2>1. r = <<0, -1>>
    BY <1>5 DEF Calc!calculate
  <2> HIDE DEF Q
  <2>2. Right(Q)
    BY <1>5, <2>1 DEF Calc!NoResult
  <2> QED BY <1>5, <2>2 DEF Q
<1> QED BY <1>1, <1>2, <1>3, <1>4, <1>5

\* The calculator's answers are right, for integers of any width, any requests and
\* any number of clients: a result that an int can hold is exact, status 0 is for an
\* unknown operator and a divisor of 0, each client gets the answer to its own
\* request, and only the quotient that overflows kills the server
\* (l7-1_server.c:12-39, 71-96).
THEOREM AnswersAreRight == Calc!Spec => []SumsRight
<1>1. C_Inv /\ [Calc!Next]_Calc!vars => C_Inv'
  BY C_Answer, C_Others
<1>2. C_Inv => SumsRight
  <2> SUFFICES ASSUME C_Inv PROVE Calc!SumsRight
    BY DEF SumsRight
  <2>1. l_dpc = "killed" => \E c \in client_socket : Calc!Overflows(asks[c][1], asks[c][3])
    BY DEF C_Inv, C_Serving, Fatal, Operand
  <2>2. l_dpc = "ended" => client_socket = {} /\ nfds = {}
    BY DEF C_Inv, C_Serving
  <2>3. ASSUME NEW c \in Askers, result[c] # Calc!NoResult
        PROVE  LET a == asks[c][1]  op == asks[c][2]  b == asks[c][3]
                   exact == CASE op = "+" -> {a + b} [] op = "-" -> {a - b} [] op = "*" -> {a * b}
                              [] OTHER -> {n \in Calc!int32_t : /\ b # 0
                                                                /\ Calc!Abs(a - n * b) < Calc!Abs(b)
                                                                /\ Calc!Abs(n * b) <= Calc!Abs(a)}
               IN  /\ result[c][1] = 1 <=> op \in {"+", "-", "*"} \/ (op = "/" /\ b # 0)
                   /\ result[c][1] = 1 /\ exact \subseteq Calc!int32_t => {result[c][2]} = exact
    <3> DEFINE a == asks[c][1]
               op == asks[c][2]
               b == asks[c][3]
    <3>1. a \in Calc!int32_t /\ b \in Calc!int32_t /\ op \in STRING
      BY DEF C_Inv, C_Answers
    <3>2. (op = "/" => ~Calc!Overflows(a, b)) /\ result[c] = Calc!calculate(a, op, b)
      BY <2>3 DEF C_Inv, C_Answers, Fatal, Operand
    <3> HIDE DEF a, op, b
    <3> QED BY <3>1, <3>2, C_Right DEF a, op, b
  <2> QED BY <2>1, <2>2, <2>3 DEF Calc!SumsRight
<1> QED BY <1>1, <1>2, C_Init, PTL DEF Calc!Spec
==============================================================================
