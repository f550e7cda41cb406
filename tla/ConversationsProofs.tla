------------------------- MODULE ConversationsProofs -------------------------
(***************************************************************************)
(* The servers that hold conversations: the blocking ones, the connection  *)
(* of the epoll ones and the chat, for any number of clients, any sizes of *)
(* buffers and any requests.                                               *)
(***************************************************************************)
EXTENDS WorkersProofs

\* The elements that f maps into A.
Count(P, f, A) == Cardinality({p \in P : f[p] \in A})

LEMMA CountNat == ASSUME NEW P, IsFiniteSet(P), NEW f, NEW A
                  PROVE  Count(P, f, A) \in Nat
<1>1. IsFiniteSet({p \in P : f[p] \in A})
  BY FS_Subset
<1> QED BY <1>1, FS_CardinalityType DEF Count

-----------------------------------------------------------------------------
(* dumb_iterative.c and dumb_multithreaded.c *)

Threads     == {"count", "recv", "lines", "stream", "closed", "finish"}
Connections == {"recv", "lines", "stream", "closed"}

K_TypeOK ==
    /\ threaded \in BOOLEAN
    /\ b_peer \in [Peers -> {"new", "open", "shut", "gone"}]
    /\ listener \in Seq(Peers)
    /\ b_pc \in [Peers -> Threads \cup {"none", "start", "end"}]

\* Nobody waits twice in the listen queue, or after handle_client() was called.
K_Queue ==
    /\ \A i, j \in 1 .. Len(listener) : listener[i] = listener[j] => i = j
    /\ \A i \in 1 .. Len(listener) : b_pc[listener[i]] = "none" /\ b_peer[listener[i]] # "new"
    /\ \A c \in Peers : b_peer[c] = "new" => b_pc[c] = "none"

\* A thread counts itself, then its connection; the iterative server neither.
K_Gauges ==
    /\ threaded => /\ active_threads = Count(Peers, b_pc, Threads)
                   /\ b_connections = Count(Peers, b_pc, Connections)
    /\ ~threaded => /\ active_threads = 0 /\ b_connections = 0
                    /\ \A c \in Peers : b_pc[c] \notin {"start", "count", "closed", "finish"}

K_Inv == K_TypeOK /\ K_Queue /\ K_Gauges

LEMMA PeersFinite == IsFiniteSet(Peers)
BY ServersAssumption DEF K!BlockingConstants, K!IsFiniteSet, IsFiniteSet

LEMMA K_InvInit == K!Init => K_Inv
<1> SUFFICES ASSUME K!Init PROVE K_Inv
  OBVIOUS
<1>1. K_TypeOK /\ K_Queue
  BY DEF K!Init, K_TypeOK, K_Queue
<1>2. {p \in Peers : b_pc[p] \in Threads} = {} /\ {p \in Peers : b_pc[p] \in Connections} = {}
  BY DEF K!Init, Threads, Connections
<1>3. Count(Peers, b_pc, Threads) = 0 /\ Count(Peers, b_pc, Connections) = 0
  BY <1>2, FS_EmptySet DEF Count
<1>4. K_Gauges
  BY <1>3 DEF K!Init, K_Gauges
<1> QED BY <1>1, <1>4 DEF K_Inv

LEMMA K_Counts ==
    ASSUME NEW c \in Peers, \A p \in Peers : p # c => b_pc'[p] = b_pc[p], NEW A
    PROVE  /\ (b_pc'[c] \in A <=> b_pc[c] \in A) => Count(Peers, b_pc', A) = Count(Peers, b_pc, A)
           /\ b_pc'[c] \in A /\ b_pc[c] \notin A => Count(Peers, b_pc', A) = Count(Peers, b_pc, A) + 1
           /\ b_pc'[c] \notin A /\ b_pc[c] \in A => Count(Peers, b_pc', A) = Count(Peers, b_pc, A) - 1
<1> DEFINE S == {p \in Peers : b_pc[p] \in A}
           T == {p \in Peers : b_pc'[p] \in A}
<1>1. IsFiniteSet(S) /\ IsFiniteSet(T)
  BY PeersFinite, FS_Subset
<1>2. PICK s \in Nat, t \in Nat : s = Cardinality(S) /\ t = Cardinality(T)
  BY <1>1, FS_CardinalityType
<1>3. Count(Peers, b_pc, A) = s /\ Count(Peers, b_pc', A) = t
  BY <1>2 DEF Count
<1>4. CASE b_pc'[c] \in A <=> b_pc[c] \in A
  <2>1. S = T
    BY <1>4
  <2>2. s = t
    BY <1>2, <2>1
  <2> QED BY <1>3, <1>4, <2>2
<1>5. CASE b_pc'[c] \in A /\ b_pc[c] \notin A
  <2>1. T = S \cup {c} /\ c \notin S
    BY <1>5
  <2> HIDE DEF S, T
  <2>2. Cardinality(T) = Cardinality(S) + 1
    BY <1>1, <2>1, FS_AddElement
  <2> QED BY <1>2, <1>3, <1>5, <2>2
<1>6. CASE b_pc'[c] \notin A /\ b_pc[c] \in A
  <2>1. T = S \ {c} /\ c \in S
    BY <1>6
  <2> HIDE DEF S, T
  <2>2. Cardinality(T) = Cardinality(S) - 1
    BY <1>1, <2>1, FS_RemoveElement
  <2> QED BY <1>2, <1>3, <1>6, <2>2
<1> QED BY <1>4, <1>5, <1>6

\* Steps that move at most one call of handle_client() between its loops.
LEMMA K_Moves ==
    ASSUME K_Inv, UNCHANGED <<threaded, listener, active_threads, b_connections>>,
           NEW c \in Peers, NEW l,
           b_pc' = [b_pc EXCEPT ![c] = l],
           \/ l = b_pc[c]
           \/ {l, b_pc[c]} \subseteq Connections /\ (l = "closed" => threaded)
           \/ ~threaded /\ b_pc[c] \in Connections /\ l = "end",
           b_peer' \in [Peers -> {"new", "open", "shut", "gone"}],
           \A d \in Peers : b_peer'[d] = "new" <=> b_peer[d] = "new"
    PROVE  K_Inv'
<1>1. K_TypeOK'
  BY DEF K_Inv, K_TypeOK, Connections, Threads
<1>2. b_pc[c] \in Connections => b_pc[c] # "none"
  BY DEF Connections
<1>3. K_Queue'
  <2>1. \A i \in 1 .. Len(listener) : listener[i] \in Peers
    BY DEF K_Inv, K_TypeOK
  <2>2. DOMAIN b_pc = Peers
    BY DEF K_Inv, K_TypeOK
  <2>3. \A d \in Peers : b_pc[d] = "none" => b_pc'[d] = "none"
    BY <1>2, <2>2
  <2> QED BY <2>1, <2>3 DEF K_Inv, K_Queue
<1>4. K_Gauges'
  <2>1. DOMAIN b_pc = Peers
    BY DEF K_Inv, K_TypeOK
  <2>2. CASE threaded
    <3>1. (l \in Threads <=> b_pc[c] \in Threads) /\ (l \in Connections <=> b_pc[c] \in Connections)
      BY <2>2 DEF Threads, Connections
    <3>2. b_pc'[c] = l /\ \A p \in Peers : p # c => b_pc'[p] = b_pc[p]
      BY <2>1
    <3>3. Count(Peers, b_pc', Threads) = Count(Peers, b_pc, Threads)
      BY <3>1, <3>2, K_Counts
    <3>4. Count(Peers, b_pc', Connections) = Count(Peers, b_pc, Connections)
      BY <3>1, <3>2, K_Counts
    <3> QED BY <2>2, <3>3, <3>4 DEF K_Inv, K_Gauges
  <2>3. CASE ~threaded
    BY <2>1, <2>3 DEF K_Inv, K_Gauges, Connections
  <2> QED BY <2>2, <2>3 DEF K_Inv, K_TypeOK
<1> QED BY <1>1, <1>3, <1>4 DEF K_Inv

LEMMA K_QuietSteps ==
    ASSUME K_Inv, NEW c \in Peers,
           K!Send(c) \/ K!Reset(c) \/ K!Recv(c) \/ K!RecvEnd(c) \/ K!Command(c) \/ K!Stream(c) \/ K!NoLine(c)
    PROVE  K_Inv'
<1>1. UNCHANGED <<threaded, listener, active_threads, b_connections>>
  BY DEF K!Send, K!Reset, K!Recv, K!RecvEnd, K!Command, K!Stream, K!NoLine, K!gauges
<1>2. /\ b_peer' \in [Peers -> {"new", "open", "shut", "gone"}]
      /\ \A d \in Peers : b_peer'[d] = "new" <=> b_peer[d] = "new"
  <2>1. CASE K!Send(c) \/ K!Reset(c)
    BY <2>1 DEF K!Send, K!Reset, K_Inv, K_TypeOK
  <2>2. CASE ~(K!Send(c) \/ K!Reset(c))
    <3>1. b_peer' = b_peer
      BY <2>2 DEF K!Recv, K!RecvEnd, K!Command, K!Stream, K!NoLine, K!connVars
    <3> QED BY <3>1 DEF K_Inv, K_TypeOK
  <2> QED BY <2>1, <2>2
<1>3. \E l : /\ b_pc' = [b_pc EXCEPT ![c] = l]
             /\ \/ l = b_pc[c]
                \/ {l, b_pc[c]} \subseteq Connections /\ (l = "closed" => threaded)
                \/ ~threaded /\ b_pc[c] \in Connections /\ l = "end"
  <2>1. b_pc = [b_pc EXCEPT ![c] = b_pc[c]]
    BY DEF K_Inv, K_TypeOK
  <2>2. CASE UNCHANGED b_pc
    BY <2>1, <2>2
  <2>3. CASE K!Recv(c)
    <3>1. b_pc' = [b_pc EXCEPT ![c] = "lines"] /\ b_pc[c] = "recv"
      BY <2>3 DEF K!Recv, K!Goto
    <3>2. {"lines", "recv"} \subseteq Connections /\ "lines" # "closed" /\ "recv" # "closed"
      BY DEF Connections
    <3> QED BY <3>1, <3>2
  <2>4. CASE K!RecvEnd(c)
    BY <2>4 DEF K!RecvEnd, K!Goto, Connections, K_Inv, K_TypeOK
  <2>5. CASE K!Command(c) /\ b_pc' # b_pc
    BY <2>5 DEF K!Command, K!Goto, Connections
  <2>6. CASE K!Stream(c) /\ b_pc' # b_pc
    BY <2>6 DEF K!Stream, K!Goto, Connections
  <2>7. CASE K!NoLine(c)
    <3>1. b_pc' = [b_pc EXCEPT ![c] = "recv"] /\ b_pc[c] = "lines"
      BY <2>7 DEF K!NoLine, K!Goto
    <3>2. {"lines", "recv"} \subseteq Connections /\ "lines" # "closed" /\ "recv" # "closed"
      BY DEF Connections
    <3> QED BY <3>1, <3>2
  <2>8. K!Send(c) \/ K!Reset(c) => UNCHANGED b_pc
    BY DEF K!Send, K!Reset
  <2> QED BY <2>2, <2>3, <2>4, <2>5, <2>6, <2>7, <2>8
<1> QED BY <1>1, <1>2, <1>3, K_Moves

LEMMA K_Connects == ASSUME K_Inv, NEW c \in Peers, K!Connect(c) PROVE K_Inv'
<1>1. /\ b_peer[c] = "new" /\ b_peer' = [b_peer EXCEPT ![c] = "open"]
      /\ listener' = Append(listener, c)
      /\ UNCHANGED <<threaded, b_pc, active_threads, b_connections>>
  BY DEF K!Connect, K!gauges
<1>2. b_peer' \in [Peers -> {"new", "open", "shut", "gone"}] /\ b_peer'[c] = "open"
      /\ \A d \in Peers : d # c => b_peer'[d] = b_peer[d]
  BY <1>1 DEF K_Inv, K_TypeOK
<1>3. /\ listener' \in Seq(Peers) /\ Len(listener') = Len(listener) + 1 /\ Len(listener) \in Nat
      /\ \A i \in 1 .. Len(listener) : listener[i] \in Peers /\ listener'[i] = listener[i]
      /\ listener'[Len(listener) + 1] = c
  BY <1>1 DEF K_Inv, K_TypeOK
<1>4. K_TypeOK'
  BY <1>1, <1>2, <1>3 DEF K_Inv, K_TypeOK
<1>5. \A i \in 1 .. Len(listener) : listener[i] # c
  BY <1>1 DEF K_Inv, K_Queue
<1>6. b_pc[c] = "none"
  BY <1>1 DEF K_Inv, K_Queue
<1>7. K_Queue'
  <2>1. \A i \in 1 .. Len(listener') : i \in 1 .. Len(listener) \/ i = Len(listener) + 1
    BY <1>3
  <2>2. \A i, j \in 1 .. Len(listener') : listener'[i] = listener'[j] => i = j
    BY <1>3, <1>5, <2>1 DEF K_Inv, K_Queue
  <2>3. \A i \in 1 .. Len(listener') : b_pc'[listener'[i]] = "none" /\ b_peer'[listener'[i]] # "new"
    <3>1. \A i \in 1 .. Len(listener) : b_pc'[listener'[i]] = "none" /\ b_peer'[listener'[i]] # "new"
      BY <1>1, <1>2, <1>3, <1>5 DEF K_Inv, K_Queue
    <3>2. b_pc'[c] = "none" /\ b_peer'[c] # "new"
      BY <1>1, <1>2, <1>6
    <3> QED BY <1>3, <2>1, <3>1, <3>2
  <2> QED BY <1>1, <1>2, <2>2, <2>3 DEF K_Inv, K_Queue
<1>8. K_Gauges'
  BY <1>1 DEF K_Inv, K_Gauges
<1> QED BY <1>4, <1>7, <1>8 DEF K_Inv

LEMMA K_Accepts == ASSUME K_Inv, K!Accept PROVE K_Inv'
<1> DEFINE c == Head(listener)
<1>1. /\ listener # <<>> /\ listener' = Tail(listener)
      /\ b_pc' = [b_pc EXCEPT ![c] = IF threaded THEN "start" ELSE "recv"]
      /\ UNCHANGED <<threaded, b_peer, active_threads, b_connections>>
  BY DEF K!Accept, K!Goto, K!connVars, K!gauges
<1>2. /\ Len(listener) \in Nat /\ Len(listener) # 0 /\ c = listener[1] /\ c \in Peers
      /\ listener' \in Seq(Peers) /\ Len(listener') = Len(listener) - 1
      /\ \A i \in 1 .. Len(listener') : listener'[i] = listener[i + 1]
      /\ \A i \in 1 .. Len(listener) : listener[i] \in Peers
  BY <1>1 DEF K_Inv, K_TypeOK
<1>3. b_pc[c] = "none" /\ b_peer[c] # "new"
  BY <1>2 DEF K_Inv, K_Queue
<1>4. \A i \in 1 .. Len(listener') : i + 1 \in 1 .. Len(listener) /\ listener'[i] # c
  BY <1>2 DEF K_Inv, K_Queue
<1> HIDE DEF c
<1>5. /\ b_pc' \in [Peers -> Threads \cup {"none", "start", "end"}]
      /\ b_pc'[c] = (IF threaded THEN "start" ELSE "recv")
      /\ \A p \in Peers : p # c => b_pc'[p] = b_pc[p]
  BY <1>1, <1>2 DEF K_Inv, K_TypeOK, Threads
<1>6. K_TypeOK'
  BY <1>1, <1>2, <1>5 DEF K_Inv, K_TypeOK
<1>7. K_Queue'
  BY <1>1, <1>2, <1>3, <1>4, <1>5 DEF K_Inv, K_Queue
<1>8. K_Gauges'
  <2>1. CASE threaded
    <3>1. b_pc'[c] \notin Threads /\ b_pc'[c] \notin Connections
          /\ b_pc[c] \notin Threads /\ b_pc[c] \notin Connections
      BY <1>3, <1>5, <2>1 DEF Threads, Connections
    <3>2. Count(Peers, b_pc', Threads) = Count(Peers, b_pc, Threads)
      BY <1>2, <1>5, <3>1, K_Counts
    <3>3. Count(Peers, b_pc', Connections) = Count(Peers, b_pc, Connections)
      BY <1>2, <1>5, <3>1, K_Counts
    <3> QED BY <1>1, <2>1, <3>2, <3>3 DEF K_Inv, K_Gauges
  <2>2. CASE ~threaded
    BY <1>1, <1>5, <2>2 DEF K_Inv, K_Gauges
  <2> QED BY <2>1, <2>2
<1> QED BY <1>6, <1>7, <1>8 DEF K_Inv

LEMMA K_GaugeSteps == ASSUME K_Inv, NEW c \in Peers, K!Gauge(c) PROVE K_Inv'
<1>1. UNCHANGED <<threaded, b_peer, listener>>
  BY DEF K!Gauge, K!connVars
<1>2. PICK l \in {"count", "recv", "finish", "end"} :
          /\ b_pc' = [b_pc EXCEPT ![c] = l]
          /\ l = "count" => /\ b_pc[c] = "start" /\ active_threads' = active_threads + 1
                            /\ b_connections' = b_connections
          /\ l = "recv" => /\ b_pc[c] = "count" /\ b_connections' = b_connections + 1
                           /\ active_threads' = active_threads
          /\ l = "finish" => /\ b_pc[c] = "closed" /\ b_connections' = b_connections - 1
                             /\ active_threads' = active_threads
          /\ l = "end" => /\ b_pc[c] = "finish" /\ active_threads' = active_threads - 1
                          /\ b_connections' = b_connections
  <2>1. CASE b_pc[c] = "start"
    BY <2>1 DEF K!Gauge, K!Goto
  <2>2. CASE b_pc[c] = "count"
    BY <2>2 DEF K!Gauge, K!Goto
  <2>3. CASE b_pc[c] = "closed" /\ threaded
    BY <2>3 DEF K!Gauge, K!Goto
  <2>4. CASE b_pc[c] = "finish"
    BY <2>4 DEF K!Gauge, K!Goto
  <2> QED BY <2>1, <2>2, <2>3, <2>4 DEF K!Gauge
<1>3. threaded /\ b_pc[c] # "none"
  BY <1>2 DEF K_Inv, K_Gauges, K_TypeOK
<1>4. /\ b_pc' \in [Peers -> Threads \cup {"none", "start", "end"}] /\ b_pc'[c] = l
      /\ \A p \in Peers : p # c => b_pc'[p] = b_pc[p]
  BY <1>2 DEF K_Inv, K_TypeOK, Threads
<1>5. K_TypeOK'
  BY <1>1, <1>4 DEF K_Inv, K_TypeOK
<1>6. K_Queue'
  <2>1. \A i \in 1 .. Len(listener) : listener[i] \in Peers /\ listener[i] # c
    BY <1>3 DEF K_Inv, K_TypeOK, K_Queue
  <2>2. b_peer[c] # "new"
    BY <1>3 DEF K_Inv, K_Queue
  <2> QED BY <1>1, <1>4, <2>1, <2>2 DEF K_Inv, K_Queue
<1>7. K_Gauges'
  <2>1. /\ l \in Threads <=> l \in {"count", "recv", "finish"}
        /\ b_pc[c] \in Threads <=> l \in {"recv", "finish", "end"}
        /\ l \in Connections <=> l = "recv"
        /\ b_pc[c] \in Connections <=> l = "finish"
    BY <1>2 DEF Threads, Connections
  <2>2. active_threads' = Count(Peers, b_pc', Threads)
    <3>1. active_threads = Count(Peers, b_pc, Threads)
      BY <1>3 DEF K_Inv, K_Gauges
    <3>2. CASE l = "count"
      BY <1>2, <1>4, <2>1, <3>1, <3>2, K_Counts
    <3>3. CASE l = "end"
      BY <1>2, <1>4, <2>1, <3>1, <3>3, K_Counts
    <3>4. CASE l \in {"recv", "finish"}
      BY <1>2, <1>4, <2>1, <3>1, <3>4, K_Counts
    <3> QED BY <3>2, <3>3, <3>4
  <2>3. b_connections' = Count(Peers, b_pc', Connections)
    <3>1. b_connections = Count(Peers, b_pc, Connections)
      BY <1>3 DEF K_Inv, K_Gauges
    <3>2. CASE l = "recv"
      BY <1>2, <1>4, <2>1, <3>1, <3>2, K_Counts
    <3>3. CASE l = "finish"
      BY <1>2, <1>4, <2>1, <3>1, <3>3, K_Counts
    <3>4. CASE l \in {"count", "end"}
      BY <1>2, <1>4, <2>1, <3>1, <3>4, K_Counts
    <3> QED BY <3>2, <3>3, <3>4
  <2> QED BY <1>1, <1>3, <2>2, <2>3 DEF K_Gauges
<1> QED BY <1>5, <1>6, <1>7 DEF K_Inv

LEMMA K_InvStep == K_Inv /\ [K!Next]_(K!vars) => K_Inv'
<1> SUFFICES ASSUME K_Inv, [K!Next]_(K!vars) PROVE K_Inv'
  OBVIOUS
<1>1. CASE UNCHANGED K!vars
  <2>1. UNCHANGED <<threaded, b_peer, listener, b_pc, active_threads, b_connections>>
    BY <1>1 DEF K!vars, K!connVars, K!gauges
  <2> QED BY <2>1 DEF K_Inv, K_TypeOK, K_Queue, K_Gauges
<1>2. CASE K!Next
  <2>1. PICK c \in Peers : K!Connect(c) \/ K!Send(c) \/ K!Reset(c) \/ K!ServerStep(c)
    BY <1>2 DEF K!Next
  <2> QED BY <2>1, K_Connects, K_Accepts, K_GaugeSteps, K_QuietSteps DEF K!ServerStep, K!Handler
<1> QED BY <1>1, <1>2

LEMMA K_GaugesBounded == K_Inv => K!GaugesBounded
<1> SUFFICES ASSUME K_Inv PROVE K!GaugesBounded
  OBVIOUS
<1> DEFINE T == {c \in Peers : b_pc[c] \in Threads}
           C == {c \in Peers : b_pc[c] \in Connections}
           A == {c \in Peers : b_pc[c] \notin {"none", "end"}}
<1>1. IsFiniteSet(T) /\ IsFiniteSet(C) /\ IsFiniteSet(A) /\ C \subseteq T /\ T \subseteq A
  BY PeersFinite, FS_Subset DEF Threads, Connections
<1>2. K!Quantify(Peers, LAMBDA c : b_pc[c] \notin {"none", "end"}) = Cardinality(A)
  BY DEF K!Quantify, K!Cardinality, Cardinality
<1>3. threaded => active_threads = Cardinality(T) /\ b_connections = Cardinality(C)
  BY DEF K_Inv, K_Gauges, Count
<1>4. ~threaded => active_threads = 0 /\ b_connections = 0
  BY DEF K_Inv, K_Gauges
<1> HIDE DEF T, C, A
<1>5. Cardinality(T) \in Nat /\ Cardinality(C) \in Nat /\ Cardinality(A) \in Nat
  BY <1>1, FS_CardinalityType
<1>6. Cardinality(C) <= Cardinality(T)
  BY <1>1, FS_Subset
<1>7. Cardinality(T) <= Cardinality(A)
  BY <1>1, FS_Subset
<1> QED BY <1>2, <1>3, <1>4, <1>5, <1>6, <1>7 DEF K!GaugesBounded, K_Inv, K_TypeOK

\* The gauges of the metrics threads tell what there is, for any number of clients
\* and workers: a worker's is, modulo the width of its type, what it has registered,
\* up to the connection it or the acceptor is in the middle of; the threads of
\* dumb_multithreaded.c are never fewer than the connections and never more than
\* the clients (dumb_epoll_workers.c:302, 396-398, dumb_multithreaded.c:15-26).
THEOREM GaugesTell == Spec /\ K!Spec => []GaugesExact
<1>1. K_Inv => K!GaugesBounded
  BY K_GaugesBounded
<1>2. K!Spec => []K!GaugesBounded
  BY <1>1, K_InvInit, K_InvStep, PTL DEF K!Spec
<1> QED BY <1>2, WorkerGauges, PTL DEF GaugesExact

-----------------------------------------------------------------------------
(* Sequences of sequences *)

\* The function that FlattenSeq defines by recursion, over the first n sequences.
Flattens(ss, n, f) == f = [i \in 1 .. n |-> IF i = 1 THEN ss[i] ELSE f[i - 1] \o ss[i]]

LEMMA FlattensNext ==
    ASSUME NEW ss, NEW n \in Nat, NEW f, Flattens(ss, n, f)
    PROVE  \E g : Flattens(ss, n + 1, g)
<1> DEFINE last == IF n = 0 THEN ss[1] ELSE f[n] \o ss[n + 1]
           g == [i \in 1 .. n + 1 |-> IF i <= n THEN f[i] ELSE last]
           h == [i \in 1 .. n + 1 |-> IF i = 1 THEN ss[i] ELSE g[i - 1] \o ss[i]]
<1>1. \A i \in 1 .. n : i \in 1 .. n + 1 /\ g[i] = f[i]
  OBVIOUS
<1>2. g[n + 1] = last
  OBVIOUS
<1>3. \A i \in 1 .. n : f[i] = IF i = 1 THEN ss[i] ELSE f[i - 1] \o ss[i]
  BY DEF Flattens
<1>4. \A i \in 1 .. n + 1 : h[i] = IF i = 1 THEN ss[i] ELSE g[i - 1] \o ss[i]
  OBVIOUS
<1>5. DOMAIN g = 1 .. n + 1 /\ DOMAIN h = 1 .. n + 1
      /\ g = [i \in 1 .. n + 1 |-> g[i]] /\ h = [i \in 1 .. n + 1 |-> h[i]]
  OBVIOUS
<1> HIDE DEF g, h
<1>6. ASSUME NEW i \in 1 .. n + 1 PROVE h[i] = g[i]
  <2>1. CASE i <= n
    <3>1. i \in 1 .. n /\ (i # 1 => i - 1 \in 1 .. n)
      BY <2>1
    <3> QED BY <1>1, <1>3, <1>4, <3>1
  <2>2. CASE i = n + 1
    <3>1. n # 0 => n \in 1 .. n /\ (n + 1) - 1 = n
      OBVIOUS
    <3> QED BY <1>1, <1>2, <1>4, <2>2, <3>1
  <2> QED BY <2>1, <2>2
<1>7. h = g
  BY <1>5, <1>6
<1> QED BY <1>7 DEF Flattens, h

LEMMA FlattensExists == ASSUME NEW ss, NEW n \in Nat PROVE \E f : Flattens(ss, n, f)
<1> DEFINE S == {m \in Nat : \E f : Flattens(ss, m, f)}
<1>1. 0 \in S
  <2>1. Flattens(ss, 0, [i \in 1 .. 0 |-> ss[i]])
    BY DEF Flattens
  <2> QED BY <2>1
<1>2. \A m \in Nat : m \in S => m + 1 \in S
  BY FlattensNext
<1> HIDE DEF S
<1>3. n \in S
  BY <1>1, <1>2, SetInduction
<1> QED BY <1>3 DEF S

\* It maps i to a sequence, and does not depend on what follows.
LEMMA FlattensSame ==
    ASSUME NEW T, NEW ss, NEW tt, NEW m \in Nat, NEW n \in Nat, m <= n,
           \A i \in 1 .. m : ss[i] = tt[i] /\ ss[i] \in Seq(T),
           NEW f, Flattens(ss, m, f), NEW g, Flattens(tt, n, g)
    PROVE  \A i \in 1 .. m : f[i] = g[i] /\ f[i] \in Seq(T)
<1> DEFINE S == {k \in Nat : k \in 1 .. m => f[k] = g[k] /\ f[k] \in Seq(T)}
<1>1. \A i \in 1 .. m : f[i] = IF i = 1 THEN ss[i] ELSE f[i - 1] \o ss[i]
  BY DEF Flattens
<1>2. \A i \in 1 .. m : g[i] = IF i = 1 THEN tt[i] ELSE g[i - 1] \o tt[i]
  <2>1. \A i \in 1 .. n : g[i] = IF i = 1 THEN tt[i] ELSE g[i - 1] \o tt[i]
    BY DEF Flattens
  <2>2. \A i \in 1 .. m : i \in 1 .. n
    OBVIOUS
  <2> QED BY <2>1, <2>2
<1>3. ASSUME NEW k \in Nat, k \in S PROVE k + 1 \in S
  <2> SUFFICES ASSUME k + 1 \in 1 .. m PROVE f[k + 1] = g[k + 1] /\ f[k + 1] \in Seq(T)
    OBVIOUS
  <2>1. CASE k = 0
    BY <1>1, <1>2, <2>1
  <2>2. CASE k # 0
    <3>1. k \in 1 .. m /\ (k + 1) - 1 = k /\ k + 1 # 1
      BY <2>2
    <3>2. f[k] = g[k] /\ f[k] \in Seq(T)
      BY <1>3, <3>1
    <3>3. f[k + 1] = f[k] \o ss[k + 1] /\ g[k + 1] = g[k] \o tt[k + 1]
      BY <1>1, <1>2, <3>1
    <3>4. ss[k + 1] = tt[k + 1] /\ ss[k + 1] \in Seq(T)
      OBVIOUS
    <3>5. f[k] \o ss[k + 1] \in Seq(T)
      BY <3>2, <3>4
    <3> QED BY <3>2, <3>3, <3>4, <3>5
  <2> QED BY <2>1, <2>2
<1>4. 0 \in S
  OBVIOUS
<1> HIDE DEF S
<1>5. \A k \in Nat : k \in S
  BY <1>3, <1>4, SetInduction
<1> QED BY <1>5 DEF S

LEMMA FlattenSeqIs ==
    ASSUME NEW ss, Len(ss) \in Nat \ {0}
    PROVE  \E f : Flattens(ss, Len(ss), f) /\ D!FlattenSeq(ss) = f[Len(ss)]
<1> DEFINE f == CHOOSE f : f = [i \in 1 .. Len(ss) |-> IF i = 1 THEN ss[i] ELSE f[i - 1] \o ss[i]]
<1>1. D!FlattenSeq(ss) = f[Len(ss)]
  BY DEF D!FlattenSeq
<1>2. \E g : g = [i \in 1 .. Len(ss) |-> IF i = 1 THEN ss[i] ELSE g[i - 1] \o ss[i]]
  BY FlattensExists DEF Flattens
<1>3. f = [i \in 1 .. Len(ss) |-> IF i = 1 THEN ss[i] ELSE f[i - 1] \o ss[i]]
  BY <1>2
<1> HIDE DEF f
<1> QED BY <1>1, <1>3 DEF Flattens

\* One more sequence is appended to what the others give.
LEMMA FlattenAppend ==
    ASSUME NEW T, NEW ss \in Seq(Seq(T)), NEW t \in Seq(T)
    PROVE  /\ D!FlattenSeq(<<>>) = <<>>
           /\ D!FlattenSeq(ss) \in Seq(T)
           /\ D!FlattenSeq(Append(ss, t)) = D!FlattenSeq(ss) \o t
<1> DEFINE tt == Append(ss, t)
           n == Len(ss)
<1>1. /\ n \in Nat /\ Len(tt) = n + 1 /\ tt[n + 1] = t
      /\ \A i \in 1 .. n : ss[i] = tt[i] /\ ss[i] \in Seq(T)
  OBVIOUS
<1>2. D!FlattenSeq(<<>>) = <<>>
  BY DEF D!FlattenSeq
<1> HIDE DEF tt
<1>3. PICK g : Flattens(tt, n + 1, g) /\ D!FlattenSeq(tt) = g[n + 1]
  BY <1>1, FlattenSeqIs
<1>4. \A i \in 1 .. n + 1 : g[i] = IF i = 1 THEN tt[i] ELSE g[i - 1] \o tt[i]
  BY <1>3 DEF Flattens
<1>5. CASE n = 0
  <2>1. ss = <<>>
    BY <1>5
  <2>2. g[n + 1] = t
    BY <1>1, <1>4, <1>5
  <2>3. D!FlattenSeq(ss) = <<>>
    BY <1>2, <2>1
  <2> QED BY <1>2, <1>3, <2>2, <2>3 DEF tt
<1>6. CASE n # 0
  <2>1. PICK f : Flattens(ss, n, f) /\ D!FlattenSeq(ss) = f[n]
    BY <1>1, <1>6, FlattenSeqIs
  <2>2. n <= n + 1 /\ n + 1 \in Nat
    BY <1>1
  <2>3. \A i \in 1 .. n : f[i] = g[i] /\ f[i] \in Seq(T)
    <3> HIDE DEF n
    <3> QED BY <1>1, <1>3, <2>1, <2>2, FlattensSame
  <2>4. f[n] = g[n] /\ f[n] \in Seq(T)
    BY <1>1, <1>6, <2>3
  <2>5. g[n + 1] = g[n] \o t
    <3>1. n + 1 \in 1 .. n + 1 /\ n + 1 # 1 /\ (n + 1) - 1 = n
      BY <1>1, <1>6
    <3> QED BY <1>1, <1>4, <3>1
  <2> QED BY <1>2, <1>3, <2>1, <2>4, <2>5 DEF tt
<1> QED BY <1>5, <1>6

-----------------------------------------------------------------------------
(* dumb_epoll.c, one connection *)

Words == {"PONG", "RESULT", "A", "DONE"}

\* What arrives: a line for each request, in order.
D_Lines(n) == D!FlattenSeq([k \in 1 .. n |-> D!Line(k)])

\* The tokens of the first n requests come in order, and those behind a newline
\* are another request's.
D_Ordered(n) ==
    LET s == D_Lines(n)
    IN  /\ s \in Seq(Nat \X Nat)
        /\ \A p \in 1 .. Len(s) : s[p][1] \in 1 .. n
        /\ \A p, q \in 1 .. Len(s) : p < q => /\ s[p][1] <= s[q][1]
                                              /\ D!IsNewline(s[p]) => s[p][1] < s[q][1]

LEMMA D_Script ==
    ASSUME session \in Sessions
    PROVE  /\ D!Script \in Seq([type : D!Types, body : Nat, n : Nat])
           /\ Len(D!Script) \in Nat
           /\ \A k \in 1 .. Len(D!Script) :
                 /\ D!Script[k].type \in D!Types /\ D!Script[k].body \in Nat /\ D!Script[k].n \in Nat
                 /\ D!Line(k) \in Seq(Nat \X Nat) /\ Len(D!Line(k)) = D!Script[k].body + 1
                 /\ \A j \in 1 .. Len(D!Line(k)) : D!Line(k)[j] = <<k, j>>
<1>1. D!Script \in Seq([type : D!Types, body : Nat, n : Nat])
  BY ServersAssumption DEF D!ConnectionConstants, D!Script
<1>2. Len(D!Script) \in Nat /\ \A k \in 1 .. Len(D!Script) : D!Script[k] \in [type : D!Types, body : Nat, n : Nat]
  BY <1>1, LenProperties, ElementOfSeq
<1>3. ASSUME NEW k \in 1 .. Len(D!Script)
      PROVE  /\ D!Script[k].type \in D!Types /\ D!Script[k].body \in Nat /\ D!Script[k].n \in Nat
             /\ D!Line(k) \in Seq(Nat \X Nat) /\ Len(D!Line(k)) = D!Script[k].body + 1
             /\ \A j \in 1 .. Len(D!Line(k)) : D!Line(k)[j] = <<k, j>>
  <2>1. D!Script[k].type \in D!Types /\ D!Script[k].body \in Nat /\ D!Script[k].n \in Nat
    BY <1>2
  <2>2. k \in Nat
    BY <1>2
  <2>3. D!Line(k) = [j \in 1 .. D!Script[k].body + 1 |-> <<k, j>>]
    BY DEF D!Line
  <2>4. \A j \in 1 .. D!Script[k].body + 1 : <<k, j>> \in Nat \X Nat
    BY <2>1, <2>2
  <2> QED BY <2>1, <2>3, <2>4
<1> QED BY <1>1, <1>2, <1>3

LEMMA D_LinesNext ==
    ASSUME session \in Sessions, NEW n \in Nat, n + 1 <= Len(D!Script)
    PROVE  /\ D_Lines(0) = <<>>
           /\ D_Lines(n + 1) = D_Lines(n) \o D!Line(n + 1)
<1> DEFINE ss == [k \in 1 .. n |-> D!Line(k)]
<1>1. \A k \in 1 .. n + 1 : k \in 1 .. Len(D!Script)
  BY D_Script
<1>2. ss \in Seq(Seq(Nat \X Nat)) /\ D!Line(n + 1) \in Seq(Nat \X Nat)
  BY <1>1, D_Script
<1>3. [k \in 1 .. n + 1 |-> D!Line(k)] = Append(ss, D!Line(n + 1))
  BY <1>2
<1>4. [k \in 1 .. 0 |-> D!Line(k)] = <<>>
  OBVIOUS
<1> HIDE DEF ss
<1>5. D!FlattenSeq(Append(ss, D!Line(n + 1))) = D!FlattenSeq(ss) \o D!Line(n + 1)
  BY <1>2, FlattenAppend
<1>6. D!FlattenSeq(<<>>) = <<>>
  BY <1>2, FlattenAppend
<1> QED BY <1>3, <1>4, <1>5, <1>6 DEF D_Lines, ss

LEMMA D_LinesOrdered ==
    ASSUME session \in Sessions, NEW n \in Nat, n + 1 <= Len(D!Script), D_Ordered(n)
    PROVE  D_Ordered(n + 1)
<1> DEFINE s == D_Lines(n)
           l == D!Line(n + 1)
           t == D_Lines(n + 1)
<1>1. s \in Seq(Nat \X Nat) /\ Len(s) \in Nat
  BY DEF D_Ordered
<1>2. n + 1 \in 1 .. Len(D!Script)
  BY D_Script
<1>3. /\ l \in Seq(Nat \X Nat) /\ Len(l) \in Nat /\ Len(l) = D!Script[n + 1].body + 1
      /\ \A j \in 1 .. Len(l) : l[j] = <<n + 1, j>>
  <2> DEFINE k == n + 1
  <2>1. k \in 1 .. Len(D!Script)
    BY <1>2
  <2> HIDE DEF k
  <2>2. /\ D!Script[k].body \in Nat
        /\ D!Line(k) \in Seq(Nat \X Nat) /\ Len(D!Line(k)) = D!Script[k].body + 1
        /\ \A j \in 1 .. Len(D!Line(k)) : D!Line(k)[j] = <<k, j>>
    BY <2>1, D_Script
  <2>3. Len(D!Line(k)) \in Nat
    BY <2>2
  <2> QED BY <2>2, <2>3 DEF k
<1>4. t = s \o l
  BY D_LinesNext
<1>5. \A p \in 1 .. Len(s) : s[p][1] \in 1 .. n
  BY DEF D_Ordered
<1>6. \A p, q \in 1 .. Len(s) : p < q => /\ s[p][1] <= s[q][1]
                                         /\ D!IsNewline(s[p]) => s[p][1] < s[q][1]
  BY DEF D_Ordered
<1> HIDE DEF s, l, t
<1>7. /\ t \in Seq(Nat \X Nat) /\ Len(t) = Len(s) + Len(l)
      /\ \A p \in 1 .. Len(s) : t[p] = s[p]
      /\ \A p \in Len(s) + 1 .. Len(t) : t[p] = l[p - Len(s)]
  <2>1. /\ t \in Seq(Nat \X Nat) /\ Len(t) = Len(s) + Len(l)
        /\ \A p \in 1 .. Len(s) + Len(l) : t[p] = IF p <= Len(s) THEN s[p] ELSE l[p - Len(s)]
    BY <1>1, <1>3, <1>4, ConcatProperties
  <2>2. ASSUME NEW p \in 1 .. Len(s) PROVE t[p] = s[p]
    <3>1. Len(s) \in Nat /\ Len(l) \in Nat
      BY <1>1, <1>3
    <3>2. p \in 1 .. Len(s) + Len(l) /\ p <= Len(s)
      BY <3>1
    <3> QED BY <2>1, <3>2
  <2>3. ASSUME NEW p \in Len(s) + 1 .. Len(t) PROVE t[p] = l[p - Len(s)]
    <3>1. p \in 1 .. Len(s) + Len(l) /\ ~(p <= Len(s))
      BY <1>1, <1>3, <2>1
    <3> QED BY <2>1, <3>1
  <2> QED BY <2>1, <2>2, <2>3
<1>8. \A p \in Len(s) + 1 .. Len(t) : t[p] = <<n + 1, p - Len(s)>> /\ t[p][1] = n + 1
  <2>1. \A p \in Len(s) + 1 .. Len(t) : p - Len(s) \in 1 .. Len(l)
    BY <1>1, <1>3, <1>7
  <2>2. \A p \in Len(s) + 1 .. Len(t) : t[p] = <<n + 1, p - Len(s)>>
    BY <1>3, <1>7, <2>1
  <2> QED BY <2>2
<1>9. \A p \in 1 .. Len(t) : p \in 1 .. Len(s) \/ p \in Len(s) + 1 .. Len(t)
  BY <1>1, <1>3, <1>7
<1>10. \A p \in 1 .. Len(t) : t[p][1] \in 1 .. n + 1
  <2>1. \A p \in 1 .. Len(s) : t[p][1] \in 1 .. n
    BY <1>5, <1>7
  <2>2. \A m \in 1 .. n : m \in 1 .. n + 1
    OBVIOUS
  <2> QED BY <1>8, <1>9, <2>1, <2>2
<1>11. ASSUME NEW p \in 1 .. Len(t), NEW q \in 1 .. Len(t), p < q
       PROVE  t[p][1] <= t[q][1] /\ (D!IsNewline(t[p]) => t[p][1] < t[q][1])
  <2>1. CASE p \in 1 .. Len(s) /\ q \in 1 .. Len(s)
    BY <1>6, <1>7, <1>11, <2>1
  <2>2. CASE p \in 1 .. Len(s) /\ q \in Len(s) + 1 .. Len(t)
    <3>1. t[p][1] \in 1 .. n /\ t[q][1] = n + 1
      <4>1. t[p] = s[p] /\ s[p][1] \in 1 .. n
        BY <1>5, <1>7, <2>2
      <4> QED BY <1>8, <2>2, <4>1
    <3> QED BY <3>1
  <2>3. CASE p \in Len(s) + 1 .. Len(t)
    <3>1. q \in Len(s) + 1 .. Len(t)
      BY <1>1, <1>11, <2>3
    <3>2. t[p] = <<n + 1, p - Len(s)>> /\ t[q] = <<n + 1, q - Len(s)>>
      BY <1>8, <2>3, <3>1
    <3>3. p - Len(s) # D!Script[n + 1].body + 1
      BY <1>1, <1>3, <1>7, <1>11, <2>3, <3>1
    <3>4. ~D!IsNewline(t[p])
      BY <3>2, <3>3 DEF D!IsNewline
    <3> QED BY <3>2, <3>4
  <2> QED BY <1>9, <1>11, <2>1, <2>2, <2>3
<1> QED BY <1>7, <1>10, <1>11 DEF D_Ordered, t

LEMMA D_InputOrdered ==
    ASSUME session \in Sessions
    PROVE  /\ D!Input \in Seq(Nat \X Nat) /\ Len(D!Input) \in Nat
           /\ \A p \in 1 .. Len(D!Input) : D!Input[p][1] \in 1 .. Len(D!Script)
           /\ \A p, q \in 1 .. Len(D!Input) :
                 p < q => /\ D!Input[p][1] <= D!Input[q][1]
                          /\ D!IsNewline(D!Input[p]) => D!Input[p][1] < D!Input[q][1]
<1> DEFINE S == {n \in Nat : n <= Len(D!Script) => D_Ordered(n)}
<1>1. 0 \in S
  <2>1. [k \in 1 .. 0 |-> D!Line(k)] = <<>>
    OBVIOUS
  <2>2. D_Lines(0) = <<>>
    BY <2>1 DEF D_Lines, D!FlattenSeq
  <2>3. Len(D_Lines(0)) = 0 /\ D_Lines(0) \in Seq(Nat \X Nat)
    BY <2>2, EmptySeq
  <2> QED BY <2>3 DEF D_Ordered
<1>2. ASSUME NEW n \in Nat, n \in S PROVE n + 1 \in S
  <2>1. n + 1 <= Len(D!Script) => n <= Len(D!Script)
    BY D_Script
  <2> QED BY <1>2, <2>1, D_LinesOrdered
<1> HIDE DEF S
<1>3. Len(D!Script) \in S
  BY <1>1, <1>2, D_Script, SetInduction
<1>4. D_Ordered(Len(D!Script))
  BY <1>3, D_Script DEF S
<1>5. D!Input = D_Lines(Len(D!Script))
  BY DEF D!Input, D_Lines
<1> QED BY <1>4, <1>5 DEF D_Ordered

\* The part of the buffer that is waiting for its newline.
D_Held == IF state = "READ" THEN read_len ELSE 0

D_TypeOK ==
    /\ session \in Sessions
    /\ d_sent \in 0 .. Len(D!Input) /\ d_got \in 0 .. d_sent
    /\ state \in D!States /\ interest \in {"IN", "OUT"}
    /\ read_len \in 0 .. CAP
    /\ bytes_to_send \in Nat /\ bytes_sent \in 0 .. bytes_to_send
    /\ d_out \in Seq(Words \X Nat \X Nat) /\ executed \in Seq(1 .. Len(D!Script))

\* What is held is the end of what was read, and leaves room.
D_Buffer ==
    /\ state = "READ" => read_len < CAP
    /\ (interest = "IN") <=> (state = "READ")
    /\ D_Held <= d_got
    /\ D_Held # 0 => read_buf \in Seq(Nat \X Nat) /\ Len(read_buf) = D_Held
    /\ \A i \in 1 .. D_Held : read_buf[i] = D!Input[d_got - D_Held + i]

\* Requests are executed in order, and none that is still to come has been.
D_Executed ==
    /\ \A i, j \in 1 .. Len(executed) : i < j => executed[i] < executed[j]
    /\ \A i \in 1 .. Len(executed), p \in d_got - D_Held + 1 .. Len(D!Input) :
          executed[i] < D!Input[p][1]

\* The request whose response is written, those before it, and how much of the
\* response has been written.
D_Now    == executed[Len(executed)]
D_Before == SubSeq(executed, 1, Len(executed) - 1)
D_Said   == IF state = "DONE" THEN D!Script[D_Now].n + bytes_sent ELSE bytes_sent

D_Writes ==
    /\ executed # <<>>
    /\ d_out = D!Responses(D_Before) \o SubSeq(D!Response(D_Now), 1, D_Said)
    /\ \/ state = "PONG" /\ D!Script[D_Now].type = "PING" /\ bytes_to_send = MsgLen
       \/ /\ state = "BURN" /\ D!Script[D_Now].type = "BURN" /\ bytes_to_send = MsgLen
          /\ read_buf = D!Msg("RESULT")
       \/ /\ state = "STREAM" /\ D!Script[D_Now].type = "STREAM"
          /\ bytes_to_send = D!Script[D_Now].n
       \/ state = "DONE" /\ D!Script[D_Now].type = "STREAM" /\ bytes_to_send = MsgLen

\* The client has whole responses, and the beginning of one while it is written.
D_Out == IF state = "READ" THEN d_out = D!Responses(executed) ELSE D_Writes

D_Inv == D_TypeOK /\ D_Buffer /\ D_Executed /\ D_Out

LEMMA TakeMore ==
    ASSUME NEW T, NEW a \in Seq(T), NEW r \in Seq(T), NEW m \in Nat, NEW n \in Nat, m + n <= Len(r)
    PROVE  (a \o SubSeq(r, 1, m)) \o SubSeq(r, m + 1, m + n) = a \o SubSeq(r, 1, m + n)
<1> DEFINE b == SubSeq(r, 1, m)
           c == SubSeq(r, m + 1, m + n)
           d == SubSeq(r, 1, m + n)
<1>1. /\ b \in Seq(T) /\ Len(b) = m /\ \A i \in 1 .. m : b[i] = r[i]
      /\ c \in Seq(T) /\ Len(c) = n /\ \A i \in 1 .. n : c[i] = r[m + i]
      /\ d \in Seq(T) /\ Len(d) = m + n /\ \A i \in 1 .. m + n : d[i] = r[i]
  <2>1. \A i \in 1 .. m + n : r[i] \in T
    BY ElementOfSeq
  <2>2. b \in Seq(T) /\ Len(b) = m /\ \A i \in 1 .. m : b[i] = r[i]
    <3>1. \A i \in 1 .. m : r[i] \in T
      BY <2>1
    <3>2. /\ b \in Seq(T) /\ Len(b) = IF 1 <= m THEN m - 1 + 1 ELSE 0
          /\ \A i \in 1 .. m - 1 + 1 : b[i] = r[1 + i - 1]
      BY <3>1, SubSeqProperties
    <3> HIDE DEF b
    <3> QED BY <3>2
  <2>3. c \in Seq(T) /\ Len(c) = n /\ \A i \in 1 .. n : c[i] = r[m + i]
    <3>1. \A i \in m + 1 .. m + n : r[i] \in T
      BY <2>1
    <3>2. /\ c \in Seq(T) /\ Len(c) = IF m + 1 <= m + n THEN (m + n) - (m + 1) + 1 ELSE 0
          /\ \A i \in 1 .. (m + n) - (m + 1) + 1 : c[i] = r[(m + 1) + i - 1]
      <4> DEFINE lo == m + 1
                 hi == m + n
      <4>1. lo \in Int /\ hi \in Int /\ \A i \in lo .. hi : r[i] \in T
        BY <3>1
      <4> HIDE DEF lo, hi
      <4>2. /\ SubSeq(r, lo, hi) \in Seq(T) /\ Len(SubSeq(r, lo, hi)) = IF lo <= hi THEN hi - lo + 1 ELSE 0
            /\ \A i \in 1 .. hi - lo + 1 : SubSeq(r, lo, hi)[i] = r[lo + i - 1]
        BY <4>1, SubSeqProperties
      <4> QED BY <4>2 DEF lo, hi
    <3>3. (m + n) - (m + 1) + 1 = n /\ \A i \in 1 .. n : (m + 1) + i - 1 = m + i
      OBVIOUS
    <3> HIDE DEF c
    <3> QED BY <3>2, <3>3
  <2>4. d \in Seq(T) /\ Len(d) = m + n /\ \A i \in 1 .. m + n : d[i] = r[i]
    <3>1. /\ d \in Seq(T) /\ Len(d) = IF 1 <= m + n THEN (m + n) - 1 + 1 ELSE 0
          /\ \A i \in 1 .. (m + n) - 1 + 1 : d[i] = r[1 + i - 1]
      <4>1. 1 \in Int /\ m + n \in Int
        OBVIOUS
      <4> QED BY <2>1, <4>1, SubSeqProperties
    <3> HIDE DEF d
    <3> QED BY <3>1
  <2> QED BY <2>2, <2>3, <2>4
<1> HIDE DEF b, c, d
<1>2. b \o c = d
  <2>1. b \o c \in Seq(T) /\ Len(b \o c) = m + n
    BY <1>1
  <2>2. ASSUME NEW i \in 1 .. m + n PROVE (b \o c)[i] = d[i]
    <3>1. (b \o c)[i] = IF i <= m THEN b[i] ELSE c[i - m]
      BY <1>1, ConcatProperties
    <3>2. CASE i <= m
      BY <1>1, <3>1, <3>2
    <3>3. CASE ~(i <= m)
      <4>1. i - m \in 1 .. n /\ m + (i - m) = i
        BY <3>3
      <4> QED BY <1>1, <3>1, <3>3, <4>1
    <3> QED BY <3>2, <3>3
  <2> QED BY <1>1, <2>1, <2>2, SeqEqual
<1>3. (a \o b) \o c = a \o (b \o c)
  <2>1. b \in Seq(T) /\ c \in Seq(T)
    BY <1>1
  <2> QED BY <2>1
<1> QED BY <1>2, <1>3 DEF b, c, d

LEMMA PrefixOfMore ==
    ASSUME NEW T, NEW a \in Seq(T), NEW r \in Seq(T), NEW m \in 0 .. Len(r)
    PROVE  D!IsPrefix(a \o SubSeq(r, 1, m), a \o r)
<1> DEFINE b == SubSeq(r, 1, m)
           s == a \o b
           t == a \o r
<1>1. Len(a) \in Nat /\ Len(r) \in Nat /\ m \in Nat /\ m <= Len(r)
  OBVIOUS
<1>2. b \in Seq(T) /\ Len(b) = m /\ \A i \in 1 .. m : b[i] = r[i]
  BY <1>1, SubSeqProperties
<1> HIDE DEF b
<1>3. /\ s \in Seq(T) /\ Len(s) = Len(a) + m
      /\ \A i \in 1 .. Len(a) + m : s[i] = IF i <= Len(a) THEN a[i] ELSE b[i - Len(a)]
  BY <1>2, ConcatProperties
<1>4. /\ t \in Seq(T) /\ Len(t) = Len(a) + Len(r)
      /\ \A i \in 1 .. Len(a) + Len(r) : t[i] = IF i <= Len(a) THEN a[i] ELSE r[i - Len(a)]
  BY ConcatProperties
<1> HIDE DEF s, t
<1>5. ASSUME NEW i \in 1 .. Len(s) PROVE s[i] = t[i]
  <2>1. i \in 1 .. Len(a) + m /\ i \in 1 .. Len(a) + Len(r)
    BY <1>1, <1>3
  <2>2. ~(i <= Len(a)) => i - Len(a) \in 1 .. m
    BY <1>1, <2>1
  <2> QED BY <1>2, <1>3, <1>4, <2>1, <2>2
<1>6. SubSeq(s, 1, Len(s)) = [i \in 1 .. Len(s) |-> s[i]]
      /\ SubSeq(t, 1, Len(s)) = [i \in 1 .. Len(s) |-> t[i]]
  BY <1>1, <1>3, <1>4
<1>7. SubSeq(s, 1, Len(s)) = SubSeq(t, 1, Len(s))
  BY <1>5, <1>6
<1>8. Len(s) <= Len(t)
  BY <1>1, <1>3, <1>4
<1> QED BY <1>7, <1>8 DEF D!IsPrefix, s, t, b

LEMMA D_ResponseType ==
    ASSUME session \in Sessions, NEW k \in 1 .. Len(D!Script)
    PROVE  /\ MsgLen \in Nat
           /\ D!Response(k) \in Seq(Words \X Nat \X Nat)
           /\ D!Script[k].type = "PING" => D!Response(k) = D!Msg("PONG")
           /\ D!Script[k].type = "BURN" => D!Response(k) = D!Msg("RESULT")
           /\ D!Script[k].type = "STREAM" => D!Response(k) = D!Stars(D!Script[k].n) \o D!Msg("DONE")
<1>1. MsgLen \in Nat
  BY ServersAssumption DEF D!ConnectionConstants
<1>2. \A m \in {"PONG", "RESULT", "DONE"} : D!Msg(m) \in Seq(Words \X Nat \X Nat)
  <2> SUFFICES ASSUME NEW m \in {"PONG", "RESULT", "DONE"} PROVE D!Msg(m) \in Seq(Words \X Nat \X Nat)
    OBVIOUS
  <2>1. \A j \in 1 .. MsgLen : <<m, j, MsgLen>> \in Words \X Nat \X Nat
    BY <1>1 DEF Words
  <2> QED BY <1>1, <2>1 DEF D!Msg
<1>3. \A n \in Nat : D!Stars(n) \in Seq(Words \X Nat \X Nat)
  <2>1. <<"A", 1, 1>> \in Words \X Nat \X Nat
    BY DEF Words
  <2> QED BY <2>1 DEF D!Stars
<1>4. D!Script[k].type \in D!Types /\ D!Script[k].n \in Nat
  BY D_Script
<1>5. /\ D!Script[k].type = "PING" => D!Response(k) = D!Msg("PONG")
      /\ D!Script[k].type = "BURN" => D!Response(k) = D!Msg("RESULT")
      /\ D!Script[k].type = "STREAM" => D!Response(k) = D!Stars(D!Script[k].n) \o D!Msg("DONE")
      /\ D!Script[k].type = "unknown" => D!Response(k) = <<>>
  BY DEF D!Response
<1>6. D!Stars(D!Script[k].n) \o D!Msg("DONE") \in Seq(Words \X Nat \X Nat)
  <2>1. D!Stars(D!Script[k].n) \in Seq(Words \X Nat \X Nat) /\ D!Msg("DONE") \in Seq(Words \X Nat \X Nat)
    BY <1>2, <1>3, <1>4
  <2> QED BY <2>1, ConcatProperties
<1> QED BY <1>1, <1>2, <1>4, <1>5, <1>6, EmptySeq DEF D!Types

LEMMA D_ResponsesAppend ==
    ASSUME session \in Sessions, NEW e \in Seq(1 .. Len(D!Script)), NEW k \in 1 .. Len(D!Script)
    PROVE  /\ D!Responses(<<>>) = <<>>
           /\ D!Responses(e) \in Seq(Words \X Nat \X Nat)
           /\ D!Responses(Append(e, k)) = D!Responses(e) \o D!Response(k)
<1> DEFINE n == Len(e)
           ss == [i \in 1 .. n |-> D!Response(e[i])]
           tt == [i \in 1 .. n + 1 |-> D!Response(Append(e, k)[i])]
<1>1. n \in Nat /\ Len(Append(e, k)) = n + 1 /\ Append(e, k)[n + 1] = k
      /\ \A i \in 1 .. n : Append(e, k)[i] = e[i] /\ e[i] \in 1 .. Len(D!Script)
  BY ElementOfSeq, LenProperties, AppendProperties
<1>2. \A i \in 1 .. n : D!Response(e[i]) \in Seq(Words \X Nat \X Nat)
  BY <1>1, D_ResponseType
<1>3. ss \in Seq(Seq(Words \X Nat \X Nat)) /\ D!Response(k) \in Seq(Words \X Nat \X Nat)
  BY <1>1, <1>2, D_ResponseType
<1>4. tt = Append(ss, D!Response(k))
  BY <1>1, <1>3
<1>5. D!Responses(e) = D!FlattenSeq(ss) /\ D!Responses(Append(e, k)) = D!FlattenSeq(tt)
  BY <1>1 DEF D!Responses
<1>6. D!Responses(<<>>) = D!FlattenSeq(<<>>)
  <2>1. [i \in 1 .. Len(<<>>) |-> D!Response(<<>>[i])] = <<>>
    OBVIOUS
  <2> QED BY <2>1 DEF D!Responses
<1> HIDE DEF ss, tt
<1> QED BY <1>3, <1>4, <1>5, <1>6, FlattenAppend

LEMMA D_InvInit == D!Init => D_Inv
<1> SUFFICES ASSUME D!Init PROVE D_Inv
  OBVIOUS
<1>1. session \in Sessions /\ executed = <<>> /\ d_out = <<>>
  BY DEF D!Init
<1>2. Len(D!Input) \in Nat /\ Len(D!Script) \in Nat
  BY <1>1, D_InputOrdered, D_Script
<1>3. CAP \in Nat \ {0}
  BY ServersAssumption DEF D!ConnectionConstants
<1>4. D_TypeOK
  BY <1>1, <1>2, <1>3 DEF D!Init, D_TypeOK, D!States
<1>5. D_Buffer
  BY <1>2, <1>3 DEF D!Init, D_Buffer, D_Held
<1>6. D_Executed
  BY <1>1 DEF D_Executed
<1>7. D_Out
  <2>1. D!Responses(<<>>) = <<>>
    <3>1. [i \in 1 .. Len(<<>>) |-> D!Response(<<>>[i])] = <<>>
      OBVIOUS
    <3> QED BY <3>1 DEF D!Responses, D!FlattenSeq
  <2> QED BY <1>1, <2>1 DEF D!Init, D_Out
<1> QED BY <1>4, <1>5, <1>6, <1>7 DEF D_Inv

LEMMA D_Same ==
    ASSUME session' = session
    PROVE  /\ D!Script' = D!Script /\ D!Input' = D!Input
           /\ D!Responses(executed)' = D!Responses(executed')
           /\ D!Responses(D_Before)' = D!Responses(D_Before')
           /\ D!Response(D_Now)' = D!Response(D_Now')
<1>1. D!Script' = D!Script
  BY DEF D!Script
<1>2. D!Input' = D!Input
  BY <1>1 DEF D!Input, D!Line
<1>3. D!Response(D_Now)' = D!Response(D_Now')
  BY <1>1 DEF D!Response, D!Msg, D!Stars
<1>4. D!Responses(executed)' = D!Responses(executed')
  BY <1>1 DEF D!Responses, D!Response, D!Msg, D!Stars
<1>5. D!Responses(D_Before)' = D!Responses(D_Before')
  BY <1>1 DEF D!Responses, D!Response, D!Msg, D!Stars
<1> QED BY <1>1, <1>2, <1>3, <1>4, <1>5

\* The client sends, shuts down or vanishes; the server closes.
LEMMA D_Quiet ==
    ASSUME D_Inv, d_sent' \in d_got .. Len(D!Input),
           UNCHANGED <<session, d_got, read_buf, read_len, state, bytes_to_send, bytes_sent,
                       interest, d_out, executed>>
    PROVE  D_Inv'
<1>1. /\ D!Script' = D!Script /\ D!Input' = D!Input
      /\ D!Responses(executed)' = D!Responses(executed)
      /\ D_Now' = D_Now /\ D_Before' = D_Before
      /\ D!Responses(D_Before)' = D!Responses(D_Before)
      /\ D!Response(D_Now)' = D!Response(D_Now)
  BY D_Same DEF D_Now, D_Before
<1>2. session \in Sessions
  BY DEF D_Inv, D_TypeOK
<1>3. D_TypeOK'
  BY <1>1, <1>2, D_InputOrdered DEF D_Inv, D_TypeOK
<1>4. D_Held' = D_Held
  BY DEF D_Held
<1>5. D_Buffer'
  BY <1>1, <1>4 DEF D_Inv, D_Buffer
<1>6. D_Executed'
  BY <1>1, <1>4 DEF D_Inv, D_Executed
<1>7. D_Out'
  <2>1. D_Said' = D_Said
    BY <1>1 DEF D_Said
  <2> QED BY <1>1, <2>1 DEF D_Inv, D_Out, D_Writes, D!Msg
<1> QED BY <1>3, <1>5, <1>6, <1>7 DEF D_Inv

LEMMA D_Least == ASSUME NEW x \in Int, NEW y \in Int
                 PROVE  D!Min({x, y}) \in {x, y} /\ D!Min({x, y}) <= x /\ D!Min({x, y}) <= y
<1>1. \E z \in {x, y} : \A w \in {x, y} : z <= w
  <2>1. CASE x <= y
    BY <2>1
  <2>2. CASE y <= x
    BY <2>2
  <2> QED BY <2>1, <2>2
<1> QED BY <1>1 DEF D!Min

LEMMA D_Buffered ==
    ASSUME D_Inv, interest = "IN", NEW n \in 1 .. D!Min({D!Available, CAP - read_len})
    PROVE  /\ n \in Nat \ {0} /\ d_got \in Nat /\ read_len \in Nat /\ CAP \in Nat
           /\ state = "READ" /\ D_Held = read_len /\ read_len <= d_got
           /\ d_got + n <= d_sent /\ d_got + n <= Len(D!Input) /\ read_len + n <= CAP
           /\ D!Buffer(n) \in Seq(Nat \X Nat) /\ Len(D!Buffer(n)) = read_len + n
           /\ \A i \in 1 .. read_len + n : D!Buffer(n)[i] = D!Input[d_got - read_len + i]
<1>1. /\ CAP \in Nat /\ read_len \in 0 .. CAP /\ d_sent \in 0 .. Len(D!Input) /\ d_got \in 0 .. d_sent
      /\ Len(D!Input) \in Nat /\ D!Input \in Seq(Nat \X Nat)
  BY ServersAssumption, D_InputOrdered DEF D!ConnectionConstants, D_Inv, D_TypeOK
<1>2. D!Available \in Int /\ CAP - read_len \in Int /\ D!Available = d_sent - d_got
  BY <1>1 DEF D!Available
<1>3. n \in Nat \ {0} /\ n <= d_sent - d_got /\ n <= CAP - read_len
  <2>1. PICK m : m = D!Min({D!Available, CAP - read_len})
    OBVIOUS
  <2>2. m \in {D!Available, CAP - read_len} /\ m <= D!Available /\ m <= CAP - read_len
    BY <1>2, <2>1, D_Least
  <2>3. n \in 1 .. m /\ m \in Int
    BY <1>2, <2>1, <2>2
  <2> QED BY <1>1, <1>2, <2>2, <2>3
<1>4. state = "READ" /\ D_Held = read_len /\ read_len <= d_got
  BY DEF D_Inv, D_Buffer, D_Held
<1>5. d_got + n <= d_sent /\ d_got + n <= Len(D!Input) /\ read_len + n <= CAP
  BY <1>1, <1>3
<1> DEFINE a == SubSeq(read_buf, 1, read_len)
           t == SubSeq(D!Input, d_got + 1, d_got + n)
<1>6. /\ a \in Seq(Nat \X Nat) /\ Len(a) = read_len
      /\ \A i \in 1 .. read_len : a[i] = D!Input[d_got - read_len + i]
  <2>1. CASE read_len = 0
    <3>1. a = <<>>
      BY <2>1
    <3> QED BY <2>1, <3>1, EmptySeq
  <2>2. CASE read_len # 0
    <3>1. read_buf \in Seq(Nat \X Nat) /\ Len(read_buf) = read_len
      BY <1>4, <2>2 DEF D_Inv, D_Buffer
    <3>2. \A i \in 1 .. read_len : read_buf[i] = D!Input[d_got - read_len + i]
      BY <1>4 DEF D_Inv, D_Buffer
    <3>3. a = read_buf
      BY <1>1, <3>1
    <3> QED BY <3>1, <3>2, <3>3
  <2> QED BY <2>1, <2>2
<1>7. /\ t \in Seq(Nat \X Nat) /\ Len(t) = n
      /\ \A i \in 1 .. n : t[i] = D!Input[d_got + i]
  <2>1. /\ t \in Seq(Nat \X Nat) /\ Len(t) = (d_got + n) - (d_got + 1) + 1
        /\ \A i \in 1 .. (d_got + n) - (d_got + 1) + 1 : t[i] = D!Input[(d_got + 1) + i - 1]
    <3>1. \A i \in d_got + 1 .. d_got + n : i \in 1 .. Len(D!Input)
      BY <1>1, <1>3, <1>5
    <3>2. \A i \in d_got + 1 .. d_got + n : D!Input[i] \in Nat \X Nat
      BY <1>1, <3>1, ElementOfSeq
    <3>3. d_got + 1 \in Int /\ d_got + n \in Int /\ d_got + 1 <= d_got + n
      BY <1>1, <1>3
    <3> QED BY <3>2, <3>3, SubSeqProperties
  <2>2. (d_got + n) - (d_got + 1) + 1 = n /\ \A i \in 1 .. n : (d_got + 1) + i - 1 = d_got + i
    BY <1>1, <1>3
  <2> HIDE DEF t
  <2> QED BY <2>1, <2>2
<1>8. D!Buffer(n) = a \o t
  BY DEF D!Buffer
<1> HIDE DEF a, t
<1>9. D!Buffer(n) \in Seq(Nat \X Nat) /\ Len(D!Buffer(n)) = read_len + n
  BY <1>6, <1>7, <1>8, ConcatProperties
<1>10. ASSUME NEW i \in 1 .. read_len + n PROVE D!Buffer(n)[i] = D!Input[d_got - read_len + i]
  <2>1. D!Buffer(n)[i] = IF i <= read_len THEN a[i] ELSE t[i - read_len]
    <3>1. i \in 1 .. Len(a) + Len(t)
      BY <1>6, <1>7
    <3>2. (a \o t)[i] = IF i <= Len(a) THEN a[i] ELSE t[i - Len(a)]
      BY <1>6, <1>7, <3>1, ConcatProperties
    <3> QED BY <1>6, <1>8, <3>2
  <2>2. CASE i <= read_len
    <3>1. i \in 1 .. read_len
      BY <1>1, <1>3, <2>2
    <3> QED BY <1>6, <2>1, <2>2, <3>1
  <2>3. CASE ~(i <= read_len)
    <3>1. i - read_len \in 1 .. n /\ d_got + (i - read_len) = d_got - read_len + i
      BY <1>1, <1>3, <2>3
    <3> QED BY <1>7, <2>1, <2>3, <3>1
  <2> QED BY <2>2, <2>3
<1> QED BY <1>1, <1>3, <1>4, <1>5, <1>9, <1>10

LEMMA D_Partial ==
    ASSUME D_Inv, interest = "IN", NEW n \in 1 .. D!Min({D!Available, CAP - read_len}),
           d_got' = d_got + n, read_buf' = D!Buffer(n),
           read_len' \in {0, Len(D!Buffer(n))}, read_len' < CAP,
           UNCHANGED <<session, d_sent, state, bytes_to_send, bytes_sent, interest, d_out, executed>>
    PROVE  D_Inv'
<1>1. /\ n \in Nat \ {0} /\ d_got \in Nat /\ read_len \in Nat /\ CAP \in Nat
      /\ state = "READ" /\ D_Held = read_len /\ read_len <= d_got
      /\ d_got + n <= d_sent /\ d_got + n <= Len(D!Input) /\ read_len + n <= CAP
      /\ D!Buffer(n) \in Seq(Nat \X Nat) /\ Len(D!Buffer(n)) = read_len + n
      /\ \A i \in 1 .. read_len + n : D!Buffer(n)[i] = D!Input[d_got - read_len + i]
  BY D_Buffered
<1>2. /\ session \in Sessions /\ Len(D!Input) \in Nat /\ d_sent \in 0 .. Len(D!Input)
  BY D_InputOrdered DEF D_Inv, D_TypeOK
<1>3. D!Script' = D!Script /\ D!Input' = D!Input /\ D!Responses(executed)' = D!Responses(executed)
  BY D_Same
<1>4. D_TypeOK'
  <2>1. /\ n \in Nat \ {0} /\ d_got \in Nat /\ read_len \in Nat /\ CAP \in Nat
        /\ d_got + n <= d_sent /\ read_len + n <= CAP /\ d_sent \in Nat
        /\ d_got' = d_got + n /\ read_len' \in {0, read_len + n}
    BY <1>1, <1>2
  <2>2. d_got' \in 0 .. d_sent /\ read_len' \in 0 .. CAP
    BY <2>1
  <2> QED BY <1>2, <1>3, <2>2 DEF D_Inv, D_TypeOK
<1>5. D_Held' = read_len' /\ (read_len' # 0 => read_len' = read_len + n)
  BY <1>1 DEF D_Held
<1>6. D_Buffer'
  <2>1. D_Held' <= d_got'
    BY <1>1, <1>5
  <2>2. D_Held' # 0 => read_buf' \in Seq(Nat \X Nat) /\ Len(read_buf') = D_Held'
    BY <1>1, <1>5
  <2>3. ASSUME NEW i \in 1 .. D_Held' PROVE read_buf'[i] = D!Input[d_got' - D_Held' + i]
    <3>1. D_Held' = read_len + n /\ i \in 1 .. read_len + n
      BY <1>1, <1>5
    <3>2. d_got' - D_Held' + i = d_got - read_len + i
      BY <1>1, <3>1
    <3> QED BY <1>1, <3>1, <3>2
  <2> QED BY <1>1, <1>3, <2>1, <2>2, <2>3 DEF D_Inv, D_Buffer
<1>7. D_Executed'
  <2>1. d_got - D_Held + 1 <= d_got' - D_Held' + 1 /\ d_got - D_Held + 1 \in Int
        /\ d_got' - D_Held' + 1 \in Int
    <3>1. CASE D_Held' = 0
      BY <1>1, <3>1
    <3>2. CASE D_Held' = read_len + n
      BY <1>1, <3>2
    <3> QED BY <1>5, <3>1, <3>2
  <2>2. \A p \in d_got' - D_Held' + 1 .. Len(D!Input) : p \in d_got - D_Held + 1 .. Len(D!Input)
    BY <1>2, <2>1
  <2> QED BY <1>3, <2>2 DEF D_Inv, D_Executed
<1>8. D_Out'
  BY <1>1, <1>3 DEF D_Inv, D_Out
<1> QED BY <1>4, <1>6, <1>7, <1>8 DEF D_Inv

LEMMA D_Command ==
    ASSUME D_Inv, interest = "IN", NEW n \in 1 .. D!Min({D!Available, CAP - read_len}),
           d_got' = d_got + n, D!ReadCommand(n), UNCHANGED <<session, d_sent, d_out>>
    PROVE  D_Inv'
<1> DEFINE b == D!Buffer(n)
           k == D!CommandOf(b)
           f == d_got - read_len + 1
<1>1. /\ n \in Nat \ {0} /\ d_got \in Nat /\ read_len \in Nat /\ CAP \in Nat
      /\ state = "READ" /\ D_Held = read_len /\ read_len <= d_got
      /\ d_got + n <= d_sent /\ d_got + n <= Len(D!Input) /\ read_len + n <= CAP
      /\ b \in Seq(Nat \X Nat) /\ Len(b) = read_len + n
      /\ \A i \in 1 .. read_len + n : b[i] = D!Input[d_got - read_len + i]
  BY D_Buffered
<1>2. /\ session \in Sessions /\ Len(D!Input) \in Nat /\ d_sent \in 0 .. Len(D!Input)
      /\ Len(D!Script) \in Nat /\ executed \in Seq(1 .. Len(D!Script))
  BY D_InputOrdered, D_Script DEF D_Inv, D_TypeOK
<1>3. D!Script' = D!Script /\ D!Input' = D!Input
  BY D_Same
<1>4. /\ D!HasLine(b) /\ D!TypeOf(b) # "unknown"
      /\ state' = IF D!TypeOf(b) = "PING" THEN "PONG" ELSE D!TypeOf(b)
      /\ bytes_sent' = 0
      /\ bytes_to_send' = IF D!TypeOf(b) = "STREAM" THEN D!Script[k].n ELSE MsgLen
      /\ read_buf' = IF D!TypeOf(b) = "BURN" THEN D!Msg("RESULT") ELSE b
      /\ read_len' = Len(b) /\ interest' = "OUT" /\ executed' = Append(executed, k)
  BY DEF D!ReadCommand
<1>5. D!TypeOf(b) = D!Script[k].type
  BY <1>4 DEF D!TypeOf
<1>6. f \in 1 .. Len(D!Input) /\ b[1] = D!Input[f] /\ k = D!Input[f][1]
  <2>1. /\ n \in Nat \ {0} /\ d_got \in Nat /\ read_len \in Nat /\ read_len <= d_got
        /\ d_got + n <= Len(D!Input) /\ Len(D!Input) \in Nat
    BY <1>1, <1>2
  <2>2. 1 \in 1 .. read_len + n /\ f \in 1 .. Len(D!Input)
    BY <2>1
  <2> QED BY <1>1, <2>2 DEF D!CommandOf
<1>7. k \in 1 .. Len(D!Script)
  <2>1. \A i \in 1 .. Len(D!Input) : D!Input[i][1] \in 1 .. Len(D!Script)
    BY <1>2, D_InputOrdered
  <2> QED BY <1>6, <2>1
<1>8. PICK q \in f .. d_got + n : q \in 1 .. Len(D!Input) /\ D!IsNewline(D!Input[q])
  <2>1. PICK j \in 1 .. read_len + n : D!IsNewline(b[j])
    BY <1>1, <1>4 DEF D!HasLine
  <2>2. j \in Nat /\ 1 <= j /\ j <= read_len + n
    BY <1>1, <2>1
  <2>3. d_got - read_len + j \in f .. d_got + n
    BY <1>1, <2>2
  <2>4. d_got - read_len + j \in 1 .. Len(D!Input)
    <3>1. d_got - read_len + j \in 1 .. d_got + n
      BY <1>1, <2>2
    <3>2. \A x \in 1 .. d_got + n : x \in 1 .. Len(D!Input)
      BY <1>1, <1>2
    <3> QED BY <3>1, <3>2
  <2> QED BY <1>1, <2>1, <2>3, <2>4
<1> HIDE DEF b, k, f
<1>9. \A p \in d_got + n + 1 .. Len(D!Input) : k < D!Input[p][1]
  <2> SUFFICES ASSUME NEW p \in d_got + n + 1 .. Len(D!Input) PROVE k < D!Input[p][1]
    OBVIOUS
  <2>1. p \in 1 .. Len(D!Input) /\ q < p /\ (f < q \/ f = q)
    <3>1. p \in Int /\ q \in Int /\ f \in Int /\ d_got + n \in Nat /\ d_got + n + 1 <= p
      BY <1>1, <1>2, <1>6, <1>8
    <3>2. f <= q /\ q <= d_got + n
      BY <1>1, <1>8, <3>1
    <3>3. p \in 1 .. Len(D!Input)
      BY <1>1, <1>2
    <3> QED BY <3>1, <3>2, <3>3
  <2>2. D!Input[q][1] < D!Input[p][1]
    BY <1>2, <1>8, <2>1, D_InputOrdered
  <2>3. f = q \/ D!Input[f][1] <= D!Input[q][1]
    BY <1>2, <1>6, <1>8, <2>1, D_InputOrdered
  <2>4. D!Input[f][1] \in Nat /\ D!Input[q][1] \in Nat /\ D!Input[p][1] \in Nat
    <3>1. \A r \in 1 .. Len(D!Input) : D!Input[r][1] \in 1 .. Len(D!Script)
      BY <1>2, D_InputOrdered
    <3>2. \A r \in 1 .. Len(D!Input) : D!Input[r][1] \in Nat
      BY <1>2, <3>1
    <3> QED BY <1>6, <1>8, <2>1, <3>2
  <2> QED BY <1>6, <2>2, <2>3, <2>4
<1>10. /\ D!Script[k].type \in {"PING", "BURN", "STREAM"} /\ D!Script[k].n \in Nat /\ MsgLen \in Nat
  BY <1>2, <1>4, <1>5, <1>7, D_Script, D_ResponseType DEF D!Types
<1>11. /\ executed' \in Seq(1 .. Len(D!Script)) /\ Len(executed') = Len(executed) + 1
       /\ Len(executed) \in Nat /\ executed'[Len(executed) + 1] = k
       /\ \A i \in 1 .. Len(executed) : executed'[i] = executed[i]
  BY <1>2, <1>4, <1>7
<1>12. D_TypeOK'
  <2>1. d_got' \in 0 .. d_sent /\ read_len' \in 0 .. CAP
    BY <1>1, <1>2, <1>4
  <2>2. state' \in D!States /\ interest' \in {"IN", "OUT"}
    BY <1>4, <1>5, <1>10 DEF D!States
  <2>3. bytes_to_send' \in Nat /\ bytes_sent' \in 0 .. bytes_to_send'
    BY <1>4, <1>10
  <2> QED BY <1>2, <1>3, <1>11, <2>1, <2>2, <2>3 DEF D_Inv, D_TypeOK
<1>13. state' # "READ" /\ state' # "DONE" /\ D_Held' = 0
  BY <1>4, <1>5, <1>10 DEF D_Held
<1>14. D_Buffer'
  BY <1>1, <1>4, <1>13 DEF D_Buffer
<1>15. D_Executed'
  <2>1. \A i \in 1 .. Len(executed') : i \in 1 .. Len(executed) \/ i = Len(executed) + 1
    BY <1>11
  <2>2. \A i \in 1 .. Len(executed) : executed[i] < k
    <3>1. f \in d_got - D_Held + 1 .. Len(D!Input)
      BY <1>1, <1>6 DEF f
    <3> QED BY <1>6, <3>1 DEF D_Inv, D_Executed
  <2>3. ASSUME NEW i \in 1 .. Len(executed'), NEW j \in 1 .. Len(executed'), i < j
        PROVE  executed'[i] < executed'[j]
    <3>1. i \in 1 .. Len(executed)
      BY <1>11, <2>3
    <3>2. CASE j \in 1 .. Len(executed)
      BY <1>11, <2>3, <3>1, <3>2 DEF D_Inv, D_Executed
    <3>3. CASE j = Len(executed) + 1
      BY <1>11, <2>2, <3>1, <3>3
    <3> QED BY <2>1, <3>2, <3>3
  <2>4. ASSUME NEW i \in 1 .. Len(executed'), NEW p \in d_got + n + 1 .. Len(D!Input)
        PROVE  executed'[i] < D!Input[p][1]
    <3>1. p \in d_got - D_Held + 1 .. Len(D!Input)
      BY <1>1, <1>2
    <3>2. i \in 1 .. Len(executed) => executed[i] < D!Input[p][1]
      BY <3>1 DEF D_Inv, D_Executed
    <3> QED BY <1>9, <1>11, <2>1, <3>2
  <2>5. d_got' - D_Held' + 1 = d_got + n + 1
    BY <1>1, <1>13
  <2> QED BY <1>3, <2>3, <2>4, <2>5 DEF D_Executed
<1>16. D_Out'
  <2>1. D_Now' = k
    BY <1>11 DEF D_Now
  <2>2. D_Before' = executed
    BY <1>2, <1>11 DEF D_Before
  <2>3. D_Said' = 0
    BY <1>4, <1>13 DEF D_Said
  <2>4. d_out = D!Responses(executed) /\ d_out \in Seq(Words \X Nat \X Nat)
    BY <1>1 DEF D_Inv, D_Out, D_TypeOK
  <2>5. D!Responses(D_Before)' = D!Responses(executed) /\ D!Response(D_Now)' = D!Response(k)
    BY <2>1, <2>2, D_Same
  <2>6. SubSeq(D!Response(k), 1, 0) = <<>>
    OBVIOUS
  <2>7. d_out' = D!Responses(D_Before)' \o SubSeq(D!Response(D_Now)', 1, D_Said')
    BY <2>3, <2>4, <2>5, <2>6, ConcatEmptySeq
  <2>8. executed' # <<>>
    BY <1>11
  <2>9. D!Msg("RESULT")' = D!Msg("RESULT")
    BY DEF D!Msg
  <2>10. D_Writes'
    BY <1>3, <1>4, <1>5, <1>10, <2>1, <2>7, <2>8, <2>9 DEF D_Writes
  <2> QED BY <1>13, <2>10 DEF D_Out
<1> QED BY <1>12, <1>14, <1>15, <1>16 DEF D_Inv

\* The sequence a sequence of requests is made of.
LEMMA LastOne ==
    ASSUME NEW T, NEW s \in Seq(T), s # <<>>
    PROVE  /\ SubSeq(s, 1, Len(s) - 1) \in Seq(T) /\ s[Len(s)] \in T
           /\ s = Append(SubSeq(s, 1, Len(s) - 1), s[Len(s)])
<1>1. Len(s) \in Nat /\ Len(s) # 0
  BY EmptySeq
<1>2. SubSeq(s, 1, Len(s) - 1) \in Seq(T)
  BY <1>1
<1>3. s[Len(s)] \in T
  BY <1>1, ElementOfSeq
<1> QED BY <1>1, <1>2, <1>3

LEMMA D_PayloadIs ==
    ASSUME D_Inv, state # "READ", NEW n \in 0 .. bytes_to_send - bytes_sent
    PROVE  /\ D_Now \in 1 .. Len(D!Script) /\ D_Before \in Seq(1 .. Len(D!Script))
           /\ executed = Append(D_Before, D_Now)
           /\ D!Response(D_Now) \in Seq(Words \X Nat \X Nat)
           /\ D_Said \in Nat /\ D_Said + n <= Len(D!Response(D_Now))
           /\ D!Payload(n) = SubSeq(D!Response(D_Now), D_Said + 1, D_Said + n)
           /\ state # "STREAM" => Len(D!Response(D_Now)) = D_Said + (bytes_to_send - bytes_sent)
<1> DEFINE k == D_Now
           r == D!Response(k)
           m == D_Said
<1>1. /\ session \in Sessions /\ executed \in Seq(1 .. Len(D!Script)) /\ state \in D!States
      /\ bytes_to_send \in Nat /\ bytes_sent \in 0 .. bytes_to_send
  BY DEF D_Inv, D_TypeOK
<1>2. D_Writes
  BY DEF D_Inv, D_Out
<1>3. k \in 1 .. Len(D!Script) /\ D_Before \in Seq(1 .. Len(D!Script)) /\ executed = Append(D_Before, k)
  BY <1>1, <1>2, LastOne DEF D_Writes, D_Now, D_Before
<1>4. /\ MsgLen \in Nat /\ r \in Seq(Words \X Nat \X Nat)
      /\ D!Script[k].type = "PING" => r = D!Msg("PONG")
      /\ D!Script[k].type = "BURN" => r = D!Msg("RESULT")
      /\ D!Script[k].type = "STREAM" => r = D!Stars(D!Script[k].n) \o D!Msg("DONE")
  BY <1>1, <1>3, D_ResponseType
<1>5. n \in Nat /\ bytes_sent \in Nat /\ bytes_sent + n <= bytes_to_send /\ D!Script[k].n \in Nat
  BY <1>1, <1>3, D_Script
<1> DEFINE P == SubSeq(r, m + 1, m + n)
<1> HIDE DEF k
<1>6. CASE state = "PONG" \/ state = "BURN"
  <2>1. PICK w : w \in {"PONG", "RESULT"} /\ r = D!Msg(w) /\ D!Payload(n) = SubSeq(r, bytes_sent + 1, bytes_sent + n)
    <3>1. CASE state = "PONG"
      BY <1>2, <1>4, <3>1 DEF D_Writes, D!Payload, k
    <3>2. CASE state = "BURN"
      BY <1>2, <1>4, <3>2 DEF D_Writes, D!Payload, k
    <3> QED BY <1>6, <3>1, <3>2
  <2>2. m = bytes_sent /\ bytes_to_send = MsgLen
    BY <1>2, <1>6 DEF D_Writes, D_Said
  <2>3. Len(r) = MsgLen
    BY <1>4, <2>1 DEF D!Msg
  <2> QED BY <1>3, <1>4, <1>5, <2>1, <2>2, <2>3 DEF k
<1>7. CASE state = "STREAM" \/ state = "DONE"
  <2> DEFINE a == D!Stars(D!Script[k].n)
             d == D!Msg("DONE")
  <2>1. /\ Len(a) = D!Script[k].n /\ Len(d) = MsgLen
        /\ \A i \in 1 .. D!Script[k].n : a[i] = <<"A", 1, 1>>
        /\ \A i \in 1 .. MsgLen : d[i] = <<"DONE", i, MsgLen>>
    BY <1>4, <1>5 DEF D!Stars, D!Msg
  <2>2. a \in Seq(Words \X Nat \X Nat) /\ d \in Seq(Words \X Nat \X Nat)
    <3>1. <<"A", 1, 1>> \in Words \X Nat \X Nat /\ \A i \in 1 .. MsgLen : <<"DONE", i, MsgLen>> \in Words \X Nat \X Nat
      BY <1>4 DEF Words
    <3>2. a \in Seq(Words \X Nat \X Nat)
      BY <1>5, <3>1 DEF D!Stars
    <3>3. d \in Seq(Words \X Nat \X Nat)
      BY <1>4, <3>1 DEF D!Msg
    <3> QED BY <3>2, <3>3
  <2>3. r = a \o d
    BY <1>2, <1>4, <1>7 DEF D_Writes, k
  <2> HIDE DEF a, d, r
  <2>4. /\ Len(r) = D!Script[k].n + MsgLen
        /\ \A i \in 1 .. Len(a) + Len(d) : r[i] = IF i <= Len(a) THEN a[i] ELSE d[i - Len(a)]
    <3>1. /\ Len(r) = Len(a) + Len(d)
          /\ \A i \in 1 .. Len(a) + Len(d) : r[i] = IF i <= Len(a) THEN a[i] ELSE d[i - Len(a)]
      BY <2>2, <2>3, ConcatProperties
    <3> QED BY <2>1, <3>1
  <2>5. CASE state = "STREAM"
    <3>1. m = bytes_sent /\ bytes_to_send = D!Script[k].n
      BY <1>2, <2>5 DEF D_Writes, D_Said, k
    <3>2. D!Payload(n) = [i \in 1 .. n |-> <<"A", 1, 1>>]
      BY <2>5 DEF D!Payload, D!Stars
    <3>3. \A i \in 1 .. n : r[m + i] = <<"A", 1, 1>>
      <4> TAKE i \in 1 .. n
      <4>1. m + i \in 1 .. Len(a) + Len(d) /\ m + i <= Len(a) /\ m + i \in 1 .. D!Script[k].n
        BY <1>4, <1>5, <2>1, <3>1
      <4> QED BY <2>1, <2>4, <4>1
    <3>4. P = [i \in 1 .. n |-> r[m + i]]
      BY <1>5, <3>1
    <3>5. m \in Nat /\ m + n <= Len(r)
      <4>1. MsgLen \in Nat
        BY <1>4
      <4>2. Len(r) = D!Script[k].n + MsgLen
        BY <2>4
      <4> QED BY <1>5, <3>1, <4>1, <4>2
    <3> QED BY <1>3, <1>4, <2>5, <3>2, <3>3, <3>4, <3>5 DEF k, r
  <2>6. CASE state = "DONE"
    <3>1. m = D!Script[k].n + bytes_sent /\ bytes_to_send = MsgLen
      BY <1>2, <2>6 DEF D_Writes, D_Said, k
    <3>2. D!Payload(n) = SubSeq(d, bytes_sent + 1, bytes_sent + n)
      BY <2>6 DEF D!Payload, d
    <3>3. \A i \in 1 .. n : r[m + i] = d[bytes_sent + i]
      <4> TAKE i \in 1 .. n
      <4>1. i \in Nat /\ 1 <= i /\ i <= n
        BY <1>5
      <4>2. m + i = Len(a) + (bytes_sent + i) /\ bytes_sent + i \in 1 .. Len(d)
        BY <1>4, <1>5, <2>1, <3>1, <4>1
      <4>3. Len(a) \in Nat /\ Len(d) \in Nat
        BY <1>4, <1>5, <2>1
      <4>4. m + i \in 1 .. Len(a) + Len(d) /\ ~(m + i <= Len(a)) /\ (m + i) - Len(a) = bytes_sent + i
        BY <4>2, <4>3
      <4> QED BY <2>4, <4>4
    <3>4. P = [i \in 1 .. n |-> r[m + i]]
      <4>1. m \in Nat
        BY <1>5, <3>1
      <4> QED BY <1>5, <4>1
    <3>5. D!Payload(n) = [i \in 1 .. n |-> d[bytes_sent + i]]
      BY <1>5, <3>2
    <3>6. m \in Nat /\ m + n <= Len(r) /\ Len(r) = m + (bytes_to_send - bytes_sent)
      <4>1. MsgLen \in Nat
        BY <1>4
      <4>2. Len(r) = D!Script[k].n + MsgLen
        BY <2>4
      <4>3. bytes_sent \in Nat /\ n \in Nat /\ bytes_sent + n <= MsgLen /\ D!Script[k].n \in Nat
        BY <1>5, <3>1
      <4> HIDE DEF P, m
      <4> QED BY <3>1, <4>1, <4>2, <4>3
    <3> QED BY <1>3, <1>4, <2>6, <3>3, <3>4, <3>5, <3>6 DEF k, r
  <2> QED BY <1>7, <2>5, <2>6
<1> QED BY <1>1, <1>6, <1>7 DEF D!States

LEMMA D_WriteSteps == ASSUME D_Inv, D!HandleWrite PROVE D_Inv'
<1>1. /\ interest = "OUT" /\ state # "READ" /\ D_Held = 0
      /\ UNCHANGED <<session, d_sent, d_got, read_buf, executed>>
  BY DEF D!HandleWrite, D!clientVars, D_Inv, D_Buffer, D_Held
<1>2. /\ session \in Sessions /\ executed \in Seq(1 .. Len(D!Script)) /\ state \in D!States
      /\ bytes_to_send \in Nat /\ bytes_sent \in 0 .. bytes_to_send /\ read_len \in 0 .. CAP
      /\ CAP \in Nat \ {0} /\ CHUNK \in Nat \ {0} /\ MsgLen \in Nat \ {0}
      /\ d_sent \in 0 .. Len(D!Input) /\ d_got \in 0 .. d_sent /\ d_out \in Seq(Words \X Nat \X Nat)
  BY ServersAssumption DEF D_Inv, D_TypeOK, D!ConnectionConstants
<1>3. PICK n \in 0 .. bytes_to_send - bytes_sent :
          /\ d_out' = d_out \o D!Payload(n)
          /\ \/ /\ bytes_sent + n < bytes_to_send
                /\ bytes_sent' = bytes_sent + n
                /\ UNCHANGED <<state, read_len, bytes_to_send, interest>>
             \/ /\ bytes_sent + n = bytes_to_send /\ state = "STREAM"
                /\ state' = "DONE" /\ bytes_sent' = 0 /\ bytes_to_send' = MsgLen
                /\ UNCHANGED <<read_len, interest>>
             \/ /\ bytes_sent + n = bytes_to_send /\ state # "STREAM"
                /\ bytes_sent' = bytes_sent + n
                /\ state' = "READ" /\ read_len' = 0 /\ interest' = "IN"
                /\ UNCHANGED bytes_to_send
  <2>1. D!ToWrite \in 0 .. bytes_to_send - bytes_sent
    BY <1>2 DEF D!ToWrite, D!Remaining
  <2>2. \A n \in (IF D!ToWrite = 0 THEN {0} ELSE 1 .. D!ToWrite) : n \in 0 .. bytes_to_send - bytes_sent
    BY <1>2, <2>1
  <2> QED BY <2>2 DEF D!HandleWrite, D!StreamWritten, D!BackToReading
<1>4. /\ D_Now \in 1 .. Len(D!Script) /\ D_Before \in Seq(1 .. Len(D!Script))
      /\ executed = Append(D_Before, D_Now)
      /\ D!Response(D_Now) \in Seq(Words \X Nat \X Nat)
      /\ D_Said \in Nat /\ D_Said + n <= Len(D!Response(D_Now))
      /\ D!Payload(n) = SubSeq(D!Response(D_Now), D_Said + 1, D_Said + n)
      /\ state # "STREAM" => Len(D!Response(D_Now)) = D_Said + (bytes_to_send - bytes_sent)
  BY <1>1, D_PayloadIs
<1>5. /\ D!Responses(D_Before) \in Seq(Words \X Nat \X Nat)
      /\ D!Responses(executed) = D!Responses(D_Before) \o D!Response(D_Now)
  BY <1>2, <1>4, D_ResponsesAppend
<1>6. d_out' = D!Responses(D_Before) \o SubSeq(D!Response(D_Now), 1, D_Said + n)
  <2>1. d_out = D!Responses(D_Before) \o SubSeq(D!Response(D_Now), 1, D_Said)
    BY <1>1 DEF D_Inv, D_Out, D_Writes
  <2>2. n \in Nat
    BY <1>2
  <2>3. (D!Responses(D_Before) \o SubSeq(D!Response(D_Now), 1, D_Said))
            \o SubSeq(D!Response(D_Now), D_Said + 1, D_Said + n)
          = D!Responses(D_Before) \o SubSeq(D!Response(D_Now), 1, D_Said + n)
    BY <1>4, <1>5, <2>2, TakeMore
  <2>4. d_out' = d_out \o SubSeq(D!Response(D_Now), D_Said + 1, D_Said + n)
    BY <1>3, <1>4
  <2> QED BY <2>1, <2>3, <2>4
<1>7. d_out' \in Seq(Words \X Nat \X Nat)
  <2>1. n \in Nat /\ SubSeq(D!Response(D_Now), 1, D_Said + n) \in Seq(Words \X Nat \X Nat)
    BY <1>2, <1>4
  <2> QED BY <1>5, <1>6, <2>1, ConcatProperties
<1>8. /\ D!Script' = D!Script /\ D!Input' = D!Input
      /\ D_Now' = D_Now /\ D_Before' = D_Before
      /\ D!Responses(executed)' = D!Responses(executed)
      /\ D!Responses(D_Before)' = D!Responses(D_Before)
      /\ D!Response(D_Now)' = D!Response(D_Now)
  BY <1>1, D_Same DEF D_Now, D_Before
<1>9. D!Script[D_Now].n \in Nat
  BY <1>2, <1>4, D_Script
<1>10. D_TypeOK'
  <2>1. state' \in D!States /\ interest' \in {"IN", "OUT"} /\ read_len' \in 0 .. CAP
    BY <1>1, <1>2, <1>3 DEF D!States
  <2>2. bytes_to_send' \in Nat /\ bytes_sent' \in 0 .. bytes_to_send'
    BY <1>2, <1>3
  <2> QED BY <1>1, <1>2, <1>7, <1>8, <2>1, <2>2 DEF D_TypeOK
<1>11. D_Held' = 0
  BY <1>1, <1>3 DEF D_Held
<1>12. D_Buffer'
  BY <1>1, <1>2, <1>3, <1>11 DEF D_Buffer
<1>13. D_Executed'
  BY <1>1, <1>8, <1>11 DEF D_Inv, D_Executed
<1>14. D_Out'
  <2>1. CASE state' = "READ"
    <3>1. D_Said + n = Len(D!Response(D_Now))
      BY <1>1, <1>2, <1>3, <1>4, <2>1
    <3>2. SubSeq(D!Response(D_Now), 1, Len(D!Response(D_Now))) = D!Response(D_Now)
      BY <1>4
    <3>3. d_out' = D!Responses(executed)
      BY <1>5, <1>6, <3>1, <3>2
    <3> QED BY <1>8, <2>1, <3>3 DEF D_Out
  <2>2. CASE state' # "READ"
    <3>1. D_Writes
      BY <1>1 DEF D_Inv, D_Out
    <3>2. D_Said' = D_Said + n
      <4>1. CASE state' = state
        <5>1. bytes_sent' = bytes_sent + n
          BY <1>3, <2>2, <4>1
        <5>2. D!Script[D_Now].n' = D!Script[D_Now].n
          BY <1>8
        <5>3. bytes_sent \in Nat /\ n \in Nat
          BY <1>2
        <5> QED BY <1>9, <4>1, <5>1, <5>2, <5>3 DEF D_Said
      <4>2. CASE state' # state
        <5>1. /\ state = "STREAM" /\ state' = "DONE" /\ bytes_sent' = 0
              /\ bytes_sent + n = bytes_to_send /\ bytes_to_send = D!Script[D_Now].n
          BY <1>3, <2>2, <3>1, <4>2 DEF D_Writes
        <5> QED BY <1>2, <1>8, <1>9, <5>1 DEF D_Said
      <4> QED BY <4>1, <4>2
    <3>3. d_out' = D!Responses(D_Before)' \o SubSeq(D!Response(D_Now)', 1, D_Said')
      BY <1>6, <1>8, <3>2
    <3>4. D!Msg("RESULT")' = D!Msg("RESULT")
      BY DEF D!Msg
    <3>5. D_Writes'
      BY <1>1, <1>3, <1>8, <2>2, <3>1, <3>3, <3>4 DEF D_Writes
    <3> QED BY <2>2, <3>5 DEF D_Out
  <2> QED BY <2>1, <2>2
<1> QED BY <1>10, <1>12, <1>13, <1>14 DEF D_Inv

LEMMA D_InvStep == D_Inv /\ [D!Next]_(D!vars) => D_Inv'
<1> SUFFICES ASSUME D_Inv, [D!Next]_(D!vars) PROVE D_Inv'
  OBVIOUS
<1>1. /\ d_sent \in 0 .. Len(D!Input) /\ d_got \in 0 .. d_sent /\ Len(D!Input) \in Nat
      /\ CAP \in Nat \ {0}
  BY ServersAssumption, D_InputOrdered DEF D_Inv, D_TypeOK, D!ConnectionConstants
<1>2. CASE D!ClientSend
  <2>1. /\ d_sent < Len(D!Input) /\ d_sent' = d_sent + 1
        /\ UNCHANGED <<session, d_got, read_buf, read_len, state, bytes_to_send, bytes_sent,
                       interest, d_out, executed>>
    BY <1>2 DEF D!ClientSend, D!ctxVars
  <2>2. d_sent' \in d_got .. Len(D!Input)
    BY <1>1, <2>1
  <2> QED BY <2>1, <2>2, D_Quiet
<1>3. CASE D!ClientShut \/ D!ClientReset \/ D!Close \/ UNCHANGED D!vars
  <2>1. UNCHANGED <<session, d_sent, d_got, read_buf, read_len, state, bytes_to_send, bytes_sent,
                    interest, d_out, executed>>
    BY <1>3 DEF D!ClientShut, D!ClientReset, D!Close, D!vars, D!ctxVars, D!clientVars
  <2>2. d_sent' \in d_got .. Len(D!Input)
    BY <1>1, <2>1
  <2> QED BY <2>1, <2>2, D_Quiet
<1>4. CASE D!HandleRead
  <2>1. PICK n \in 1 .. D!Min({D!Available, CAP - read_len}) :
            /\ d_got' = d_got + n
            /\ D!ReadPartial(n) \/ D!ReadUnknown(n) \/ D!ReadCommand(n)
    BY <1>4 DEF D!HandleRead
  <2>2. interest = "IN" /\ UNCHANGED <<session, d_sent, d_out>>
    BY <1>4 DEF D!HandleRead, D!clientVars
  <2>3. CASE D!ReadPartial(n) \/ D!ReadUnknown(n)
    <3>1. Len(D!Buffer(n)) <= CAP /\ Len(D!Buffer(n)) \in Nat
      <4>1. /\ n \in Nat \ {0} /\ read_len \in Nat /\ read_len + n <= CAP
            /\ Len(D!Buffer(n)) = read_len + n
        BY <2>2, D_Buffered
      <4> QED BY <4>1
    <3>2. /\ read_buf' = D!Buffer(n) /\ read_len' \in {0, Len(D!Buffer(n))} /\ read_len' < CAP
          /\ UNCHANGED <<state, bytes_to_send, bytes_sent, interest, executed>>
      BY <1>1, <2>3, <3>1 DEF D!ReadPartial, D!ReadUnknown
    <3> QED BY <2>1, <2>2, <3>2, D_Partial
  <2> QED BY <2>1, <2>2, <2>3, D_Command
<1> QED BY <1>2, <1>3, <1>4, D_WriteSteps DEF D!Next, D!ServerStep

LEMMA D_Correct == D_Inv => OutputInOrder /\ ReadsWithRoom
<1> SUFFICES ASSUME D_Inv PROVE OutputInOrder /\ ReadsWithRoom
  OBVIOUS
<1>1. /\ session \in Sessions /\ executed \in Seq(1 .. Len(D!Script)) /\ d_out \in Seq(Words \X Nat \X Nat)
      /\ bytes_to_send \in Nat /\ bytes_sent \in 0 .. bytes_to_send
  BY DEF D_Inv, D_TypeOK
<1>2. ReadsWithRoom
  BY DEF D_Inv, D_Buffer, ReadsWithRoom, D!ReadsWithRoom
<1>3. D!IsPrefix(d_out, D!Responses(executed))
  <2>1. CASE state = "READ"
    <3>1. d_out = D!Responses(executed)
      BY <2>1 DEF D_Inv, D_Out
    <3> QED BY <1>1, <3>1 DEF D!IsPrefix
  <2>2. CASE state # "READ"
    <3>1. 0 \in 0 .. bytes_to_send - bytes_sent
      BY <1>1
    <3>2. /\ D_Now \in 1 .. Len(D!Script) /\ D_Before \in Seq(1 .. Len(D!Script))
          /\ executed = Append(D_Before, D_Now)
          /\ D!Response(D_Now) \in Seq(Words \X Nat \X Nat)
          /\ D_Said \in Nat /\ D_Said + 0 <= Len(D!Response(D_Now))
      BY <2>2, <3>1, D_PayloadIs
    <3>3. /\ D!Responses(D_Before) \in Seq(Words \X Nat \X Nat)
          /\ D!Responses(executed) = D!Responses(D_Before) \o D!Response(D_Now)
      BY <1>1, <3>2, D_ResponsesAppend
    <3>4. d_out = D!Responses(D_Before) \o SubSeq(D!Response(D_Now), 1, D_Said)
      BY <2>2 DEF D_Inv, D_Out, D_Writes
    <3>5. D_Said \in 0 .. Len(D!Response(D_Now))
      BY <3>2
    <3> QED BY <3>2, <3>3, <3>4, <3>5, PrefixOfMore
  <2> QED BY <2>1, <2>2
<1> QED BY <1>2, <1>3 DEF D_Inv, D_Executed, D_Out, OutputInOrder, D!OutputInOrder

\* Whatever a client asks, in whatever pieces its requests arrive and its responses
\* are written and whatever the sizes of the buffers, it receives whole responses
\* to requests it made, in their order, never mixed and never twice, and nothing is
\* left unsaid when the server reads again (dumb_epoll.c:69-211).
THEOREM ResponsesInOrder == D!Spec => []OutputInOrder
BY D_Correct, D_InvInit, D_InvStep, PTL DEF D!Spec

\* The event loop waits to read exactly when a command is expected, and then has
\* room in read_buf: a read of 0 bytes means the end of the connection and nothing
\* else (dumb_epoll.c:72-79, 122-126, 150).
THEOREM RoomToRead == D!Spec => []ReadsWithRoom
BY D_Correct, D_InvInit, D_InvStep, PTL DEF D!Spec

-----------------------------------------------------------------------------
(* dumb_common.c: the lines of a client *)

LEMMA K_Script ==
    ASSUME NEW c \in Peers
    PROVE  /\ Len(Scripts[c]) \in Nat
           /\ \A k \in 1 .. Len(Scripts[c]) :
                 /\ Scripts[c][k].type \in K!Types /\ Scripts[c][k].body \in Nat
                 /\ K!Line(c, k) \in Seq(Nat \X Nat) /\ Len(K!Line(c, k)) = Scripts[c][k].body + 1
                 /\ \A l \in 1 .. Len(K!Line(c, k)) : K!Line(c, k)[l] = <<k, l>>
<1>1. Scripts[c] \in Seq([type : K!Types, body : Nat, n : Nat])
  BY ServersAssumption DEF K!BlockingConstants
<1>2. Len(Scripts[c]) \in Nat /\ \A k \in 1 .. Len(Scripts[c]) : Scripts[c][k] \in [type : K!Types, body : Nat, n : Nat]
  BY <1>1, LenProperties, ElementOfSeq
<1>3. ASSUME NEW k \in 1 .. Len(Scripts[c])
      PROVE  /\ Scripts[c][k].type \in K!Types /\ Scripts[c][k].body \in Nat
             /\ K!Line(c, k) \in Seq(Nat \X Nat) /\ Len(K!Line(c, k)) = Scripts[c][k].body + 1
             /\ \A l \in 1 .. Len(K!Line(c, k)) : K!Line(c, k)[l] = <<k, l>>
  <2>1. Scripts[c][k].type \in K!Types /\ Scripts[c][k].body \in Nat
    BY <1>2
  <2>2. k \in Nat
    BY <1>2
  <2> DEFINE b == Scripts[c][k].body + 1
  <2>3. K!Line(c, k) = [l \in 1 .. b |-> <<k, l>>]
    BY DEF K!Line
  <2>4. b \in Nat
    BY <2>1
  <2> HIDE DEF b
  <2>5. \A l \in 1 .. b : <<k, l>> \in Nat \X Nat
    BY <2>2, <2>4
  <2>6. K!Line(c, k) \in Seq(Nat \X Nat) /\ Len(K!Line(c, k)) = b
    BY <2>3, <2>4, <2>5
  <2>7. \A l \in 1 .. Len(K!Line(c, k)) : K!Line(c, k)[l] = <<k, l>>
    BY <2>3, <2>6
  <2> QED BY <2>1, <2>6, <2>7 DEF b
<1> QED BY <1>2, <1>3

\* What the first n requests of a client look like when sent.
K_Lines(c, n) == K!FlattenSeq([k \in 1 .. n |-> K!Line(c, k)])

LEMMA K_LinesNext ==
    ASSUME NEW c \in Peers, NEW n \in Nat, n + 1 <= Len(Scripts[c])
    PROVE  K_Lines(c, n + 1) = K_Lines(c, n) \o K!Line(c, n + 1)
<1> DEFINE ss == [k \in 1 .. n |-> K!Line(c, k)]
<1>1. \A k \in 1 .. n + 1 : k \in 1 .. Len(Scripts[c])
  BY K_Script
<1>2. ss \in Seq(Seq(Nat \X Nat)) /\ K!Line(c, n + 1) \in Seq(Nat \X Nat)
  BY <1>1, K_Script
<1>3. [k \in 1 .. n + 1 |-> K!Line(c, k)] = Append(ss, K!Line(c, n + 1))
  BY <1>2
<1>4. \A tt : K!FlattenSeq(tt) = D!FlattenSeq(tt)
  BY Zenon DEF K!FlattenSeq, D!FlattenSeq
<1> HIDE DEF ss
<1>5. D!FlattenSeq(Append(ss, K!Line(c, n + 1))) = D!FlattenSeq(ss) \o K!Line(c, n + 1)
  BY <1>2, FlattenAppend
<1> QED BY <1>3, <1>4, <1>5 DEF K_Lines, ss

\* Tokens follow each other as in a text: the next one of the line, or behind a
\* newline the first one of the next line; and the last one is a newline.
Follows(c, t, u) == u = IF K!IsNewline(c, t) THEN <<t[1] + 1, 1>> ELSE <<t[1], t[2] + 1>>
IsText(c, n, s) ==
    /\ s \in Seq(Nat \X Nat)
    /\ \A p \in 1 .. Len(s) : s[p][1] \in 1 .. n /\ s[p][2] \in 1 .. Scripts[c][s[p][1]].body + 1
    /\ n = 0 => Len(s) = 0
    /\ n # 0 => /\ Len(s) > 0 /\ s[1] = <<1, 1>>
                /\ s[Len(s)][1] = n /\ K!IsNewline(c, s[Len(s)])
    /\ \A p \in 1 .. Len(s) - 1 : Follows(c, s[p], s[p + 1])

LEMMA TextNext ==
    ASSUME NEW c \in Peers, NEW n \in Nat, n + 1 <= Len(Scripts[c]), NEW s, IsText(c, n, s)
    PROVE  IsText(c, n + 1, s \o K!Line(c, n + 1))
<1> DEFINE m == n + 1
           l == K!Line(c, m)
           t == s \o l
           b == Scripts[c][m].body
<1>1. m \in 1 .. Len(Scripts[c]) /\ m \in Nat
  BY K_Script
<1>2. /\ b \in Nat /\ l \in Seq(Nat \X Nat) /\ Len(l) = b + 1
      /\ \A i \in 1 .. b + 1 : l[i] = <<m, i>>
  <2> HIDE DEF m
  <2> QED BY <1>1, K_Script
<1>3. s \in Seq(Nat \X Nat) /\ Len(s) \in Nat
  BY DEF IsText
<1> HIDE DEF l, t, b
<1>4. /\ t \in Seq(Nat \X Nat) /\ Len(t) = Len(s) + b + 1
      /\ \A p \in 1 .. Len(s) + b + 1 : t[p] = IF p <= Len(s) THEN s[p] ELSE l[p - Len(s)]
  <2>1. /\ t \in Seq(Nat \X Nat) /\ Len(t) = Len(s) + Len(l)
        /\ \A p \in 1 .. Len(s) + Len(l) : t[p] = IF p <= Len(s) THEN s[p] ELSE l[p - Len(s)]
    <3>1. t = s \o l /\ l \in Seq(Nat \X Nat) /\ s \in Seq(Nat \X Nat)
      BY <1>2, <1>3 DEF t
    <3> QED BY <3>1, ConcatProperties
  <2>2. Len(s) + Len(l) = Len(s) + b + 1
    BY <1>2, <1>3
  <2> QED BY <2>1, <2>2
<1>5. \A p \in 1 .. Len(s) : t[p] = s[p]
  <2>1. \A p \in 1 .. Len(s) : p \in 1 .. Len(s) + b + 1 /\ p <= Len(s)
    <3>1. b \in Nat /\ Len(s) \in Nat
      BY <1>2, <1>3
    <3> QED BY <3>1
  <2> QED BY <1>4, <2>1
<1>6. \A i \in 1 .. b + 1 : t[Len(s) + i] = <<m, i>>
  <2> TAKE i \in 1 .. b + 1
  <2>1. Len(s) + i \in 1 .. Len(s) + b + 1 /\ ~(Len(s) + i <= Len(s)) /\ (Len(s) + i) - Len(s) = i
    <3>1. b \in Nat /\ Len(s) \in Nat /\ i \in 1 .. b + 1
      BY <1>2, <1>3
    <3> QED BY ONLY <3>1
  <2> QED BY <1>2, <1>4, <2>1
<1>7. \A p \in 1 .. Len(t) : p \in 1 .. Len(s) \/ \E i \in 1 .. b + 1 : p = Len(s) + i
  <2> TAKE p \in 1 .. Len(t)
  <2>1. CASE p <= Len(s)
    BY <1>3, <2>1
  <2>2. CASE ~(p <= Len(s))
    <3>1. p - Len(s) \in 1 .. b + 1 /\ p = Len(s) + (p - Len(s))
      BY <1>2, <1>3, <1>4, <2>2
    <3> QED BY <3>1
  <2> QED BY <2>1, <2>2
<1>8. ASSUME NEW p \in 1 .. Len(t)
      PROVE  t[p][1] \in 1 .. m /\ t[p][2] \in 1 .. Scripts[c][t[p][1]].body + 1
  <2>1. CASE p \in 1 .. Len(s)
    <3>1. t[p] = s[p] /\ s[p][1] \in 1 .. n /\ s[p][2] \in 1 .. Scripts[c][s[p][1]].body + 1
      BY <1>5, <2>1 DEF IsText
    <3>2. \A x \in 1 .. n : x \in 1 .. m
      OBVIOUS
    <3> QED BY <3>1, <3>2
  <2>2. ASSUME NEW i \in 1 .. b + 1, p = Len(s) + i
        PROVE  t[p][1] \in 1 .. m /\ t[p][2] \in 1 .. Scripts[c][t[p][1]].body + 1
    <3>1. t[p][1] = m /\ t[p][2] = i
      BY <1>6, <2>2
    <3>2. m \in 1 .. m
      BY <1>1
    <3> HIDE DEF m
    <3> QED BY <3>1, <3>2 DEF b
  <2> QED BY <1>7, <2>1, <2>2
<1>9. Len(t) > 0 /\ t[Len(t)][1] = m /\ K!IsNewline(c, t[Len(t)])
  <2>1. b + 1 \in 1 .. b + 1 /\ Len(t) = Len(s) + (b + 1) /\ Len(t) > 0
    BY <1>2, <1>3, <1>4
  <2>2. t[Len(t)] = <<m, b + 1>>
    BY <1>6, <2>1
  <2> HIDE DEF m
  <2> QED BY <2>1, <2>2 DEF b, K!IsNewline
<1>10. t[1] = <<1, 1>>
  <2>1. CASE n = 0
    <3>1. Len(s) = 0
      BY <2>1 DEF IsText
    <3>2. 1 \in 1 .. b + 1 /\ Len(s) + 1 = 1 /\ m = 1
      BY <1>2, <2>1, <3>1
    <3> QED BY <1>6, <3>2
  <2>2. CASE n # 0
    <3>1. Len(s) > 0 /\ s[1] = <<1, 1>>
      BY <2>2 DEF IsText
    <3>2. 1 \in 1 .. Len(s)
      BY <1>3, <3>1
    <3> QED BY <1>5, <3>1, <3>2
  <2> QED BY <2>1, <2>2
<1>11. ASSUME NEW p \in 1 .. Len(t) - 1 PROVE Follows(c, t[p], t[p + 1])
  <2>1. CASE p + 1 <= Len(s)
    <3>1. p \in 1 .. Len(s) - 1 /\ p \in 1 .. Len(s) /\ p + 1 \in 1 .. Len(s)
      BY <1>3, <2>1
    <3>2. Follows(c, s[p], s[p + 1])
      BY <3>1 DEF IsText
    <3> QED BY <1>5, <3>1, <3>2
  <2>2. CASE p = Len(s)
    <3>1. Len(s) > 0 /\ n # 0 /\ p \in 1 .. Len(s) /\ p + 1 = Len(s) + 1
      BY <1>3, <2>2 DEF IsText
    <3>2. s[p][1] = n /\ K!IsNewline(c, s[p])
      BY <2>2, <3>1 DEF IsText
    <3>3. 1 \in 1 .. b + 1
      BY <1>2
    <3>4. t[p + 1] = <<n + 1, 1>> /\ t[p] = s[p]
      BY <1>5, <1>6, <3>1, <3>3
    <3> QED BY <3>2, <3>4 DEF Follows
  <2>3. CASE p > Len(s)
    <3> DEFINE i == p - Len(s)
    <3>1. i \in 1 .. b + 1 /\ i + 1 \in 1 .. b + 1 /\ i # b + 1 /\ p = Len(s) + i /\ p + 1 = Len(s) + (i + 1)
      <4>1. b \in Nat /\ Len(s) \in Nat /\ Len(t) = Len(s) + b + 1
        BY <1>2, <1>3, <1>4
      <4> QED BY <2>3, <4>1
    <3> HIDE DEF i
    <3>2. t[p] = <<m, i>> /\ t[p + 1] = <<m, i + 1>>
      BY <1>6, <3>1
    <3> HIDE DEF m
    <3>3. ~K!IsNewline(c, t[p])
      BY <3>1, <3>2 DEF K!IsNewline, b
    <3> QED BY <3>2, <3>3 DEF Follows
  <2> QED BY <1>3, <1>4, <2>1, <2>2, <2>3
<1>12. m # 0
  OBVIOUS
<1> HIDE DEF m
<1>13. IsText(c, m, t)
  BY <1>4, <1>8, <1>9, <1>10, <1>11, <1>12 DEF IsText
<1> QED BY <1>13 DEF m, t, l

LEMMA InputIsText == ASSUME NEW c \in Peers PROVE IsText(c, Len(Scripts[c]), K!Input(c))
<1> DEFINE S == {n \in Nat : n <= Len(Scripts[c]) => IsText(c, n, K_Lines(c, n))}
<1>1. 0 \in S
  <2>1. [k \in 1 .. 0 |-> K!Line(c, k)] = <<>>
    OBVIOUS
  <2>2. K_Lines(c, 0) = <<>>
    BY <2>1 DEF K_Lines, K!FlattenSeq
  <2>3. Len(K_Lines(c, 0)) = 0 /\ K_Lines(c, 0) \in Seq(Nat \X Nat)
    BY <2>2, EmptySeq
  <2> QED BY <2>3 DEF IsText
<1>2. ASSUME NEW n \in Nat, n \in S PROVE n + 1 \in S
  <2> SUFFICES ASSUME n + 1 <= Len(Scripts[c]) PROVE IsText(c, n + 1, K_Lines(c, n + 1))
    OBVIOUS
  <2>1. IsText(c, n, K_Lines(c, n))
    BY <1>2, K_Script
  <2> QED BY <2>1, TextNext, K_LinesNext
<1> HIDE DEF S
<1>3. Len(Scripts[c]) \in S
  BY <1>1, <1>2, K_Script, SetInduction
<1>4. IsText(c, Len(Scripts[c]), K_Lines(c, Len(Scripts[c])))
  BY <1>3, K_Script DEF S
<1>5. K!Input(c) = K_Lines(c, Len(Scripts[c]))
  BY DEF K!Input, K_Lines
<1> QED BY <1>4, <1>5

\* Without a newline between them two tokens are of one line.
LEMMA SameLine ==
    ASSUME NEW c \in Peers, NEW p \in Nat, NEW m \in Nat \ {0}, p + m <= Len(K!Input(c)),
           \A i \in 1 .. m - 1 : ~K!IsNewline(c, K!Input(c)[p + i])
    PROVE  K!Input(c)[p + m] = <<K!Input(c)[p + 1][1], K!Input(c)[p + 1][2] + (m - 1)>>
<1> DEFINE s == K!Input(c)
           S == {k \in Nat : k + 1 <= m => s[p + (k + 1)] = <<s[p + 1][1], s[p + 1][2] + k>>}
<1>1. IsText(c, Len(Scripts[c]), s)
  BY InputIsText
<1> HIDE DEF s
<1>2. /\ Len(s) \in Nat
      /\ \A q \in 1 .. Len(s) : s[q] \in Nat \X Nat
      /\ \A q \in 1 .. Len(s) - 1 : Follows(c, s[q], s[q + 1])
  BY <1>1 DEF IsText
<1>3. p + m <= Len(s) /\ \A i \in 1 .. m - 1 : ~K!IsNewline(c, s[p + i])
  BY DEF s
<1>4. 0 \in S
  <2>1. p + 1 \in 1 .. Len(s) /\ p + (0 + 1) = p + 1
    BY <1>2, <1>3
  <2>2. s[p + 1] = <<s[p + 1][1], s[p + 1][2]>> /\ s[p + 1][2] + 0 = s[p + 1][2]
    BY <1>2, <2>1
  <2> QED BY <2>1, <2>2
<1>5. ASSUME NEW k \in Nat, k \in S PROVE k + 1 \in S
  <2> SUFFICES ASSUME (k + 1) + 1 <= m
               PROVE  s[p + ((k + 1) + 1)] = <<s[p + 1][1], s[p + 1][2] + (k + 1)>>
    OBVIOUS
  <2> DEFINE q == p + (k + 1)
  <2>1. /\ k + 1 <= m /\ k + 1 \in 1 .. m - 1 /\ q \in 1 .. Len(s) - 1
        /\ p + ((k + 1) + 1) = q + 1 /\ p + 1 \in 1 .. Len(s)
    BY <1>2, <1>3
  <2>2. s[q] = <<s[p + 1][1], s[p + 1][2] + k>>
    BY <1>5, <2>1
  <2>3. ~K!IsNewline(c, s[q])
    BY <1>3, <2>1
  <2> HIDE DEF q
  <2>4. s[q + 1] = <<s[q][1], s[q][2] + 1>>
    BY <1>2, <2>1, <2>3 DEF Follows
  <2>5. s[p + 1][2] \in Nat
    BY <1>2, <2>1
  <2>6. \A x \in Nat : (x + k) + 1 = x + (k + 1)
    OBVIOUS
  <2>7. s[q][1] = s[p + 1][1] /\ s[q][2] = s[p + 1][2] + k
    BY <2>2
  <2> QED BY <2>1, <2>4, <2>5, <2>6, <2>7
<1> HIDE DEF S
<1>6. m - 1 \in S
  BY <1>4, <1>5, SetInduction
<1>7. (m - 1) + 1 = m /\ m - 1 \in Nat
  OBVIOUS
<1> QED BY <1>6, <1>7 DEF S, s

\* Tokens no longer in the buffer, the first of the others, and its line.
Used(c)   == b_got[c] - Len(buf[c])
Ahead(c)  == K!Input(c)[Used(c) + 1]
LineOf(c) == IF Used(c) < Len(K!Input(c)) THEN Ahead(c)[1] ELSE Len(Scripts[c]) + 1

Expected(c, k) == <<k, IF Scripts[c][k].body < BUF THEN Scripts[c][k].type ELSE "unknown">>

L_TypeOK ==
    /\ b_peer \in [Peers -> {"new", "open", "shut", "gone"}]
    /\ b_pc \in [Peers -> Threads \cup {"none", "start", "end"}]
    /\ b_sent \in [Peers -> Nat] /\ b_got \in [Peers -> Nat]
    /\ buf \in [Peers -> Seq(Nat \X Nat)]
    /\ answers \in [Peers -> Seq(Nat \X K!Types)]
    /\ total \in [K!Types -> Int]

\* What is in the buffer is the end of what was read.  It begins with a line, or
\* within one that is longer than the buffer.
L_Buffer(c) ==
    /\ b_got[c] <= b_sent[c] /\ b_sent[c] <= Len(K!Input(c))
    /\ b_peer[c] = "shut" => b_sent[c] = Len(K!Input(c))
    /\ Len(buf[c]) <= b_got[c] /\ Len(buf[c]) <= BUF
    /\ \A i \in 1 .. Len(buf[c]) : buf[c][i] = K!Input(c)[Used(c) + i]
    /\ b_pc[c] \in {"none", "start", "count", "recv"} => K!Newlines(c) = {} /\ Len(buf[c]) < BUF
    /\ b_pc[c] = "stream" => K!Newlines(c) # {} /\ K!TypeOf(c) = "STREAM"
    /\ Used(c) < Len(K!Input(c)) => Ahead(c)[2] = 1 \/ Scripts[c][Ahead(c)[1]].body >= BUF

\* The lines before it have been answered, unless the client is gone.
L_Answers(c) ==
    /\ Len(answers[c]) <= Len(Scripts[c])
    /\ \A i \in 1 .. Len(answers[c]) : answers[c][i] = Expected(c, i)
    /\ b_peer[c] # "gone" =>
          /\ Len(answers[c]) = LineOf(c) - 1
          /\ b_pc[c] \in {"closed", "finish", "end"} => Used(c) = Len(K!Input(c))

\* A request is counted when its answer begins.
Begun(c) == Len(answers[c]) + (IF b_pc[c] = "stream" THEN 1 ELSE 0)
L_Counters ==
    (\A c \in Peers : b_peer[c] # "gone") =>
        SumFunctionOnSet(total, K!Types) = SumFunctionOnSet([c \in Peers |-> Begun(c)], Peers)

L_Inv == L_TypeOK /\ (\A c \in Peers : L_Buffer(c) /\ L_Answers(c)) /\ L_Counters

LEMMA BufConstants == BUF \in Nat \ {0} /\ IsFiniteSet(K!Types) /\ "unknown" \in K!Types
<1>1. IsFiniteSet(K!Types)
  <2>1. K!Types = {"PING", "WAIT", "BURN", "STREAM"} \cup {"unknown"}
    BY DEF K!Types
  <2>2. {"PING", "WAIT", "BURN", "STREAM"} = {"PING", "WAIT", "BURN"} \cup {"STREAM"}
    OBVIOUS
  <2>3. {"PING", "WAIT", "BURN"} = {"PING", "WAIT"} \cup {"BURN"}
    OBVIOUS
  <2>4. {"PING", "WAIT"} = {"PING"} \cup {"WAIT"}
    OBVIOUS
  <2> QED BY <2>1, <2>2, <2>3, <2>4, FS_Singleton, FS_Union
<1> QED BY <1>1, ServersAssumption DEF K!BlockingConstants, K!Types

\* The rest of a sequence, a stretch of it, and one element more.
LEMMA CutFront ==
    ASSUME NEW T, NEW z \in Seq(T), NEW m \in 1 .. Len(z)
    PROVE  /\ SubSeq(z, m + 1, Len(z)) \in Seq(T) /\ Len(SubSeq(z, m + 1, Len(z))) = Len(z) - m
           /\ \A i \in 1 .. Len(z) - m : SubSeq(z, m + 1, Len(z))[i] = z[m + i]
<1>1. Len(z) \in Nat /\ \A i \in 1 .. Len(z) - m : (m + 1) + i - 1 = m + i
  OBVIOUS
<1>2. CASE m = Len(z)
  <2>1. SubSeq(z, m + 1, Len(z)) = <<>> /\ Len(z) - m = 0
    BY <1>1, <1>2
  <2> QED BY <2>1
<1>3. CASE m # Len(z)
  BY <1>1, <1>3
<1> QED BY <1>2, <1>3

LEMMA Stretch ==
    ASSUME NEW z \in Seq(Nat \X Nat), NEW a \in Nat, NEW n \in Nat \ {0}, a + n <= Len(z)
    PROVE  /\ SubSeq(z, a + 1, a + n) \in Seq(Nat \X Nat) /\ Len(SubSeq(z, a + 1, a + n)) = n
           /\ \A i \in 1 .. n : SubSeq(z, a + 1, a + n)[i] = z[a + i]
<1>1. /\ Len(z) \in Nat /\ a + 1 \in 1 .. Len(z) /\ a + n \in 1 .. Len(z) /\ (a + n) - (a + 1) + 1 = n
      /\ \A i \in 1 .. n : (a + 1) + i - 1 = a + i
  OBVIOUS
<1> QED BY <1>1

LEMMA OneMore ==
    ASSUME NEW z \in Seq(Nat \X K!Types), NEW e \in Nat \X K!Types
    PROVE  Append(z, e)[Len(z) + 1] = e /\ \A i \in 1 .. Len(z) : Append(z, e)[i] = z[i]
OBVIOUS

LEMMA OneCounted ==
    ASSUME NEW f \in [K!Types -> Int], NEW y \in K!Types
    PROVE  SumFunctionOnSet([f EXCEPT ![y] = @ + 1], K!Types) = SumFunctionOnSet(f, K!Types) + 1
<1> DEFINE v == f[y] + 1
           T == SumFunctionOnSet(f, K!Types)
<1>1. v \in Int /\ f[y] \in Int /\ T \in Int
  BY BufConstants, SumType
<1> HIDE DEF v
<1>2. SumFunctionOnSet([f EXCEPT ![y] = v], K!Types) = T + (v - f[y])
  <2>1. v \in Int /\ IsFiniteSet(K!Types)
    BY <1>1, BufConstants
  <2> DEFINE S == K!Types
  <2>2. f \in [S -> Int] /\ y \in S /\ IsFiniteSet(S)
    BY <2>1
  <2> HIDE DEF S
  <2>3. SumFunctionOnSet([f EXCEPT ![y] = v], S) = SumFunctionOnSet(f, S) + (v - f[y])
    BY <2>1, <2>2, SumExcept
  <2> QED BY <2>3 DEF S
<1> HIDE DEF T
<1>3. T + (v - f[y]) = T + 1
  BY <1>1 DEF v
<1> QED BY <1>2, <1>3 DEF v, T

LEMMA K_Least ==
    ASSUME NEW S \in SUBSET Nat, S # {} PROVE K!Min(S) \in S /\ \A x \in S : K!Min(S) <= x
<1>1. \E x \in S : \A y \in S : x <= y
  <2> DEFINE f == CHOOSE x : x \in S
             G == {n \in Nat : \A x \in S : x <= n => \E y \in S : \A z \in S : y <= z}
  <2>1. 0 \in G
    <3> SUFFICES ASSUME NEW x \in S, x <= 0 PROVE \E y \in S : \A z \in S : y <= z
      OBVIOUS
    <3>1. x = 0
      OBVIOUS
    <3> QED BY <3>1
  <2>2. ASSUME NEW n \in Nat, n \in G PROVE n + 1 \in G
    <3> SUFFICES ASSUME NEW x \in S, x <= n + 1 PROVE \E y \in S : \A z \in S : y <= z
      OBVIOUS
    <3>1. CASE \E z \in S : z <= n
      BY <2>2, <3>1
    <3>2. CASE \A z \in S : ~(z <= n)
      <4>1. \A z \in S : x <= z
        BY <3>2
      <4> QED BY <4>1
    <3> QED BY <3>1, <3>2
  <2> HIDE DEF G
  <2>3. \A n \in Nat : n \in G
    BY <2>1, <2>2, SetInduction
  <2>4. PICK x \in S : TRUE
    OBVIOUS
  <2>5. x \in Nat /\ x \in G /\ x <= x
    BY <2>3
  <2> QED BY <2>5 DEF G
<1> QED BY <1>1 DEF K!Min

Newline(c) == K!Min(K!Newlines(c))

\* The line at the front of the buffer is the first one not answered, and is taken
\* for what it is; behind it the next one begins.
LEMMA L_OneLine ==
    ASSUME L_TypeOK, NEW c \in Peers, L_Buffer(c), K!Newlines(c) # {}
    PROVE  /\ Newline(c) \in 1 .. Len(buf[c]) /\ Used(c) \in Nat
           /\ Used(c) + Newline(c) <= Len(K!Input(c))
           /\ Used(c) < Len(K!Input(c)) /\ LineOf(c) \in 1 .. Len(Scripts[c])
           /\ K!Request(c) = LineOf(c) /\ K!TypeOf(c) \in K!Types
           /\ <<K!Request(c), K!TypeOf(c)>> = Expected(c, LineOf(c))
           /\ IF Used(c) + Newline(c) < Len(K!Input(c))
              THEN K!Input(c)[(Used(c) + Newline(c)) + 1] = <<LineOf(c) + 1, 1>>
              ELSE LineOf(c) = Len(Scripts[c])
<1> DEFINE m == Newline(c)
           s == K!Input(c)
           p == Used(c)
           n == Len(Scripts[c])
           k == s[p + 1][1]
           b == Scripts[c][k].body
<1>1. /\ Len(buf[c]) \in Nat /\ b_got[c] \in Nat /\ buf[c] \in Seq(Nat \X Nat) /\ n \in Nat
  BY K_Script DEF L_TypeOK
<1>2. /\ b_got[c] <= Len(s) /\ p = b_got[c] - Len(buf[c]) /\ Len(buf[c]) <= b_got[c]
      /\ Len(buf[c]) <= BUF /\ \A i \in 1 .. Len(buf[c]) : buf[c][i] = s[p + i]
  <2>1. /\ b_got[c] <= b_sent[c] /\ b_sent[c] <= Len(s) /\ Len(buf[c]) <= b_got[c]
        /\ Len(buf[c]) <= BUF /\ \A i \in 1 .. Len(buf[c]) : buf[c][i] = s[p + i]
    BY DEF L_Buffer
  <2>2. b_sent[c] \in Nat /\ Len(s) \in Nat
    BY InputIsText DEF L_TypeOK, IsText
  <2> QED BY <1>1, <2>1, <2>2 DEF Used
<1>3. /\ Len(s) \in Nat /\ \A q \in 1 .. Len(s) : s[q] \in Nat \X Nat
      /\ \A q \in 1 .. Len(s) : s[q][1] \in 1 .. n
      /\ n # 0 => s[Len(s)][1] = n
      /\ n = 0 => Len(s) = 0
      /\ \A q \in 1 .. Len(s) - 1 : Follows(c, s[q], s[q + 1])
  <2> HIDE DEF s
  <2>1. IsText(c, n, s)
    BY InputIsText DEF s
  <2> QED BY <2>1 DEF IsText
<1>4. /\ m \in 1 .. Len(buf[c]) /\ K!IsNewline(c, buf[c][m])
      /\ \A i \in 1 .. m - 1 : ~K!IsNewline(c, buf[c][i])
  <2>1. K!Newlines(c) \in SUBSET Nat
    BY DEF K!Newlines
  <2>2. m \in K!Newlines(c) /\ \A x \in K!Newlines(c) : m <= x
    BY <2>1, K_Least DEF Newline
  <2>3. m \in 1 .. Len(buf[c]) /\ K!IsNewline(c, buf[c][m])
    BY <2>2 DEF K!Newlines
  <2>4. ASSUME NEW i \in 1 .. m - 1, K!IsNewline(c, buf[c][i]) PROVE FALSE
    <3>1. i \in 1 .. Len(buf[c]) /\ ~(m <= i)
      <4>1. Len(buf[c]) \in Nat /\ m \in 1 .. Len(buf[c])
        BY <1>1, <2>3
      <4> QED BY <4>1
    <3> QED BY <2>2, <2>4, <3>1 DEF K!Newlines
  <2> QED BY <2>3, <2>4
<1> HIDE DEF m, s, p, n
<1>5. /\ p \in Nat /\ p + m <= Len(s) /\ p < Len(s) /\ p + 1 \in 1 .. Len(s) /\ m \in Nat \ {0}
      /\ p + m \in 1 .. Len(s)
  <2>1. /\ Len(buf[c]) \in Nat /\ b_got[c] \in Nat /\ Len(s) \in Nat /\ m \in 1 .. Len(buf[c])
        /\ b_got[c] <= Len(s) /\ p = b_got[c] - Len(buf[c]) /\ Len(buf[c]) <= b_got[c]
    BY <1>1, <1>2, <1>3, <1>4
  <2>2. \A u, g, x \in Nat : \A i \in 1 .. u : g <= x /\ u <= g =>
            /\ g - u \in Nat /\ (g - u) + i <= x /\ g - u < x /\ (g - u) + 1 \in 1 .. x
            /\ i \in Nat \ {0} /\ (g - u) + i \in 1 .. x
    OBVIOUS
  <2> QED BY <2>1, <2>2
<1>6. buf[c][1] = s[p + 1] /\ buf[c][m] = s[p + m] /\ \A i \in 1 .. m - 1 : buf[c][i] = s[p + i]
  <2>1. /\ 1 \in 1 .. Len(buf[c]) /\ m \in 1 .. Len(buf[c])
        /\ \A i \in 1 .. m - 1 : i \in 1 .. Len(buf[c])
    <3>1. Len(buf[c]) \in Nat /\ m \in 1 .. Len(buf[c])
      BY <1>1, <1>4
    <3> QED BY <3>1
  <2> QED BY <1>2, <2>1
<1>7. s[p + m] = <<k, s[p + 1][2] + (m - 1)>>
  <2>1. \A i \in 1 .. m - 1 : ~K!IsNewline(c, K!Input(c)[p + i])
    BY <1>4, <1>6 DEF s
  <2>2. p + m <= Len(K!Input(c))
    BY <1>5 DEF s
  <2> QED BY <1>5, <2>1, <2>2, SameLine DEF s
<1>8. k \in 1 .. n /\ s[p + 1][2] \in Nat /\ k \in Nat
  BY <1>1, <1>3, <1>5
<1>9. LineOf(c) = k /\ K!Request(c) = k
  <2>1. LineOf(c) = k
    BY <1>5 DEF LineOf, Ahead, s, p
  <2>2. K!Request(c) = k
    BY <1>6 DEF K!Request
  <2> QED BY <2>1, <2>2
<1> HIDE DEF k
<1>10. K!IsNewline(c, s[p + m]) /\ b \in Nat /\ s[p + 1][2] + (m - 1) = b + 1 /\ Scripts[c][k].type \in K!Types
  <2>1. K!IsNewline(c, s[p + m])
    BY <1>4, <1>6
  <2>2. b \in Nat /\ Scripts[c][k].type \in K!Types
    BY <1>8, K_Script DEF n
  <2> QED BY <1>7, <2>1, <2>2 DEF K!IsNewline
<1>11. K!TypeOf(c) = (IF b < BUF THEN Scripts[c][k].type ELSE "unknown")
  <2>1. CASE s[p + 1][2] = 1
    <3>1. m = b + 1 /\ b < BUF
      <4>1. /\ Len(buf[c]) \in Nat /\ m \in 1 .. Len(buf[c]) /\ Len(buf[c]) <= BUF
            /\ b \in Nat /\ BUF \in Nat /\ 1 + (m - 1) = b + 1
        BY <1>1, <1>2, <1>4, <1>10, <2>1, BufConstants
      <4> HIDE DEF b
      <4> QED BY <4>1
    <3> QED BY <1>6, <1>9, <2>1, <3>1 DEF K!TypeOf
  <2>2. CASE s[p + 1][2] # 1
    <3>1. b >= BUF
      BY <1>5, <2>2 DEF L_Buffer, Ahead, s, p, k
    <3>2. ~(b < BUF)
      BY <1>10, <3>1, BufConstants
    <3> QED BY <1>6, <2>2, <3>2 DEF K!TypeOf
  <2> QED BY <2>1, <2>2
<1>12. CASE p + m < Len(s)
  <2>1. p + m \in 1 .. Len(s) - 1
    BY <1>3, <1>5, <1>12
  <2>2. Follows(c, s[p + m], s[(p + m) + 1])
    BY <1>3, <2>1
  <2>3. s[(p + m) + 1] = <<s[p + m][1] + 1, 1>>
    BY <1>10, <2>2 DEF Follows
  <2>4. s[p + m][1] = k
    BY <1>7
  <2>5. s[(p + m) + 1] = <<k + 1, 1>>
    BY <2>3, <2>4
  <2> QED BY <1>4, <1>5, <1>8, <1>9, <1>10, <1>11, <1>12, <2>5, BufConstants DEF Expected, m, s, p, n
<1>13. CASE ~(p + m < Len(s))
  <2>1. p + m = Len(s) /\ n # 0
    BY <1>3, <1>5, <1>8, <1>13
  <2>2. k = n
    BY <1>3, <1>7, <2>1
  <2> QED BY <1>4, <1>5, <1>8, <1>9, <1>10, <1>11, <1>13, <2>2, BufConstants DEF Expected, m, s, p, n
<1> QED BY <1>12, <1>13

\* Answering it and shifting it out.
LEMMA L_Shift ==
    ASSUME L_TypeOK, L_TypeOK', NEW c \in Peers, L_Buffer(c), L_Answers(c), K!Newlines(c) # {},
           buf'[c] = SubSeq(buf[c], Newline(c) + 1, Len(buf[c])),
           b_got'[c] = b_got[c], b_sent'[c] = b_sent[c], b_peer'[c] = b_peer[c],
           b_pc'[c] = "lines",
           answers'[c] = IF b_peer[c] = "gone" THEN answers[c]
                         ELSE Append(answers[c], <<K!Request(c), K!TypeOf(c)>>)
    PROVE  L_Buffer(c)' /\ L_Answers(c)'
<1> DEFINE m == Newline(c)
           p == Used(c)
           n == Len(Scripts[c])
           k == LineOf(c)
           s == K!Input(c)
<1>1. /\ m \in 1 .. Len(buf[c]) /\ p \in Nat /\ p + m <= Len(s)
      /\ p < Len(s) /\ k \in 1 .. n
      /\ <<K!Request(c), K!TypeOf(c)>> = Expected(c, k)
      /\ IF p + m < Len(s) THEN s[(p + m) + 1] = <<k + 1, 1>> ELSE k = n
  BY L_OneLine
<1>2. /\ Len(buf[c]) \in Nat /\ b_got[c] \in Nat /\ buf[c] \in Seq(Nat \X Nat) /\ n \in Nat
      /\ Len(answers[c]) \in Nat /\ answers[c] \in Seq(Nat \X K!Types)
      /\ p = b_got[c] - Len(buf[c])
      /\ Len(s) \in Nat
  BY K_Script, InputIsText DEF L_TypeOK, Used, IsText
<1>3. /\ b_got[c] <= b_sent[c] /\ b_sent[c] <= Len(s) /\ Len(buf[c]) <= b_got[c]
      /\ b_peer[c] = "shut" => b_sent[c] = Len(s)
      /\ Len(buf[c]) <= BUF /\ \A i \in 1 .. Len(buf[c]) : buf[c][i] = s[p + i]
  BY DEF L_Buffer
<1>4. buf'[c] = SubSeq(buf[c], m + 1, Len(buf[c]))
  OBVIOUS
<1>5. Used(c)' = b_got[c] - Len(buf'[c]) /\ LineOf(c)' = IF Used(c)' < Len(s) THEN s[Used(c)' + 1][1] ELSE n + 1
  BY DEF Used, LineOf, Ahead
<1> HIDE DEF m, p, k, n, s
<1>6. /\ Len(buf'[c]) = Len(buf[c]) - m
      /\ \A i \in 1 .. Len(buf[c]) - m : buf'[c][i] = buf[c][m + i]
  <2>1. buf[c] \in Seq(Nat \X Nat) /\ m \in 1 .. Len(buf[c])
    BY <1>1, <1>2
  <2>2. /\ Len(SubSeq(buf[c], m + 1, Len(buf[c]))) = Len(buf[c]) - m
        /\ \A i \in 1 .. Len(buf[c]) - m : SubSeq(buf[c], m + 1, Len(buf[c]))[i] = buf[c][m + i]
    BY <2>1, CutFront, Zenon
  <2> QED BY <1>4, <2>2, Zenon
<1>7. Used(c)' = p + m
  <2>1. /\ Len(buf[c]) \in Nat /\ m \in 1 .. Len(buf[c]) /\ b_got[c] \in Nat
        /\ p = b_got[c] - Len(buf[c]) /\ Used(c)' = b_got[c] - (Len(buf[c]) - m)
    BY <1>1, <1>2, <1>5, <1>6
  <2> QED BY <2>1
<1>8. \A i \in 1 .. Len(buf'[c]) : buf'[c][i] = s[Used(c)' + i]
  <2> TAKE i \in 1 .. Len(buf'[c])
  <2>1. i \in 1 .. Len(buf[c]) - m /\ m + i \in 1 .. Len(buf[c]) /\ p + (m + i) = (p + m) + i
    <3>1. Len(buf[c]) \in Nat /\ m \in 1 .. Len(buf[c]) /\ p \in Nat /\ i \in 1 .. Len(buf[c]) - m
      BY <1>1, <1>2, <1>6
    <3> QED BY <3>1
  <2> QED BY <1>3, <1>6, <1>7, <2>1
<1>9. LineOf(c)' = k + 1
  <2>1. CASE p + m < Len(s)
    <3>1. s[(p + m) + 1] = <<k + 1, 1>> /\ LineOf(c)' = s[(p + m) + 1][1]
      BY <1>1, <1>5, <1>7, <2>1
    <3> QED BY <3>1
  <2>2. CASE ~(p + m < Len(s))
    BY <1>1, <1>5, <1>7, <2>2
  <2> QED BY <2>1, <2>2
<1>10. L_Buffer(c)'
  <2>1. Len(buf'[c]) <= b_got'[c] /\ Len(buf'[c]) <= BUF
    <3>1. \A u, x \in Nat : \A i \in 1 .. u : u <= x => u - i <= x
      OBVIOUS
    <3> QED BY <1>1, <1>2, <1>3, <1>6, <3>1, BufConstants
  <2>2. Used(c)' < Len(s) => s[Used(c)' + 1][2] = 1
    BY <1>1, <1>7
  <2> QED BY <1>3, <1>8, <2>1, <2>2 DEF L_Buffer, Ahead, s
<1>11. L_Answers(c)'
  <2>1. CASE b_peer[c] = "gone"
    BY <2>1 DEF L_Answers
  <2>2. CASE b_peer[c] # "gone"
    <3>1. Len(answers[c]) = k - 1 /\ \A i \in 1 .. Len(answers[c]) : answers[c][i] = Expected(c, i)
      BY <2>2 DEF L_Answers, k
    <3>2. answers'[c] = Append(answers[c], Expected(c, k))
      BY <1>1, <2>2
    <3>3. Len(answers'[c]) = k /\ k <= n /\ k = LineOf(c)' - 1
      BY <1>1, <1>2, <1>9, <3>1, <3>2
    <3>4. \A i \in 1 .. k : answers'[c][i] = Expected(c, i)
      <4>1. k = Len(answers[c]) + 1
        BY <1>1, <1>2, <3>1
      <4>2. \A i \in 1 .. k : i \in 1 .. Len(answers[c]) \/ i = Len(answers[c]) + 1
        BY <1>2, <4>1
      <4> DEFINE z == answers[c]
                 e == Expected(c, k)
      <4>3. z \in Seq(Nat \X K!Types) /\ e \in Nat \X K!Types /\ answers'[c] = Append(z, e)
        <5>1. k \in Nat /\ Scripts[c][k].type \in K!Types
          <6>1. k \in 1 .. Len(Scripts[c])
            BY <1>1 DEF n
          <6> QED BY <6>1, K_Script
        <5> QED BY <1>2, <3>2, <5>1, BufConstants DEF Expected
      <4> HIDE DEF z, e
      <4>4. answers'[c][Len(z) + 1] = e /\ \A i \in 1 .. Len(z) : answers'[c][i] = z[i]
        <5>1. Append(z, e)[Len(z) + 1] = e /\ \A i \in 1 .. Len(z) : Append(z, e)[i] = z[i]
          BY <4>3, OneMore, Zenon
        <5> QED BY <4>3, <5>1, Zenon
      <4> QED BY <3>1, <4>1, <4>2, <4>4 DEF z, e
    <3>5. \A i \in 1 .. Len(answers'[c]) : answers'[c][i] = Expected(c, i)
      BY <3>3, <3>4
    <3> QED BY <3>3, <3>5 DEF L_Answers, Expected, n
  <2> QED BY <2>1, <2>2
<1> QED BY <1>10, <1>11

\* A step is one client's.
Kept(d) == /\ b_peer'[d] = b_peer[d] /\ b_sent'[d] = b_sent[d] /\ b_got'[d] = b_got[d]
           /\ b_pc'[d] = b_pc[d] /\ buf'[d] = buf[d] /\ answers'[d] = answers[d]

LEMMA L_Kept ==
    ASSUME NEW d \in Peers, Kept(d), L_Buffer(d), L_Answers(d)
    PROVE  L_Buffer(d)' /\ L_Answers(d)' /\ Begun(d)' = Begun(d)
<1>1. K!Newlines(d)' = K!Newlines(d) /\ K!TypeOf(d)' = K!TypeOf(d)
  BY DEF Kept, K!Newlines, K!TypeOf, K!Request, K!IsNewline
<1>2. Used(d)' = Used(d) /\ Ahead(d)' = Ahead(d) /\ LineOf(d)' = LineOf(d)
  BY DEF Kept, Used, Ahead, LineOf
<1>3. L_Buffer(d)'
  BY <1>1, <1>2 DEF Kept, L_Buffer
<1>4. L_Answers(d)'
  BY <1>2 DEF Kept, L_Answers, Expected
<1>5. Begun(d)' = Begun(d)
  BY DEF Kept, Begun
<1> QED BY <1>3, <1>4, <1>5

LEMMA L_OneClient ==
    ASSUME L_Inv, L_TypeOK', NEW c \in Peers, \A d \in Peers : d # c => Kept(d),
           L_Buffer(c)', L_Answers(c)',
           b_peer'[c] # "gone" =>
               /\ b_peer[c] # "gone"
               /\ \/ total' = total /\ Begun(c)' = Begun(c)
                  \/ \E y \in K!Types : /\ total' = [total EXCEPT ![y] = @ + 1]
                                        /\ Begun(c)' = Begun(c) + 1
    PROVE  L_Inv'
<1>1. \A d \in Peers : d # c => L_Buffer(d)' /\ L_Answers(d)' /\ Begun(d)' = Begun(d)
  BY L_Kept DEF L_Inv
<1>2. ASSUME \A d \in Peers : b_peer'[d] # "gone"
      PROVE  SumFunctionOnSet(total', K!Types)
               = SumFunctionOnSet([d \in Peers |-> Begun(d)'], Peers)
  <2> DEFINE f == [d \in Peers |-> Begun(d)]
             g == [d \in Peers |-> Begun(d)']
             T == SumFunctionOnSet(total, K!Types)
  <2>1. \A d \in Peers : b_peer[d] # "gone"
    BY <1>2 DEF Kept
  <2>2. T = SumFunctionOnSet(f, Peers)
    BY <2>1 DEF L_Inv, L_Counters
  <2>3. \A d \in Peers : f[d] \in Int /\ g[d] \in Int
    <3>1. \A d \in Peers : Begun(d) \in Int
      BY DEF L_Inv, L_TypeOK, Begun
    <3>2. \A d \in Peers : Begun(d)' \in Int
      BY DEF L_TypeOK, Begun
    <3> QED BY <3>1, <3>2
  <2>4. \A d \in Peers : d # c => g[d] = f[d]
    BY <1>1
  <2>5. g[c] = Begun(c)' /\ f[c] = Begun(c)
    OBVIOUS
  <2> HIDE DEF f, g
  <2>6. SumFunctionOnSet(g, Peers) = SumFunctionOnSet(f, Peers) + (g[c] - f[c])
    BY <2>3, <2>4, PeersFinite, SumUpdate
  <2>7. total \in [K!Types -> Int]
    BY DEF L_Inv, L_TypeOK
  <2>8. T \in Int
    BY <2>7, BufConstants, SumType
  <2> HIDE DEF T
  <2>9. CASE total' = total /\ Begun(c)' = Begun(c)
    <3>1. SumFunctionOnSet(g, Peers) = T
      BY <2>2, <2>3, <2>5, <2>6, <2>8, <2>9
    <3> QED BY <2>9, <3>1 DEF T, g
  <2>10. ASSUME NEW y \in K!Types, total' = [total EXCEPT ![y] = @ + 1], Begun(c)' = Begun(c) + 1
         PROVE  SumFunctionOnSet(total', K!Types) = SumFunctionOnSet(g, Peers)
    <3>1. SumFunctionOnSet([total EXCEPT ![y] = @ + 1], K!Types) = T + 1
      BY <2>7, OneCounted DEF T
    <3>2. SumFunctionOnSet(total', K!Types) = T + 1
      BY <2>10, <3>1
    <3>3. SumFunctionOnSet(g, Peers) = T + 1
      BY <2>2, <2>3, <2>5, <2>6, <2>8, <2>10
    <3> QED BY <3>2, <3>3
  <2>11. SumFunctionOnSet(total', K!Types) = SumFunctionOnSet(g, Peers)
    BY <1>2, <2>9, <2>10 DEF g
  <2> QED BY <2>11 DEF g
<1>3. L_Counters'
  BY <1>2 DEF L_Counters
<1> QED BY <1>1, <1>3 DEF L_Inv

\* Steps that leave buffer and answers alone.
LEMMA L_Moves ==
    ASSUME K_Inv, L_Inv, NEW c \in Peers,
           K!Connect(c) \/ K!Send(c) \/ K!Reset(c) \/ K!Accept \/ K!Gauge(c)
    PROVE  L_Inv'
<1>1. L_TypeOK /\ L_Buffer(c) /\ L_Answers(c)
  BY DEF L_Inv
<1>2. /\ b_sent[c] \in Nat /\ b_got[c] \in Nat /\ Len(K!Input(c)) \in Nat
      /\ b_peer \in [Peers -> {"new", "open", "shut", "gone"}]
      /\ b_pc \in [Peers -> Threads \cup {"none", "start", "end"}]
  BY <1>1, InputIsText DEF L_TypeOK, IsText
<1>3. /\ UNCHANGED <<b_got, buf, answers, total>>
      /\ \A d \in Peers : Used(d)' = Used(d) /\ Ahead(d)' = Ahead(d) /\ LineOf(d)' = LineOf(d)
      /\ \A d \in Peers : K!Newlines(d)' = K!Newlines(d) /\ K!TypeOf(d)' = K!TypeOf(d)
  <2>1. UNCHANGED <<b_got, buf, answers, total>>
    BY DEF K!Connect, K!Send, K!Reset, K!Accept, K!Gauge, K!connVars
  <2> QED BY <2>1 DEF Used, Ahead, LineOf, K!Newlines, K!TypeOf, K!Request, K!IsNewline
<1>4. CASE K!Connect(c)
  <2>1. b_peer[c] = "new" /\ b_peer' = [b_peer EXCEPT ![c] = "open"] /\ UNCHANGED <<b_sent, b_pc>>
    BY <1>4 DEF K!Connect
  <2>2. b_peer'[c] = "open" /\ \A d \in Peers : d # c => Kept(d)
    BY <1>2, <1>3, <2>1 DEF Kept
  <2>3. L_TypeOK'
    BY <1>1, <1>2, <1>3, <2>1 DEF L_TypeOK
  <2>4. L_Buffer(c)' /\ L_Answers(c)' /\ Begun(c)' = Begun(c)
    BY <1>1, <1>3, <2>1, <2>2 DEF L_Buffer, L_Answers, Expected, Begun
  <2> QED BY <1>3, <2>1, <2>2, <2>3, <2>4, L_OneClient
<1>5. CASE K!Send(c)
  <2>1. /\ b_peer[c] = "open" /\ UNCHANGED b_pc
        /\ \/ b_sent[c] < Len(K!Input(c)) /\ b_sent' = [b_sent EXCEPT ![c] = @ + 1] /\ UNCHANGED b_peer
           \/ ~(b_sent[c] < Len(K!Input(c))) /\ b_peer' = [b_peer EXCEPT ![c] = "shut"] /\ UNCHANGED b_sent
    BY <1>5 DEF K!Send
  <2>2. /\ \A d \in Peers : d # c => Kept(d)
        /\ b_peer'[c] # "gone" /\ b_sent'[c] \in Nat
        /\ \/ b_sent[c] < Len(K!Input(c)) /\ b_sent'[c] = b_sent[c] + 1 /\ b_peer'[c] = "open"
           \/ b_sent[c] >= Len(K!Input(c)) /\ b_sent'[c] = b_sent[c]
    BY <1>1, <1>2, <1>3, <2>1 DEF Kept, L_TypeOK
  <2>3. L_TypeOK'
    <3>1. b_sent' \in [Peers -> Nat]
      <4>1. b_sent \in [Peers -> Nat]
        BY <1>1 DEF L_TypeOK
      <4>2. CASE b_sent' = [b_sent EXCEPT ![c] = @ + 1]
        BY <4>1, <4>2
      <4> QED BY <2>1, <4>1, <4>2
    <3>2. b_peer' \in [Peers -> {"new", "open", "shut", "gone"}]
      BY <1>2, <2>1
    <3> QED BY <1>1, <1>3, <2>1, <3>1, <3>2 DEF L_TypeOK
  <2>4. /\ b_got[c] <= b_sent'[c] /\ b_sent'[c] <= Len(K!Input(c))
        /\ b_peer'[c] = "shut" => b_sent'[c] = Len(K!Input(c))
    <3>1. b_got[c] <= b_sent[c] /\ b_sent[c] <= Len(K!Input(c))
      BY <1>1 DEF L_Buffer
    <3> QED BY <1>2, <2>2, <3>1
  <2>5. L_Buffer(c)'
    BY <1>1, <1>3, <2>1, <2>4 DEF L_Buffer
  <2>6. L_Answers(c)' /\ Begun(c)' = Begun(c)
    BY <1>1, <1>3, <2>1, <2>2 DEF L_Answers, Expected, Begun
  <2> QED BY <1>3, <2>1, <2>2, <2>3, <2>5, <2>6, L_OneClient
<1>6. CASE K!Reset(c)
  <2>1. b_peer' = [b_peer EXCEPT ![c] = "gone"] /\ UNCHANGED <<b_sent, b_pc>>
    BY <1>6 DEF K!Reset
  <2>2. b_peer'[c] = "gone" /\ \A d \in Peers : d # c => Kept(d)
    BY <1>2, <1>3, <2>1 DEF Kept
  <2>3. L_TypeOK'
    BY <1>1, <1>2, <1>3, <2>1 DEF L_TypeOK
  <2>4. L_Buffer(c)' /\ L_Answers(c)'
    BY <1>1, <1>3, <2>1, <2>2 DEF L_Buffer, L_Answers, Expected
  <2> QED BY <2>2, <2>3, <2>4, L_OneClient
<1>7. ASSUME K!Accept PROVE L_Inv'
  <2>1. PICK d \in Peers, l \in {"start", "recv"} :
            b_pc[d] = "none" /\ b_pc' = [b_pc EXCEPT ![d] = l]
    <3>1. listener # <<>> /\ listener \in Seq(Peers)
      BY <1>7 DEF K!Accept, K_Inv, K_TypeOK
    <3>2. 1 \in 1 .. Len(listener) /\ Head(listener) = listener[1] /\ Head(listener) \in Peers
      BY <3>1
    <3>3. b_pc[Head(listener)] = "none"
      BY <3>2 DEF K_Inv, K_Queue
    <3>4. b_pc' = [b_pc EXCEPT ![Head(listener)] = IF threaded THEN "start" ELSE "recv"]
      BY <1>7 DEF K!Accept, K!Goto
    <3> QED BY <3>2, <3>3, <3>4
  <2>2. UNCHANGED <<b_peer, b_sent>>
    BY <1>7 DEF K!Accept, K!connVars
  <2>3. b_pc'[d] = l /\ \A e \in Peers : e # d => Kept(e)
    BY <1>2, <1>3, <2>1, <2>2 DEF Kept
  <2>4. L_TypeOK'
    BY <1>1, <1>2, <1>3, <2>1, <2>2 DEF L_TypeOK, Threads
  <2>5. L_Buffer(d) /\ L_Answers(d)
    BY <2>1 DEF L_Inv
  <2>6. L_Buffer(d)'
    BY <1>3, <2>1, <2>2, <2>3, <2>5 DEF L_Buffer
  <2>7. L_Answers(d)' /\ Begun(d)' = Begun(d)
    BY <1>3, <2>1, <2>2, <2>3, <2>5 DEF L_Answers, Expected, Begun
  <2> QED BY <1>3, <2>2, <2>3, <2>4, <2>6, <2>7, L_OneClient
<1>8. CASE K!Gauge(c)
  <2>1. /\ UNCHANGED <<b_peer, b_sent>>
        /\ \/ b_pc[c] = "start" /\ b_pc' = [b_pc EXCEPT ![c] = "count"]
           \/ b_pc[c] = "count" /\ b_pc' = [b_pc EXCEPT ![c] = "recv"]
           \/ b_pc[c] = "closed" /\ b_pc' = [b_pc EXCEPT ![c] = "finish"]
           \/ b_pc[c] = "finish" /\ b_pc' = [b_pc EXCEPT ![c] = "end"]
    BY <1>8 DEF K!Gauge, K!Goto, K!connVars
  <2>2. /\ \/ b_pc[c] \in {"start", "count"} /\ b_pc'[c] \in {"count", "recv"}
           \/ b_pc[c] \in {"closed", "finish"} /\ b_pc'[c] \in {"finish", "end"}
        /\ \A d \in Peers : d # c => Kept(d)
    BY <1>2, <1>3, <2>1 DEF Kept
  <2>3. L_TypeOK'
    BY <1>1, <1>2, <1>3, <2>1 DEF L_TypeOK, Threads
  <2>4. L_Buffer(c)'
    BY <1>1, <1>3, <2>1, <2>2 DEF L_Buffer
  <2>5. L_Answers(c)' /\ Begun(c)' = Begun(c)
    BY <1>1, <1>3, <2>1, <2>2 DEF L_Answers, Expected, Begun
  <2> QED BY <1>3, <2>1, <2>2, <2>3, <2>4, <2>5, L_OneClient
<1> QED BY <1>4, <1>5, <1>6, <1>7, <1>8

\* recv() adds to the end of the buffer.
LEMMA L_Recv == ASSUME L_Inv, NEW c \in Peers, K!Recv(c) PROVE L_Inv'
<1> DEFINE s == K!Input(c)
           u == Len(buf[c])
           a == b_got[c]
<1>1. L_TypeOK /\ L_Buffer(c) /\ L_Answers(c)
  BY DEF L_Inv
<1>2. /\ s \in Seq(Nat \X Nat) /\ Len(s) \in Nat /\ u \in Nat /\ a \in Nat /\ b_sent[c] \in Nat
      /\ buf[c] \in Seq(Nat \X Nat) /\ BUF \in Nat
      /\ buf \in [Peers -> Seq(Nat \X Nat)] /\ b_got \in [Peers -> Nat]
      /\ b_pc \in [Peers -> Threads \cup {"none", "start", "end"}]
  BY <1>1, InputIsText, BufConstants DEF L_TypeOK, IsText
<1>3. PICK n \in 1 .. K!Min({b_sent[c] - a, BUF - u}) :
          /\ buf' = [buf EXCEPT ![c] = @ \o SubSeq(s, a + 1, a + n)]
          /\ b_got' = [b_got EXCEPT ![c] = @ + n]
  BY DEF K!Recv
<1>4. /\ b_pc[c] = "recv" /\ b_peer[c] # "gone" /\ b_pc' = [b_pc EXCEPT ![c] = "lines"]
      /\ UNCHANGED <<b_peer, b_sent, answers, total>>
  BY DEF K!Recv, K!Goto
<1>5. /\ a <= b_sent[c] /\ b_sent[c] <= Len(s) /\ u <= a /\ u <= BUF
      /\ b_peer[c] = "shut" => b_sent[c] = Len(s)
      /\ \A i \in 1 .. u : buf[c][i] = s[Used(c) + i]
      /\ Used(c) = a - u
  BY <1>1 DEF L_Buffer, Used
<1> HIDE DEF s, u, a
<1>6. n \in Nat \ {0} /\ n <= b_sent[c] - a /\ n <= BUF - u
  <2> DEFINE x == b_sent[c] - a
             y == BUF - u
  <2>1. x \in Int /\ y \in Int
    BY <1>2
  <2> HIDE DEF x, y
  <2>2. \E z \in {x, y} : \A w \in {x, y} : z <= w
    <3>1. CASE x <= y
      BY <2>1, <3>1
    <3>2. CASE y <= x
      BY <2>1, <3>2
    <3> QED BY <2>1, <3>1, <3>2
  <2>3. K!Min({x, y}) \in {x, y} /\ K!Min({x, y}) <= x /\ K!Min({x, y}) <= y
    BY <2>2 DEF K!Min
  <2>4. n \in 1 .. K!Min({x, y})
    BY <1>3 DEF x, y
  <2> QED BY <2>1, <2>3, <2>4 DEF x, y
<1> DEFINE r == SubSeq(s, a + 1, a + n)
<1>7. r \in Seq(Nat \X Nat) /\ Len(r) = n /\ \A i \in 1 .. n : r[i] = s[a + i]
  <2>1. a + n <= Len(s)
    BY <1>2, <1>5, <1>6
  <2>2. s \in Seq(Nat \X Nat) /\ a \in Nat /\ n \in Nat \ {0}
    BY <1>2, <1>6
  <2> QED BY <2>1, <2>2, Stretch, Zenon
<1>8. buf'[c] = buf[c] \o r /\ b_got'[c] = a + n
  BY <1>2, <1>3 DEF a
<1> HIDE DEF r
<1>9. /\ buf'[c] \in Seq(Nat \X Nat) /\ Len(buf'[c]) = u + n
      /\ \A i \in 1 .. u + n : buf'[c][i] = IF i <= u THEN buf[c][i] ELSE r[i - u]
  <2> DEFINE z == buf[c]
  <2>1. z \in Seq(Nat \X Nat) /\ r \in Seq(Nat \X Nat) /\ Len(z) = u /\ Len(r) = n /\ buf'[c] = z \o r
    BY <1>2, <1>7, <1>8 DEF u
  <2> HIDE DEF z
  <2>2. /\ z \o r \in Seq(Nat \X Nat) /\ Len(z \o r) = Len(z) + Len(r)
        /\ \A i \in 1 .. Len(z) + Len(r) : (z \o r)[i] = IF i <= Len(z) THEN z[i] ELSE r[i - Len(z)]
    BY <2>1, ConcatProperties
  <2> QED BY <2>1, <2>2 DEF z
<1>10. Used(c)' = Used(c) /\ Ahead(c)' = Ahead(c) /\ LineOf(c)' = LineOf(c)
  <2>1. Used(c)' = Used(c)
    BY <1>2, <1>5, <1>6, <1>8, <1>9 DEF Used
  <2> QED BY <2>1 DEF Ahead, LineOf
<1>11. \A i \in 1 .. u + n : buf'[c][i] = s[Used(c) + i]
  <2> TAKE i \in 1 .. u + n
  <2>1. CASE i <= u
    BY <1>2, <1>5, <1>6, <1>9, <2>1
  <2>2. CASE ~(i <= u)
    <3>1. i - u \in 1 .. n /\ a + (i - u) = Used(c) + i
      BY <1>2, <1>5, <1>6, <2>2
    <3> QED BY <1>7, <1>9, <2>2, <3>1
  <2> QED BY <2>1, <2>2
<1>12. b_pc'[c] = "lines" /\ \A d \in Peers : d # c => Kept(d)
  BY <1>2, <1>3, <1>4 DEF Kept
<1>13. L_TypeOK'
  <2>1. buf' = [buf EXCEPT ![c] = buf'[c]] /\ b_got' = [b_got EXCEPT ![c] = a + n] /\ a + n \in Nat
    BY <1>2, <1>3, <1>6 DEF a
  <2>2. buf' \in [Peers -> Seq(Nat \X Nat)] /\ b_got' \in [Peers -> Nat]
    BY <1>2, <1>9, <2>1
  <2>3. b_pc' \in [Peers -> Threads \cup {"none", "start", "end"}]
    BY <1>2, <1>4 DEF Threads
  <2> QED BY <1>1, <1>4, <2>2, <2>3 DEF L_TypeOK
<1>14. L_Buffer(c)'
  <2>1. /\ b_got'[c] <= b_sent[c] /\ u + n <= b_got'[c] /\ u + n <= BUF
    <3>1. /\ u \in Nat /\ a \in Nat /\ b_sent[c] \in Nat /\ BUF \in Nat /\ n \in Nat
          /\ n <= b_sent[c] - a /\ n <= BUF - u /\ u <= a
      BY <1>2, <1>5, <1>6
    <3>2. a + n <= b_sent[c] /\ u + n <= a + n /\ u + n <= BUF
      BY <3>1
    <3> QED BY <1>8, <3>2
  <2>2. \A i \in 1 .. Len(buf'[c]) : buf'[c][i] = s[Used(c)' + i]
    BY <1>9, <1>10, <1>11
  <2>3. Used(c)' < Len(s) => Ahead(c)'[2] = 1 \/ Scripts[c][Ahead(c)'[1]].body >= BUF
    BY <1>1, <1>10 DEF L_Buffer, s
  <2> QED BY <1>4, <1>5, <1>9, <1>12, <2>1, <2>2, <2>3 DEF L_Buffer, s
<1>15. L_Answers(c)' /\ Begun(c)' = Begun(c)
  BY <1>1, <1>4, <1>10, <1>12 DEF L_Answers, Expected, Begun
<1> QED BY <1>4, <1>12, <1>13, <1>14, <1>15, L_OneClient

\* When all has been read and no newline is left, nothing is left.
LEMMA L_RecvEnd == ASSUME L_Inv, NEW c \in Peers, K!RecvEnd(c) PROVE L_Inv'
<1> DEFINE s == K!Input(c)
<1>1. L_TypeOK /\ L_Buffer(c) /\ L_Answers(c)
  BY DEF L_Inv
<1>2. PICK l \in {"closed", "end"} : b_pc' = [b_pc EXCEPT ![c] = l]
  BY DEF K!RecvEnd, K!Goto
<1>3. /\ b_pc[c] = "recv" /\ UNCHANGED <<b_peer, b_sent, b_got, buf, answers, total>>
      /\ b_peer[c] = "gone" \/ (b_peer[c] = "shut" /\ b_sent[c] = b_got[c])
  BY DEF K!RecvEnd, K!connVars
<1>4. b_pc'[c] = l /\ \A d \in Peers : d # c => Kept(d)
  BY <1>1, <1>2, <1>3 DEF Kept, L_TypeOK
<1>5. /\ Used(c)' = Used(c) /\ Ahead(c)' = Ahead(c) /\ LineOf(c)' = LineOf(c)
      /\ K!Newlines(c)' = K!Newlines(c) /\ K!TypeOf(c)' = K!TypeOf(c)
  BY <1>3 DEF Used, Ahead, LineOf, K!Newlines, K!TypeOf, K!Request, K!IsNewline
<1>6. L_TypeOK'
  BY <1>1, <1>2, <1>3 DEF L_TypeOK, Threads
<1>7. ASSUME b_peer[c] # "gone" PROVE Used(c) = Len(s)
  <2>1. /\ b_got[c] = Len(s) /\ K!Newlines(c) = {} /\ Len(buf[c]) <= b_got[c]
        /\ \A i \in 1 .. Len(buf[c]) : buf[c][i] = s[Used(c) + i]
    BY <1>1, <1>3, <1>7 DEF L_Buffer
  <2>2. Len(buf[c]) \in Nat /\ Len(s) \in Nat /\ Used(c) = Len(s) - Len(buf[c])
    BY <1>1, <2>1, InputIsText DEF L_TypeOK, IsText, Used
  <2>3. Len(buf[c]) = 0
    <3> SUFFICES ASSUME Len(buf[c]) # 0 PROVE FALSE
      OBVIOUS
    <3>1. /\ Len(buf[c]) \in 1 .. Len(buf[c]) /\ Used(c) + Len(buf[c]) = Len(s) /\ Len(s) > 0
      BY <2>1, <2>2
    <3>2. K!IsNewline(c, s[Len(s)])
      <4>1. IsText(c, Len(Scripts[c]), s)
        BY InputIsText
      <4> HIDE DEF s
      <4> QED BY <3>1, <4>1 DEF IsText
    <3>3. Len(buf[c]) \in K!Newlines(c)
      BY <2>1, <3>1, <3>2 DEF K!Newlines
    <3> QED BY <2>1, <3>3
  <2> QED BY <2>2, <2>3
<1>8. L_Buffer(c)'
  BY <1>1, <1>3, <1>4, <1>5 DEF L_Buffer
<1>9. L_Answers(c)' /\ Begun(c)' = Begun(c)
  BY <1>1, <1>3, <1>4, <1>5, <1>7 DEF L_Answers, Expected, Begun
<1> QED BY <1>3, <1>4, <1>6, <1>8, <1>9, L_OneClient

\* A full buffer without a newline is the middle of a line that is too long.
LEMMA L_NoLine == ASSUME L_Inv, NEW c \in Peers, K!NoLine(c) PROVE L_Inv'
<1> DEFINE s == K!Input(c)
           p == Used(c)
           k == s[p + 1][1]
           n == Len(Scripts[c])
<1>1. L_TypeOK /\ L_Buffer(c) /\ L_Answers(c)
  BY DEF L_Inv
<1>2. /\ b_pc[c] = "lines" /\ K!Newlines(c) = {} /\ b_pc' = [b_pc EXCEPT ![c] = "recv"]
      /\ UNCHANGED <<b_peer, b_sent, b_got, answers, total>>
      /\ buf' = [buf EXCEPT ![c] = IF Len(@) >= BUF THEN <<>> ELSE @]
  BY DEF K!NoLine, K!Goto, K!connVars
<1>3. /\ b_pc'[c] = "recv" /\ buf'[c] = IF Len(buf[c]) >= BUF THEN <<>> ELSE buf[c]
      /\ \A d \in Peers : d # c => Kept(d)
  BY <1>1, <1>2 DEF Kept, L_TypeOK
<1>4. /\ Len(buf[c]) \in Nat /\ b_got[c] \in Nat /\ b_sent[c] \in Nat /\ BUF \in Nat \ {0} /\ Len(s) \in Nat
      /\ n \in Nat
  BY <1>1, InputIsText, BufConstants, K_Script DEF L_TypeOK, IsText
<1>5. L_TypeOK'
  <2>1. <<>> \in Seq(Nat \X Nat)
    OBVIOUS
  <2> QED BY <1>1, <1>2, <2>1 DEF L_TypeOK, Threads
<1>6. Begun(c)' = Begun(c)
  BY <1>2, <1>3 DEF Begun
<1>7. CASE Len(buf[c]) < BUF
  <2>1. buf'[c] = buf[c]
    BY <1>3, <1>4, <1>7
  <2>2. /\ Used(c)' = Used(c) /\ Ahead(c)' = Ahead(c) /\ LineOf(c)' = LineOf(c)
        /\ K!Newlines(c)' = K!Newlines(c)
    BY <1>2, <2>1 DEF Used, Ahead, LineOf, K!Newlines, K!IsNewline
  <2>3. L_Buffer(c)'
    BY <1>1, <1>2, <1>3, <1>7, <2>1, <2>2 DEF L_Buffer
  <2>4. L_Answers(c)'
    BY <1>1, <1>2, <1>3, <2>2 DEF L_Answers, Expected
  <2> QED BY <1>2, <1>3, <1>5, <1>6, <2>3, <2>4, L_OneClient
<1>8. CASE ~(Len(buf[c]) < BUF)
  <2>1. /\ b_got[c] <= b_sent[c] /\ b_sent[c] <= Len(s) /\ Len(buf[c]) <= b_got[c] /\ Len(buf[c]) <= BUF
        /\ b_peer[c] = "shut" => b_sent[c] = Len(s)
        /\ \A i \in 1 .. Len(buf[c]) : buf[c][i] = s[p + i]
    BY <1>1 DEF L_Buffer
  <2>2. Len(buf[c]) = BUF /\ p \in Nat /\ b_got[c] = p + BUF /\ p + BUF <= Len(s)
    BY <1>4, <1>8, <2>1 DEF Used
  <2>3. buf'[c] = <<>> /\ Len(buf'[c]) = 0 /\ 1 .. Len(buf'[c]) = {}
    BY <1>3, <1>4, <2>2
  <2>4. Used(c)' = p + BUF /\ K!Newlines(c)' = {}
    <3>1. Used(c)' = b_got[c] - 0
      BY <1>2, <2>3 DEF Used
    <3>2. K!Newlines(c)' = {}
      BY <2>3 DEF K!Newlines
    <3> QED BY <1>4, <2>2, <3>1, <3>2
  <2> HIDE DEF s, p, n
  <2>5. \A i \in 1 .. BUF : ~K!IsNewline(c, s[p + i])
    <3> TAKE i \in 1 .. BUF
    <3>1. i \in 1 .. Len(buf[c]) /\ i \notin K!Newlines(c)
      BY <1>2, <2>2
    <3> QED BY <2>1, <3>1 DEF K!Newlines
  <2>6. s[p + BUF] = <<k, s[p + 1][2] + (BUF - 1)>>
    <3>1. \A i \in 1 .. BUF - 1 : i \in 1 .. BUF
      BY <1>4
    <3>2. \A i \in 1 .. BUF - 1 : ~K!IsNewline(c, K!Input(c)[p + i])
      BY <2>5, <3>1 DEF s
    <3>3. p + BUF <= Len(K!Input(c))
      BY <2>2 DEF s
    <3> QED BY <1>4, <2>2, <3>2, <3>3, SameLine DEF s
  <2>7. IsText(c, n, s)
    BY InputIsText DEF s, n
  <2>8. p + BUF \in 1 .. Len(s) /\ p + 1 \in 1 .. Len(s) /\ BUF \in 1 .. BUF
    BY <1>4, <2>2
  <2>9. /\ k \in 1 .. n /\ s[p + 1][2] \in Nat /\ s[p + 1][2] >= 1 /\ Scripts[c][k].body \in Nat
    <3>1. k \in 1 .. n /\ s[p + 1][2] \in 1 .. Scripts[c][k].body + 1
      BY <2>7, <2>8 DEF IsText
    <3>2. Scripts[c][k].body \in Nat
      BY <3>1, K_Script DEF n
    <3> QED BY <3>1, <3>2
  <2>10. s[p + BUF][1] = k /\ s[p + BUF][2] = s[p + 1][2] + (BUF - 1) /\ s[p + BUF][2] \in 1 .. Scripts[c][k].body + 1
    <3>1. s[p + BUF][1] = k /\ s[p + BUF][2] = s[p + 1][2] + (BUF - 1)
      BY <2>6
    <3> QED BY <2>7, <2>8, <3>1 DEF IsText
  <2>11. ~K!IsNewline(c, s[p + BUF])
    BY <2>5, <2>8
  <2>12. Scripts[c][k].body >= BUF
    <3>1. s[p + BUF][2] # Scripts[c][k].body + 1
      BY <2>10, <2>11 DEF K!IsNewline
    <3>2. \A x, y \in Nat : x >= 1 /\ x + (BUF - 1) \in 1 .. y + 1 /\ x + (BUF - 1) # y + 1 => y >= BUF
      BY <1>4
    <3> QED BY <2>9, <2>10, <3>1, <3>2
  <2>13. p + BUF # Len(s)
    <3>1. n # 0
      BY <1>4, <2>9
    <3> QED BY <2>7, <2>11, <3>1 DEF IsText
  <2>14. p + BUF < Len(s) /\ p + BUF \in 1 .. Len(s) - 1 /\ p < Len(s)
    BY <1>4, <2>2, <2>8, <2>13
  <2>15. s[(p + BUF) + 1] = <<k, s[p + BUF][2] + 1>>
    <3>1. Follows(c, s[p + BUF], s[(p + BUF) + 1])
      BY <2>7, <2>14 DEF IsText
    <3> QED BY <2>10, <2>11, <3>1 DEF Follows
  <2>16. Ahead(c)'[1] = k /\ LineOf(c)' = k /\ LineOf(c) = k
    <3>1. Ahead(c)' = s[(p + BUF) + 1]
      BY <2>4 DEF Ahead, s
    <3>2. Ahead(c)'[1] = k
      BY <2>15, <3>1
    <3>3. LineOf(c)' = k
      BY <2>4, <2>14, <3>2 DEF LineOf, s
    <3>4. LineOf(c) = k
      BY <2>14 DEF LineOf, Ahead, s, p
    <3> QED BY <3>2, <3>3, <3>4
  <2>17. L_Buffer(c)'
    <3>1. Len(buf'[c]) <= b_got[c] /\ Len(buf'[c]) <= BUF /\ Len(buf'[c]) < BUF
      BY <1>4, <2>3
    <3>2. \A i \in 1 .. Len(buf'[c]) : buf'[c][i] = K!Input(c)[Used(c)' + i]
      BY <2>3
    <3>3. Scripts[c][Ahead(c)'[1]].body >= BUF
      BY <2>12, <2>16
    <3> QED BY <1>2, <1>3, <2>1, <2>4, <3>1, <3>2, <3>3 DEF L_Buffer, s
  <2>18. L_Answers(c)'
    BY <1>1, <1>2, <1>3, <2>16 DEF L_Answers, Expected
  <2> QED BY <1>2, <1>3, <1>5, <1>6, <2>17, <2>18, L_OneClient
<1> QED BY <1>7, <1>8

LEMMA L_ShiftType ==
    ASSUME L_TypeOK, NEW c \in Peers, K!Newlines(c) # {}, L_Buffer(c),
           UNCHANGED <<b_peer, b_sent, b_got>>,
           b_pc' \in [Peers -> Threads \cup {"none", "start", "end"}],
           total' \in [K!Types -> Int],
           NEW k \in Nat, NEW y \in K!Types,
           answers' = [answers EXCEPT ![c] = IF b_peer[c] = "gone" THEN @ ELSE Append(@, <<k, y>>)],
           buf' = [buf EXCEPT ![c] = SubSeq(@, Newline(c) + 1, Len(@))]
    PROVE  L_TypeOK'
<1>1. SubSeq(buf[c], Newline(c) + 1, Len(buf[c])) \in Seq(Nat \X Nat)
  <2> DEFINE m == Newline(c)
  <2>1. m \in 1 .. Len(buf[c])
    BY L_OneLine, Zenon
  <2>2. buf[c] \in Seq(Nat \X Nat)
    BY DEF L_TypeOK
  <2> HIDE DEF m
  <2>3. SubSeq(buf[c], m + 1, Len(buf[c])) \in Seq(Nat \X Nat)
    BY <2>1, <2>2, CutFront, Zenon
  <2> QED BY <2>3 DEF m
<1>2. buf' \in [Peers -> Seq(Nat \X Nat)]
  BY <1>1 DEF L_TypeOK
<1>3. answers' \in [Peers -> Seq(Nat \X K!Types)]
  <2>1. answers[c] \in Seq(Nat \X K!Types) /\ <<k, y>> \in Nat \X K!Types
    BY DEF L_TypeOK
  <2>2. Append(answers[c], <<k, y>>) \in Seq(Nat \X K!Types)
    BY <2>1
  <2> QED BY <2>2 DEF L_TypeOK
<1> QED BY <1>2, <1>3 DEF L_TypeOK

LEMMA L_Command == ASSUME L_Inv, NEW c \in Peers, K!Command(c) PROVE L_Inv'
<1> DEFINE y == K!TypeOf(c)
           k == K!Request(c)
<1>1. L_TypeOK /\ L_Buffer(c) /\ L_Answers(c)
  BY DEF L_Inv
<1>2. /\ b_pc[c] = "lines" /\ K!Newlines(c) # {} /\ total' = [total EXCEPT ![y] = @ + 1]
      /\ UNCHANGED <<b_peer, b_sent, b_got>>
  BY DEF K!Command, K!connVars
<1>3. y \in K!Types /\ k \in Nat
  <2>1. y \in K!Types /\ k = LineOf(c) /\ LineOf(c) \in 1 .. Len(Scripts[c])
    BY <1>1, <1>2, L_OneLine
  <2> QED BY <2>1, K_Script
<1>4. total' \in [K!Types -> Int]
  BY <1>1, <1>2, <1>3 DEF L_TypeOK
<1>5. CASE y = "STREAM"
  <2>1. b_pc' = [b_pc EXCEPT ![c] = "stream"] /\ UNCHANGED <<buf, answers>>
    BY <1>5 DEF K!Command, K!Goto
  <2>2. b_pc'[c] = "stream" /\ \A d \in Peers : d # c => Kept(d)
    BY <1>1, <1>2, <2>1 DEF Kept, L_TypeOK
  <2>3. L_TypeOK'
    BY <1>1, <1>2, <1>4, <2>1 DEF L_TypeOK, Threads
  <2>4. /\ Used(c)' = Used(c) /\ Ahead(c)' = Ahead(c) /\ LineOf(c)' = LineOf(c)
        /\ K!Newlines(c)' = K!Newlines(c) /\ K!TypeOf(c)' = K!TypeOf(c)
    BY <1>2, <2>1 DEF Used, Ahead, LineOf, K!Newlines, K!TypeOf, K!Request, K!IsNewline
  <2>5. L_Buffer(c)'
    BY <1>1, <1>2, <1>5, <2>1, <2>2, <2>4 DEF L_Buffer
  <2>6. L_Answers(c)'
    BY <1>1, <1>2, <2>1, <2>2, <2>4 DEF L_Answers, Expected
  <2>7. Begun(c)' = Begun(c) + 1
    <3>1. Begun(c)' = Len(answers[c]) + 1 /\ Begun(c) = Len(answers[c]) + 0 /\ Len(answers[c]) \in Nat
      BY <1>1, <1>2, <2>1, <2>2 DEF Begun, L_TypeOK
    <3> QED BY <3>1
  <2> QED BY <1>2, <1>3, <2>2, <2>3, <2>5, <2>6, <2>7, L_OneClient
<1>6. CASE y # "STREAM"
  <2>1. /\ answers' = [answers EXCEPT ![c] = IF b_peer[c] = "gone" THEN @ ELSE Append(@, <<k, y>>)]
        /\ buf' = [buf EXCEPT ![c] = SubSeq(@, Newline(c) + 1, Len(@))]
        /\ b_pc' = b_pc
    BY <1>6 DEF K!Command, K!Answered, K!Shift, Newline
  <2>2. /\ answers'[c] = (IF b_peer[c] = "gone" THEN answers[c] ELSE Append(answers[c], <<k, y>>))
        /\ buf'[c] = SubSeq(buf[c], Newline(c) + 1, Len(buf[c]))
        /\ b_pc'[c] = "lines" /\ \A d \in Peers : d # c => Kept(d)
    BY <1>1, <1>2, <2>1 DEF Kept, L_TypeOK
  <2>3. L_TypeOK'
    <3>1. b_pc' \in [Peers -> Threads \cup {"none", "start", "end"}]
      BY <1>1, <2>1 DEF L_TypeOK
    <3> QED BY <1>1, <1>2, <1>3, <1>4, <2>1, <3>1, L_ShiftType
  <2>4. L_Buffer(c)' /\ L_Answers(c)'
    BY <1>1, <1>2, <2>2, <2>3, L_Shift
  <2>5. b_peer[c] # "gone" => Begun(c)' = Begun(c) + 1
    <3> SUFFICES ASSUME b_peer[c] # "gone" PROVE Begun(c)' = Begun(c) + 1
      OBVIOUS
    <3>1. answers[c] \in Seq(Nat \X K!Types) /\ <<k, y>> \in Nat \X K!Types
      BY <1>1, <1>3 DEF L_TypeOK
    <3>2. Len(answers'[c]) = Len(answers[c]) + 1
      BY <2>2, <3>1
    <3> QED BY <1>2, <2>2, <3>1, <3>2 DEF Begun
  <2> QED BY <1>2, <1>3, <2>2, <2>3, <2>4, <2>5, L_OneClient
<1> QED BY <1>5, <1>6

LEMMA L_Stream == ASSUME L_Inv, NEW c \in Peers, K!Stream(c) PROVE L_Inv'
<1> DEFINE y == K!TypeOf(c)
           k == K!Request(c)
<1>1. L_TypeOK /\ L_Buffer(c) /\ L_Answers(c)
  BY DEF L_Inv
<1>2. /\ b_pc[c] = "stream" /\ UNCHANGED <<b_peer, b_sent, b_got, total>>
  BY DEF K!Stream, K!connVars
<1>3. CASE b_left[c] > 0 /\ b_peer[c] # "gone"
  <2>1. UNCHANGED <<b_pc, buf, answers>>
    BY <1>3 DEF K!Stream
  <2>2. \A d \in Peers : Kept(d)
    BY <1>2, <2>1 DEF Kept
  <2>3. L_TypeOK'
    BY <1>1, <1>2, <2>1 DEF L_TypeOK
  <2>4. L_Buffer(c)' /\ L_Answers(c)' /\ Begun(c)' = Begun(c)
    BY <1>1, <2>2, L_Kept
  <2> QED BY <1>2, <2>2, <2>3, <2>4, L_OneClient
<1>4. CASE ~(b_left[c] > 0 /\ b_peer[c] # "gone")
  <2>1. /\ buf' = [buf EXCEPT ![c] = SubSeq(@, Newline(c) + 1, Len(@))]
        /\ b_pc' = [b_pc EXCEPT ![c] = "lines"]
        /\ IF b_left[c] > 0 THEN UNCHANGED answers ELSE K!Answered(c)
    BY <1>4 DEF K!Stream, K!Shift, K!Goto, Newline
  <2>2. answers' = [answers EXCEPT ![c] = IF b_peer[c] = "gone" THEN @ ELSE Append(@, <<k, y>>)]
    <3>1. CASE b_left[c] > 0
      <4>1. b_peer[c] = "gone" /\ answers' = answers /\ answers \in [Peers -> Seq(Nat \X K!Types)]
        BY <1>1, <1>4, <2>1, <3>1 DEF L_TypeOK
      <4> QED BY <4>1
    <3>2. CASE ~(b_left[c] > 0)
      BY <2>1, <3>2 DEF K!Answered
    <3> QED BY <3>1, <3>2
  <2>3. /\ answers'[c] = (IF b_peer[c] = "gone" THEN answers[c] ELSE Append(answers[c], <<k, y>>))
        /\ buf'[c] = SubSeq(buf[c], Newline(c) + 1, Len(buf[c]))
        /\ b_pc'[c] = "lines" /\ \A d \in Peers : d # c => Kept(d)
    BY <1>1, <1>2, <2>1, <2>2 DEF Kept, L_TypeOK
  <2>4. K!Newlines(c) # {}
    BY <1>1, <1>2 DEF L_Buffer
  <2>5. y \in K!Types /\ k \in Nat
    <3>1. y \in K!Types /\ k = LineOf(c) /\ LineOf(c) \in 1 .. Len(Scripts[c])
      BY <1>1, <2>4, L_OneLine
    <3> QED BY <3>1, K_Script
  <2>6. L_TypeOK'
    <3>1. total' \in [K!Types -> Int]
      BY <1>1, <1>2 DEF L_TypeOK
    <3>2. b_pc' \in [Peers -> Threads \cup {"none", "start", "end"}]
      BY <1>1, <2>1 DEF L_TypeOK, Threads
    <3> QED BY <1>1, <1>2, <2>1, <2>2, <2>4, <2>5, <3>1, <3>2, L_ShiftType
  <2>7. L_Buffer(c)' /\ L_Answers(c)'
    BY <1>1, <1>2, <2>3, <2>4, <2>6, L_Shift
  <2>8. b_peer[c] # "gone" => Begun(c)' = Begun(c)
    <3> SUFFICES ASSUME b_peer[c] # "gone" PROVE Begun(c)' = Begun(c)
      OBVIOUS
    <3>1. answers[c] \in Seq(Nat \X K!Types) /\ <<k, y>> \in Nat \X K!Types
      BY <1>1, <2>5 DEF L_TypeOK
    <3>2. Len(answers'[c]) = Len(answers[c]) + 1
      BY <2>3, <3>1
    <3> QED BY <1>2, <2>3, <3>1, <3>2 DEF Begun
  <2> QED BY <1>2, <2>3, <2>6, <2>7, <2>8, L_OneClient
<1> QED BY <1>3, <1>4

LEMMA L_InvInit == K!Init => L_Inv
<1> SUFFICES ASSUME K!Init PROVE L_Inv
  OBVIOUS
<1>1. /\ b_peer = [c \in Peers |-> "new"] /\ b_sent = [c \in Peers |-> 0] /\ b_got = [c \in Peers |-> 0]
      /\ b_pc = [c \in Peers |-> "none"] /\ buf = [c \in Peers |-> <<>>]
      /\ answers = [c \in Peers |-> <<>>] /\ total = [y \in K!Types |-> 0]
  BY DEF K!Init
<1>2. L_TypeOK
  BY <1>1 DEF L_TypeOK
<1>3. ASSUME NEW c \in Peers PROVE L_Buffer(c) /\ L_Answers(c) /\ Begun(c) = 0
  <2> DEFINE s == K!Input(c)
             n == Len(Scripts[c])
  <2>1. /\ b_peer[c] = "new" /\ b_sent[c] = 0 /\ b_got[c] = 0 /\ b_pc[c] = "none"
        /\ buf[c] = <<>> /\ answers[c] = <<>>
    BY <1>1
  <2>2. Len(buf[c]) = 0 /\ Len(answers[c]) = 0 /\ 1 .. Len(buf[c]) = {} /\ 1 .. Len(answers[c]) = {}
    BY <2>1
  <2>3. Used(c) = 0 /\ K!Newlines(c) = {}
    <3>1. Used(c) = 0 - 0
      BY <2>1, <2>2 DEF Used
    <3>2. K!Newlines(c) = {}
      BY <2>2 DEF K!Newlines
    <3> QED BY <3>1, <3>2
  <2>4. IsText(c, n, s) /\ n \in Nat
    BY InputIsText, K_Script
  <2> HIDE DEF s, n
  <2>5. Len(s) \in Nat /\ (n # 0 => Len(s) > 0 /\ s[1] = <<1, 1>>) /\ (n = 0 => Len(s) = 0)
    BY <2>4 DEF IsText
  <2>6. 0 < Len(s) => s[0 + 1] = <<1, 1>>
    BY <2>4, <2>5
  <2>7. LineOf(c) = 1
    <3>1. CASE 0 < Len(s)
      BY <2>3, <2>6, <3>1 DEF LineOf, Ahead, s
    <3>2. CASE ~(0 < Len(s))
      <4>1. n = 0
        BY <2>4, <2>5, <3>2
      <4> QED BY <2>3, <3>2, <4>1 DEF LineOf, s, n
    <3> QED BY <3>1, <3>2
  <2>8. L_Buffer(c)
    <3>1. 0 < Len(s) => Ahead(c)[2] = 1
      BY <2>3, <2>6 DEF Ahead, s
    <3>2. 0 <= Len(s)
      BY <2>5
    <3> QED BY <2>1, <2>2, <2>3, <3>1, <3>2, BufConstants DEF L_Buffer, s
  <2>9. L_Answers(c)
    <3>1. 0 <= Len(Scripts[c])
      BY <2>4 DEF n
    <3> QED BY <2>1, <2>2, <2>7, <3>1 DEF L_Answers
  <2> QED BY <2>1, <2>2, <2>8, <2>9 DEF Begun
<1>4. L_Counters
  <2> DEFINE f == [c \in Peers |-> Begun(c)]
  <2>1. \A c \in Peers : f[c] = 0
    BY <1>3
  <2>2. \A y \in K!Types : total[y] = 0
    BY <1>1
  <2> HIDE DEF f
  <2>3. SumFunctionOnSet(f, Peers) = 0 * Cardinality(Peers)
    BY <2>1, PeersFinite, SumOfEqual
  <2>4. SumFunctionOnSet(total, K!Types) = 0 * Cardinality(K!Types)
    BY <2>2, BufConstants, SumOfEqual
  <2>5. Cardinality(Peers) \in Nat /\ Cardinality(K!Types) \in Nat
    BY PeersFinite, BufConstants, FS_CardinalityType
  <2>6. SumFunctionOnSet(total, K!Types) = SumFunctionOnSet(f, Peers)
    BY <2>3, <2>4, <2>5
  <2> QED BY <2>6 DEF L_Counters, f
<1> QED BY <1>2, <1>3, <1>4 DEF L_Inv

LEMMA L_InvStep == K_Inv /\ L_Inv /\ [K!Next]_(K!vars) => L_Inv'
<1> SUFFICES ASSUME K_Inv, L_Inv, [K!Next]_(K!vars) PROVE L_Inv'
  OBVIOUS
<1>1. ASSUME NEW c \in Peers, K!Connect(c) \/ K!Send(c) \/ K!Reset(c) \/ K!ServerStep(c) PROVE L_Inv'
  <2>1. CASE K!Connect(c) \/ K!Send(c) \/ K!Reset(c) \/ K!Accept \/ K!Gauge(c)
    BY <2>1, L_Moves
  <2>2. CASE K!Recv(c) \/ K!RecvEnd(c) \/ K!Command(c) \/ K!Stream(c) \/ K!NoLine(c)
    BY <2>2, L_Recv, L_RecvEnd, L_Command, L_Stream, L_NoLine
  <2> QED BY <1>1, <2>1, <2>2 DEF K!ServerStep, K!Handler
<1>2. CASE UNCHANGED K!vars
  <2>1. UNCHANGED <<b_peer, b_sent, b_got, b_pc, buf, answers, total>>
    BY <1>2 DEF K!vars, K!connVars
  <2>2. \A d \in Peers : Kept(d)
    BY <2>1 DEF Kept
  <2>3. \A d \in Peers : L_Buffer(d)' /\ L_Answers(d)' /\ Begun(d)' = Begun(d)
    BY <2>2, L_Kept DEF L_Inv
  <2>4. L_TypeOK'
    BY <2>1 DEF L_Inv, L_TypeOK
  <2>5. [d \in Peers |-> Begun(d)'] = [d \in Peers |-> Begun(d)]
    BY <2>3
  <2>6. L_Counters'
    BY <2>1, <2>5 DEF L_Inv, L_Counters
  <2> QED BY <2>3, <2>4, <2>6 DEF L_Inv
<1> QED BY <1>1, <1>2 DEF K!Next

LEMMA L_Correct == L_Inv => EveryLineAnswered
<1> SUFFICES ASSUME L_Inv PROVE K!EveryLineAnswered
  BY DEF EveryLineAnswered
<1>1. ASSUME NEW c \in Peers
      PROVE  K!IsPrefix(answers[c], [k \in 1 .. Len(Scripts[c]) |-> Expected(c, k)])
  <2> DEFINE e == [k \in 1 .. Len(Scripts[c]) |-> Expected(c, k)]
             a == answers[c]
             n == Len(Scripts[c])
             m == Len(a)
  <2>1. /\ n \in Nat /\ a \in Seq(Nat \X K!Types) /\ m \in Nat /\ m <= n
        /\ \A i \in 1 .. m : a[i] = Expected(c, i)
    BY K_Script DEF L_Inv, L_TypeOK, L_Answers
  <2>2. \A k \in 1 .. n : Expected(c, k) \in Nat \X (K!Types \cup {"unknown"})
    BY K_Script DEF Expected
  <2>3. e \in Seq(Nat \X (K!Types \cup {"unknown"})) /\ Len(e) = n
    BY <2>1, <2>2
  <2>4. \A i \in 1 .. m : i \in 1 .. n /\ e[i] = a[i]
    BY <2>1
  <2> HIDE DEF e, a, n, m
  <2>5. SubSeq(a, 1, m) = a /\ Len(a) = m
    BY <2>1 DEF m
  <2>6. SubSeq(e, 1, m) = [i \in 1 .. m |-> e[i]]
    <3>1. 1 <= m + 1 /\ m <= Len(e) /\ m \in Nat
      BY <2>1, <2>3
    <3>2. /\ SubSeq(e, 1, m) \in Seq(Nat \X (K!Types \cup {"unknown"})) /\ Len(SubSeq(e, 1, m)) = m
          /\ \A i \in 1 .. m : SubSeq(e, 1, m)[i] = e[i]
      BY <2>3, <3>1
    <3> QED BY <3>2
  <2>7. a = [i \in 1 .. m |-> e[i]]
    BY <2>1, <2>4, <2>5
  <2>8. K!IsPrefix(a, e)
    BY <2>1, <2>3, <2>5, <2>6, <2>7 DEF K!IsPrefix
  <2> QED BY <2>8 DEF a, e
<1>2. ASSUME NEW c \in Peers, b_pc[c] \in {"closed", "finish", "end"}, b_peer[c] # "gone"
      PROVE  Len(answers[c]) = Len(Scripts[c])
  <2>1. /\ Used(c) = Len(K!Input(c)) /\ Len(answers[c]) = LineOf(c) - 1
        /\ Len(K!Input(c)) \in Nat /\ Len(Scripts[c]) \in Nat
    BY <1>2, K_Script, InputIsText DEF L_Inv, L_Answers, IsText
  <2> QED BY <2>1 DEF LineOf
<1>3. ASSUME \A c \in Peers : b_pc[c] # "stream" /\ b_peer[c] # "gone"
      PROVE  K!SumFunction(total) = K!SumFunction([c \in Peers |-> Len(answers[c])])
  <2>1. SumFunctionOnSet(total, K!Types) = SumFunctionOnSet([c \in Peers |-> Begun(c)], Peers)
    BY <1>3 DEF L_Inv, L_Counters
  <2>2. \A c \in Peers : Begun(c) = Len(answers[c])
    BY <1>3 DEF Begun, L_Inv, L_TypeOK
  <2>3. [c \in Peers |-> Begun(c)] = [c \in Peers |-> Len(answers[c])]
    BY <2>2
  <2>4. \A f : K!SumFunction(f) = SumFunctionOnSet(f, DOMAIN f)
    BY Zenon DEF K!SumFunction, K!SumFunctionOnSet, K!FoldFunctionOnSet, K!MapThenFoldSet,
                 SumFunctionOnSet, FoldFunctionOnSet, MapThenFoldSet
  <2>5. DOMAIN total = K!Types
    BY DEF L_Inv, L_TypeOK
  <2>6. DOMAIN [c \in Peers |-> Len(answers[c])] = Peers
    OBVIOUS
  <2> QED BY <2>1, <2>3, <2>4, <2>5, <2>6
<1> QED BY <1>1, <1>2, <1>3 DEF K!EveryLineAnswered, Expected

\* Both blocking servers answer every line once, in order and as what it is,
\* however it was cut up by recv(), the line that overflows the buffer as an
\* unknown one; and count it (dumb_common.c:101-182), for any clients, requests and
\* buffer size.
THEOREM LinesAnswered == K!Spec => []EveryLineAnswered
BY K_InvInit, K_InvStep, L_InvInit, L_InvStep, L_Correct, PTL DEF K!Spec

-----------------------------------------------------------------------------
(* epoll_chat.c and select_chat.c *)

Cells == {k \in 1 .. Len(table) : table[k] # H!NoFd}

H_TypeOK ==
    /\ polling \in {"epoll", "select"}
    /\ conn \in [Users -> {"new", "queued", "open", "closed"}]
    /\ h_fd \in [Users -> Int] /\ table \in Seq(Int)

\* An open connection has a descriptor of its own.
H_Numbers ==
    /\ \A u \in H!Open : h_fd[u] \in H!Fds
    /\ \A u, v \in H!Open : h_fd[u] = h_fd[v] => u = v

\* The table, or the set, holds just these descriptors, each of them once.
H_Known ==
    /\ polling = "epoll" =>
          /\ \A u \in H!Open : \E k \in 1 .. Len(table) : table[k] = h_fd[u]
          /\ \A k \in Cells : \E u \in H!Open : h_fd[u] = table[k]
          /\ \A j, k \in Cells : table[j] = table[k] => j = k
    /\ polling = "select" => /\ master_set = {h_fd[u] : u \in H!Open}
                             /\ Cells = {}

\* A reported event is that of a user who is still there.
H_Events == \A d \in DOMAIN events : d # Listener => events[d] \in H!Open /\ h_fd[events[d]] = d

H_Inv == H_TypeOK /\ H_Numbers /\ H_Known /\ H_Events

LEMMA H_Facts ==
    /\ IsFiniteSet(Users) /\ Listener \in Int /\ Listener < 0 /\ H!NoFd = -1
    /\ \A d \in H!Fds : d \in Nat /\ d # Listener /\ d # H!NoFd
<1>1. IsFiniteSet(Users)
  BY ServersAssumption DEF H!ChatConstants, H!IsFiniteSet, IsFiniteSet
<1>2. Listener \in Int /\ Listener < 0 /\ H!NoFd = -1
  BY ServersAssumption DEF H!ChatConstants, H!NoFd
<1>3. H!Cardinality(Users) \in Nat
  BY <1>1, FS_CardinalityType DEF H!Cardinality, Cardinality
<1>4. \A d \in H!Fds : d \in Nat
  BY <1>3 DEF H!Fds
<1> QED BY <1>1, <1>2, <1>4

LEMMA H_Least == ASSUME NEW S \in SUBSET Nat, S # {} PROVE H!Min(S) \in S
<1>1. Min(S) \in S
  BY LeastFd
<1> QED BY <1>1 DEF H!Min, Min

\* While somebody is in the listen queue, accept() finds a number.
LEMMA H_FreeNumber ==
    ASSUME H_Inv, NEW c \in Users, conn[c] = "queued"
    PROVE  H!Min(H!Fds \ {h_fd[u] : u \in H!Open}) \in H!Fds \ {h_fd[u] : u \in H!Open}
<1> DEFINE used == {h_fd[u] : u \in H!Open}
           n == Cardinality(Users)
<1>1. H!Open \subseteq Users \ {c}
  BY DEF H!Open
<1>2. IsFiniteSet(Users) /\ n \in Nat
  BY H_Facts, FS_CardinalityType
<1>3. IsFiniteSet(Users \ {c}) /\ Cardinality(Users \ {c}) = n - 1
  BY <1>2, FS_RemoveElement
<1>4. IsFiniteSet(H!Open) /\ Cardinality(H!Open) <= n - 1 /\ Cardinality(H!Open) \in Nat
  BY <1>1, <1>3, FS_Subset, FS_CardinalityType
<1>5. IsFiniteSet(used) /\ Cardinality(used) <= Cardinality(H!Open) /\ Cardinality(used) \in Nat
  <2>1. IsFiniteSet(used) /\ Cardinality(used) <= Cardinality(H!Open)
    <3>1. [u \in H!Open |-> h_fd[u]] \in Surjection(H!Open, used)
      BY DEF Surjection
    <3> QED BY <1>4, <3>1, FS_Surjection
  <2> QED BY <2>1, FS_CardinalityType
<1>6. H!Fds = 0 .. n - 1
  BY DEF H!Fds, H!Cardinality, Cardinality
<1>7. Cardinality(H!Fds) = n
  BY <1>2, <1>6, FS_Interval
<1> HIDE DEF used
<1>8. H!Fds \ used # {}
  <2> SUFFICES ASSUME H!Fds \subseteq used PROVE FALSE
    OBVIOUS
  <2>1. Cardinality(H!Fds) <= Cardinality(used)
    BY <1>5, FS_Subset
  <2> QED BY <1>2, <1>4, <1>5, <1>7, <2>1
<1>9. H!Fds \ used \in SUBSET Nat
  BY H_Facts
<1> QED BY <1>8, <1>9, H_Least DEF used

LEMMA H_InvInit == H!Init => H_Inv
<1> SUFFICES ASSUME H!Init PROVE H_Inv
  OBVIOUS
<1>1. table = <<H!NoFd>> /\ H!NoFd = -1
  BY DEF H!Init, H!NoFd
<1>2. H!Open = {}
  BY DEF H!Init, H!Open
<1>3. Cells = {}
  BY <1>1 DEF Cells
<1>4. H_TypeOK
  BY <1>1 DEF H!Init, H_TypeOK
<1>5. H_Known
  BY <1>2, <1>3 DEF H!Init, H_Known
<1>6. DOMAIN events = {}
  BY DEF H!Init
<1> QED BY <1>2, <1>4, <1>5, <1>6 DEF H_Inv, H_Numbers, H_Events

\* What users do, a broadcast and an idle server's poll change no connection.
LEMMA H_QuietSteps ==
    ASSUME H_Inv, UNCHANGED <<polling, conn, h_fd, table, master_set>>, H_Events'
    PROVE  H_Inv'
<1>1. H!Open' = H!Open /\ Cells' = Cells
  BY DEF H!Open, Cells
<1> QED BY <1>1 DEF H_Inv, H_TypeOK, H_Numbers, H_Known

LEMMA H_UserOf ==
    ASSUME H_Inv, NEW c \in H!Open
    PROVE  H!UserOf(h_fd[c]) = c
BY DEF H_Inv, H_Numbers, H!UserOf

LEMMA H_Polls == ASSUME H_Inv, H!Poll PROVE H_Inv'
<1>1. PICK ds \in SUBSET H!Reported :
         /\ UNCHANGED <<polling, conn, h_fd, table, master_set>>
         /\ events' = [d \in ds |-> IF d = Listener THEN Listener ELSE H!UserOf(d)]
  BY DEF H!Poll, H!serverVars, H!Batches, H!kSubset
<1>2. H!Open' = H!Open
  BY <1>1 DEF H!Open
<1>3. ASSUME NEW d \in H!Reported, d # Listener
      PROVE  H!UserOf(d) \in H!Open /\ h_fd[H!UserOf(d)] = d
  <2>1. PICK c \in Users : H!Ready(c) /\ h_fd[c] = d
    BY <1>3 DEF H!Reported
  <2>2. c \in H!Open
    BY <2>1 DEF H!Ready, H!Open
  <2> QED BY <2>1, <2>2, H_UserOf
<1>4. H_Events'
  BY <1>1, <1>2, <1>3 DEF H_Events
<1> QED BY <1>1, <1>4, H_QuietSteps

LEMMA H_Adds ==
    ASSUME H_Inv, NEW d \in Nat, H!add_client(d), \A k \in Cells : table[k] # d
    PROVE  /\ table' \in Seq(Int)
           /\ \A k \in Cells' : (k \in Cells /\ table'[k] = table[k]) \/ table'[k] = d
           /\ \A k \in Cells : k \in Cells' /\ table'[k] = table[k]
           /\ \A j, k \in Cells' : table'[j] = d /\ table'[k] = d => j = k
           /\ \E k \in Cells' : table'[k] = d
<1> DEFINE free == {k \in 1 .. Len(table) : table[k] = H!NoFd}
           cap == Len(table) + 1
<1>1. table \in Seq(Int) /\ Len(table) \in Nat /\ d # H!NoFd /\ H!NoFd \in Int
  BY H_Facts DEF H_Inv, H_TypeOK
<1>2. table' = IF free # {} THEN [table EXCEPT ![H!Min(free)] = d]
               ELSE table \o [k \in 1 .. cap |-> IF k = 1 THEN d ELSE H!NoFd]
  BY DEF H!add_client
<1>3. CASE free # {}
  <2>1. PICK m : m = H!Min(free)
    OBVIOUS
  <2>2. m \in 1 .. Len(table) /\ table[m] = H!NoFd
    <3>1. free \in SUBSET Nat
      BY <1>1
    <3>2. m \in free
      BY <1>3, <2>1, <3>1, H_Least
    <3> QED BY <3>2
  <2>3. table' = [table EXCEPT ![m] = d]
    BY <1>2, <1>3, <2>1
  <2>4. /\ table' \in Seq(Int) /\ Len(table') = Len(table) /\ table'[m] = d
        /\ \A k \in 1 .. Len(table) : k # m => table'[k] = table[k]
    BY <1>1, <2>2, <2>3
  <2>5. m \notin Cells /\ Cells' = Cells \cup {m}
    BY <1>1, <2>2, <2>4 DEF Cells, H!NoFd
  <2>6. \A k \in Cells : k # m /\ k \in 1 .. Len(table)
    BY <2>5 DEF Cells
  <2> QED BY <1>1, <2>4, <2>5, <2>6
<1>4. CASE free = {}
  <2> DEFINE more == [k \in 1 .. cap |-> IF k = 1 THEN d ELSE H!NoFd]
  <2>1. /\ more \in Seq(Int) /\ Len(more) = cap /\ more[1] = d
        /\ \A k \in 2 .. cap : more[k] = H!NoFd
    BY <1>1
  <2>2. table' = table \o more
    BY <1>2, <1>4
  <2> HIDE DEF more
  <2>3. /\ table' \in Seq(Int) /\ Len(table') = Len(table) + cap
        /\ \A k \in 1 .. Len(table) + cap :
              table'[k] = IF k <= Len(table) THEN table[k] ELSE more[k - Len(table)]
    <3>1. table \in Seq(Int) /\ more \in Seq(Int)
      BY <1>1, <2>1
    <3>2. /\ table \o more \in Seq(Int) /\ Len(table \o more) = Len(table) + Len(more)
          /\ \A k \in 1 .. Len(table) + Len(more) :
                (table \o more)[k] = IF k <= Len(table) THEN table[k] ELSE more[k - Len(table)]
      BY <3>1, ConcatProperties
    <3> QED BY <2>1, <2>2, <3>2
  <2>4. \A k \in 1 .. Len(table) : k \in 1 .. Len(table') /\ table'[k] = table[k] /\ table[k] # H!NoFd
    <3>1. \A k \in 1 .. Len(table) : k \in 1 .. Len(table) + cap /\ k <= Len(table)
      BY <1>1
    <3> QED BY <1>4, <2>3, <3>1
  <2>5. cap \in 1 .. Len(table') /\ table'[cap] = d
    <3>1. cap \in 1 .. Len(table) + cap /\ ~(cap <= Len(table)) /\ cap - Len(table) = 1
      BY <1>1
    <3> QED BY <2>1, <2>3, <3>1
  <2>6. ASSUME NEW k \in 1 .. Len(table'), k \notin 1 .. Len(table), k # cap PROVE table'[k] = H!NoFd
    <3>1. k \in 1 .. Len(table) + cap /\ ~(k <= Len(table)) /\ k - Len(table) \in 2 .. cap
      BY <1>1, <2>3, <2>6
    <3> QED BY <2>1, <2>3, <3>1
  <2>7. Cells = 1 .. Len(table)
    BY <1>4 DEF Cells
  <2>8. \A k \in Cells' : k \in Cells \/ k = cap
    BY <2>6, <2>7 DEF Cells, H!NoFd
  <2>9. \A k \in Cells : k \in Cells'
    BY <2>4, <2>7 DEF Cells, H!NoFd
  <2>10. cap \in Cells'
    BY <1>1, <2>5 DEF Cells, H!NoFd
  <2> QED BY <2>3, <2>4, <2>5, <2>7, <2>8, <2>9, <2>10
<1> QED BY <1>3, <1>4

LEMMA H_Removes ==
    ASSUME H_Inv, NEW d \in Nat, H!remove_client(d), polling = "epoll"
    PROVE  /\ table' \in Seq(Int)
           /\ Cells' = {k \in Cells : table[k] # d}
           /\ \A k \in Cells' : table'[k] = table[k]
<1> DEFINE cells == {k \in 1 .. Len(table) : table[k] = d}
<1>1. table \in Seq(Int) /\ Len(table) \in Nat /\ d # H!NoFd /\ H!NoFd = -1
  BY H_Facts DEF H_Inv, H_TypeOK
<1>2. table' = IF cells = {} THEN table ELSE [table EXCEPT ![H!Min(cells)] = H!NoFd]
  BY DEF H!remove_client
<1>3. CASE cells = {}
  BY <1>1, <1>2, <1>3 DEF Cells, H!NoFd
<1>4. CASE cells # {}
  <2>1. PICK m : m = H!Min(cells)
    OBVIOUS
  <2>2. m \in 1 .. Len(table) /\ table[m] = d
    <3>1. cells \in SUBSET Nat
      BY <1>1
    <3>2. m \in cells
      BY <1>4, <2>1, <3>1, H_Least
    <3> QED BY <3>2
  <2>3. table' = [table EXCEPT ![m] = H!NoFd]
    BY <1>2, <1>4, <2>1
  <2>4. /\ table' \in Seq(Int) /\ Len(table') = Len(table) /\ table'[m] = H!NoFd
        /\ \A k \in 1 .. Len(table) : k # m => table'[k] = table[k]
    BY <1>1, <2>2, <2>3
  <2>5. \A k \in Cells : table[k] = d => k = m
    <3>1. m \in Cells
      BY <1>1, <2>2 DEF Cells
    <3> QED BY <2>2, <3>1 DEF H_Inv, H_Known
  <2>6. Cells' = Cells \ {m}
    BY <1>1, <2>2, <2>4 DEF Cells, H!NoFd
  <2>7. \A k \in Cells' : k \in 1 .. Len(table) /\ k # m
    BY <2>6 DEF Cells
  <2> QED BY <2>2, <2>4, <2>5, <2>6, <2>7
<1> QED BY <1>3, <1>4

LEMMA H_Accepts == ASSUME H_Inv, H!Accept PROVE H_Inv'
<1> DEFINE d == H!Min(H!Fds \ {h_fd[u] : u \in H!Open})
<1>1. PICK c \in Users :
          /\ conn[c] = "queued" /\ conn' = [conn EXCEPT ![c] = "open"]
          /\ h_fd' = [h_fd EXCEPT ![c] = d]
          /\ IF polling = "epoll" THEN H!add_client(d) /\ UNCHANGED master_set
             ELSE master_set' = master_set \cup {d} /\ UNCHANGED table
  BY DEF H!Accept
<1>2. /\ UNCHANGED polling
      /\ events' = [e \in DOMAIN events \ {Listener} |-> events[e]]
  BY DEF H!Accept, H!Done
<1>3. d \in H!Fds /\ \A u \in H!Open : h_fd[u] # d
  BY <1>1, H_FreeNumber
<1> HIDE DEF d
<1>4. d \in Nat /\ d # H!NoFd /\ d # Listener
  BY <1>3, H_Facts
<1>5. c \notin H!Open /\ H!Open' = H!Open \cup {c} /\ H!Open \subseteq Users
  BY <1>1 DEF H_Inv, H_TypeOK, H!Open
<1>6. /\ h_fd' \in [Users -> Int] /\ h_fd'[c] = d
      /\ \A u \in H!Open : h_fd'[u] = h_fd[u]
  BY <1>1, <1>4, <1>5 DEF H_Inv, H_TypeOK
<1>7. H_Numbers'
  <2>1. H!Fds' = H!Fds
    BY DEF H!Fds
  <2> QED BY <1>3, <1>5, <1>6, <2>1 DEF H_Inv, H_Numbers
<1>8. H_Events'
  BY <1>2, <1>5, <1>6 DEF H_Inv, H_Events
<1>9. CASE polling = "epoll"
  <2>1. \A k \in Cells : table[k] # d
    BY <1>3, <1>9 DEF H_Inv, H_Known
  <2>2. /\ table' \in Seq(Int)
        /\ \A k \in Cells' : (k \in Cells /\ table'[k] = table[k]) \/ table'[k] = d
        /\ \A k \in Cells : k \in Cells' /\ table'[k] = table[k]
        /\ \A j, k \in Cells' : table'[j] = d /\ table'[k] = d => j = k
        /\ \E k \in Cells' : table'[k] = d
    BY <1>1, <1>4, <1>9, <2>1, H_Adds
  <2>3. H_TypeOK'
    BY <1>1, <1>2, <1>6, <2>2 DEF H_Inv, H_TypeOK
  <2>4. \A u \in H!Open' : \E k \in 1 .. Len(table') : table'[k] = h_fd'[u]
    <3>1. \E k \in 1 .. Len(table') : table'[k] = d
      BY <2>2 DEF Cells
    <3>2. ASSUME NEW u \in H!Open PROVE \E k \in 1 .. Len(table') : table'[k] = h_fd'[u]
      <4>1. PICK k \in 1 .. Len(table) : table[k] = h_fd[u]
        BY <1>9 DEF H_Inv, H_Known
      <4>2. h_fd[u] # H!NoFd
        BY H_Facts DEF H_Inv, H_Numbers
      <4>3. k \in Cells
        BY <4>1, <4>2 DEF Cells
      <4>4. k \in 1 .. Len(table') /\ table'[k] = table[k]
        BY <2>2, <4>3 DEF Cells
      <4> QED BY <1>6, <4>1, <4>4
    <3> QED BY <1>5, <1>6, <3>1, <3>2
  <2>5. \A k \in Cells' : \E u \in H!Open' : h_fd'[u] = table'[k]
    BY <1>5, <1>6, <1>9, <2>2 DEF H_Inv, H_Known
  <2>6. \A j, k \in Cells' : table'[j] = table'[k] => j = k
    BY <1>9, <2>1, <2>2 DEF H_Inv, H_Known
  <2>7. H_Known'
    BY <1>2, <1>9, <2>4, <2>5, <2>6 DEF H_Known
  <2> QED BY <1>7, <1>8, <2>3, <2>7 DEF H_Inv
<1>10. CASE polling = "select"
  <2>1. master_set' = master_set \cup {d} /\ UNCHANGED table
    BY <1>1, <1>10
  <2>2. H_TypeOK'
    BY <1>1, <1>2, <1>6, <2>1 DEF H_Inv, H_TypeOK
  <2>3. {h_fd'[u] : u \in H!Open'} = {h_fd[u] : u \in H!Open} \cup {d}
    BY <1>5, <1>6
  <2>4. Cells' = Cells
    BY <2>1 DEF Cells, H!NoFd
  <2>5. H_Known'
    BY <1>2, <1>10, <2>1, <2>3, <2>4 DEF H_Inv, H_Known
  <2> QED BY <1>7, <1>8, <2>2, <2>5 DEF H_Inv
<1> QED BY <1>9, <1>10 DEF H_Inv, H_TypeOK

LEMMA H_Disconnects == ASSUME H_Inv, NEW d \in H!Fds, H!Disconnect(d) PROVE H_Inv'
<1>1. d # Listener /\ d \in DOMAIN events /\ events' = [e \in DOMAIN events \ {d} |-> events[e]]
      /\ UNCHANGED polling
  BY DEF H!Disconnect, H!Turn, H!Done
<1>2. PICK c \in H!Open : h_fd[c] = d
  BY <1>1 DEF H_Inv, H_Events
<1>3. H!UserOf(d) = c
  BY <1>2, H_UserOf
<1>4. /\ conn' = [conn EXCEPT ![c] = "closed"] /\ h_fd' = [h_fd EXCEPT ![c] = H!NoFd]
      /\ IF polling = "epoll" THEN H!remove_client(d) /\ UNCHANGED master_set
         ELSE master_set' = master_set \ {d} /\ UNCHANGED table
  BY <1>3 DEF H!Disconnect
<1>5. H!Open' = H!Open \ {c} /\ H!Open \subseteq Users
  BY <1>2, <1>4 DEF H_Inv, H_TypeOK, H!Open
<1>6. d \in Nat /\ H!NoFd \in Int
  BY H_Facts
<1>7. h_fd' \in [Users -> Int] /\ \A u \in H!Open' : h_fd'[u] = h_fd[u] /\ h_fd[u] # d
  BY <1>2, <1>4, <1>5, <1>6 DEF H_Inv, H_TypeOK, H_Numbers
<1>8. H_Numbers'
  <2>1. H!Fds' = H!Fds
    BY DEF H!Fds
  <2> QED BY <1>5, <1>7, <2>1 DEF H_Inv, H_Numbers
<1>9. H_Events'
  BY <1>1, <1>2, <1>5, <1>7 DEF H_Inv, H_Events
<1>10. CASE polling = "epoll"
  <2>1. /\ table' \in Seq(Int)
        /\ Cells' = {k \in Cells : table[k] # d}
        /\ \A k \in Cells' : table'[k] = table[k]
    BY <1>4, <1>6, <1>10, H_Removes
  <2>2. H_TypeOK'
    BY <1>1, <1>4, <1>7, <2>1 DEF H_Inv, H_TypeOK
  <2>3. ASSUME NEW u \in H!Open' PROVE \E k \in 1 .. Len(table') : table'[k] = h_fd'[u]
    <3>1. PICK k \in 1 .. Len(table) : table[k] = h_fd[u]
      BY <1>5, <1>10 DEF H_Inv, H_Known
    <3>2. h_fd[u] # H!NoFd
      BY <1>5, H_Facts DEF H_Inv, H_Numbers
    <3>3. k \in Cells'
      BY <1>7, <2>1, <3>1, <3>2 DEF Cells
    <3>4. k \in 1 .. Len(table') /\ table'[k] = table[k]
      BY <2>1, <3>3 DEF Cells
    <3> QED BY <1>7, <3>1, <3>4
  <2>4. ASSUME NEW k \in Cells' PROVE \E u \in H!Open' : h_fd'[u] = table'[k]
    <3>1. k \in Cells /\ table[k] # d /\ table'[k] = table[k]
      BY <2>1
    <3>2. PICK u \in H!Open : h_fd[u] = table[k]
      BY <1>10, <3>1 DEF H_Inv, H_Known
    <3>3. u \in H!Open'
      BY <1>2, <1>5, <3>1, <3>2
    <3> QED BY <1>7, <3>1, <3>2, <3>3
  <2>5. \A j, k \in Cells' : table'[j] = table'[k] => j = k
    BY <1>10, <2>1 DEF H_Inv, H_Known
  <2>6. H_Known'
    BY <1>1, <1>10, <2>3, <2>4, <2>5 DEF H_Known
  <2> QED BY <1>8, <1>9, <2>2, <2>6 DEF H_Inv
<1>11. CASE polling = "select"
  <2>1. master_set' = master_set \ {d} /\ UNCHANGED table
    BY <1>4, <1>11
  <2>2. H_TypeOK'
    BY <1>1, <1>4, <1>7, <2>1 DEF H_Inv, H_TypeOK
  <2>3. {h_fd'[u] : u \in H!Open'} = {h_fd[u] : u \in H!Open} \ {d}
    BY <1>2, <1>5, <1>7
  <2>4. Cells' = Cells
    BY <2>1 DEF Cells, H!NoFd
  <2>5. H_Known'
    BY <1>1, <1>11, <2>1, <2>3, <2>4 DEF H_Inv, H_Known
  <2> QED BY <1>8, <1>9, <2>2, <2>5 DEF H_Inv
<1> QED BY <1>10, <1>11 DEF H_Inv, H_TypeOK

LEMMA H_InvStep == H_Inv /\ [H!Next]_(H!vars) => H_Inv'
<1> SUFFICES ASSUME H_Inv, [H!Next]_(H!vars) PROVE H_Inv'
  OBVIOUS
<1>1. CASE H!Send \/ (\E c \in Users : H!Connect(c) \/ H!Say(c) \/ H!Leave(c) \/ H!Read(c)) \/ UNCHANGED H!vars
  <2>1. CASE \E c \in Users : H!Connect(c)
    <3>1. PICK c \in Users : conn[c] = "new" /\ conn' = [conn EXCEPT ![c] = "queued"]
      BY <2>1 DEF H!Connect
    <3>2. UNCHANGED <<polling, h_fd, table, master_set, events>>
      BY <2>1 DEF H!Connect, H!serverVars
    <3>3. H!Open' = H!Open /\ Cells' = Cells
      BY <3>1, <3>2 DEF H_Inv, H_TypeOK, H!Open, Cells
    <3>4. H_TypeOK' /\ H_Numbers' /\ H_Known'
      BY <3>1, <3>2, <3>3 DEF H_Inv, H_TypeOK, H_Numbers, H_Known
    <3>5. H_Events'
      BY <3>2, <3>3 DEF H_Inv, H_Events
    <3> QED BY <3>4, <3>5 DEF H_Inv
  <2>2. CASE ~\E c \in Users : H!Connect(c)
    <3>1. UNCHANGED <<polling, conn, h_fd, table, master_set, events>>
      BY <1>1, <2>2 DEF H!Send, H!Say, H!Leave, H!Read, H!vars, H!serverVars
    <3>2. H_Events'
      BY <3>1 DEF H_Inv, H_Events, H!Open
    <3> QED BY <3>1, <3>2, H_QuietSteps
  <2> QED BY <2>1, <2>2
<1>2. CASE \E d \in H!Fds : H!Receive(d)
  <2>1. PICK d : UNCHANGED <<polling, conn, h_fd, table, master_set>>
                 /\ events' = [e \in DOMAIN events \ {d} |-> events[e]]
    BY <1>2 DEF H!Receive, H!Done, H!serverVars
  <2>2. H_Events'
    BY <2>1 DEF H_Inv, H_Events, H!Open
  <2> QED BY <2>1, <2>2, H_QuietSteps
<1> QED BY <1>1, <1>2, H_Polls, H_Accepts, H_Disconnects DEF H!Next, H!ServerStep

LEMMA H_Exact == H_Inv => ClientsExact
<1> SUFFICES ASSUME H_Inv PROVE ClientsExact
  OBVIOUS
<1>1. CASE polling = "epoll"
  <2>1. {table[k] : k \in Cells} = {h_fd[u] : u \in H!Open}
    <3>1. \A u \in H!Open : h_fd[u] # H!NoFd
      BY H_Facts DEF H_Inv, H_Numbers
    <3>2. \A u \in H!Open : \E k \in Cells : table[k] = h_fd[u]
      BY <1>1, <3>1 DEF H_Inv, H_Known, Cells
    <3> QED BY <1>1, <3>2 DEF H_Inv, H_Known
  <2>2. \A e \in DOMAIN events \ {Listener} : e \in {h_fd[u] : u \in H!Open} /\ H!UserOf(e) = events[e]
    BY H_UserOf DEF H_Inv, H_Events
  <2> QED BY <1>1, <2>1, <2>2 DEF ClientsExact, H!ClientsExact, H_Inv, H_Known, Cells
<1>2. CASE polling = "select"
  <2>1. \A e \in DOMAIN events \ {Listener} : e \in {h_fd[u] : u \in H!Open} /\ H!UserOf(e) = events[e]
    BY H_UserOf DEF H_Inv, H_Events
  <2> QED BY <1>2, <2>1 DEF ClientsExact, H!ClientsExact, H_Inv, H_Known, Cells
<1> QED BY <1>1, <1>2 DEF H_Inv, H_TypeOK

\* For any number of users, and although a descriptor is given to the next user as
\* soon as it is closed, in the middle of a round of events too: the table of the
\* epoll version, which grows and has its holes filled, and the set of the select
\* version hold exactly the open connections, each once, and an event is handled
\* for the user it was reported for (epoll_chat.c:15-51, 122-171,
\* select_chat.c:62-103).
THEOREM ChatKnowsItsClients == H!Spec => []ClientsExact
BY H_InvInit, H_InvStep, H_Exact, PTL DEF H!Spec

\* What c was sent is in order: its welcome, and of each user a stretch without
\* repetition, and with select without gaps.
InOrder(got, c, mode) ==
    /\ \A k \in DOMAIN got : got[k][1] = c <=> k = 1
    /\ \A j, k \in DOMAIN got : j < k /\ got[j][1] = got[k][1] =>
          /\ got[j][2] < got[k][2]
          /\ mode = "select" => \A n \in got[j][2] .. got[k][2] :
                                   \E i \in j .. k : got[i] = <<got[j][1], n>>

\* The broadcast under way: whose words, and how many went before them.
Speaker == h_out[1][1]
Before  == h_out[1][2] - 1

\* Those it has not been sent to, and how far c has been sent what u said.
Waiting(c) == c \in H!Open /\ \E j \in targets : H!Descriptors[j] = h_fd[c]
Reached(c, u) ==
    IF Waiting(c) /\ u = Speaker
    THEN Before + (IF h_fd[c] = H!Descriptors[H!Min(targets)] THEN pos ELSE 0)
    ELSE heard[u]

J_TypeOK ==
    /\ heard \in [Users -> Nat] /\ said \in [Users -> Nat] /\ pos \in Nat
    /\ h_unread \in [Users -> 0 .. WINDOW]
    /\ inbox \in [Users -> Seq(Users \X Nat)]

\* A broadcast is the last that was heard of somebody who is there, for others.
J_Cast ==
    IF targets = {} THEN pos = 0
    ELSE /\ Speaker \in H!Open /\ Before \in Nat /\ targets \subseteq H!Others(h_fd[Speaker])
         /\ \E n \in Nat \ {0} : /\ h_out = [k \in 1 .. n |-> <<Speaker, Before + k>>]
                                 /\ Before + n = heard[Speaker] /\ pos < n

J_Welcomed ==
    \A c \in Users : /\ conn[c] \in {"new", "queued"} => inbox[c] = <<>>
                     /\ conn[c] = "open" => inbox[c] # <<>>

\* Nothing beyond Reached has been sent, and with select nothing up to it is missing.
J_Upto == \A c \in Users : \A k \in DOMAIN inbox[c] : inbox[c][k][2] <= Reached(c, inbox[c][k][1])
J_Last ==
    polling = "select" => \A c \in H!Open \ h_left, u \in Users :
        u # c /\ (\E k \in DOMAIN inbox[c] : inbox[c][k][1] = u) =>
            \E k \in DOMAIN inbox[c] : inbox[c][k] = <<u, Reached(c, u)>>

J_Order == \A c \in Users : InOrder(inbox[c], c, polling)

J_Inv == J_TypeOK /\ J_Cast /\ J_Welcomed /\ J_Upto /\ J_Last /\ J_Order

LEMMA J_MinOfTwo == ASSUME NEW a \in Int, NEW b \in Int
                    PROVE  H!Min({a, b}) = IF a <= b THEN a ELSE b
BY DEF H!Min

\* A stretch of s's words that goes behind all of s that is there, and what is
\* there then.
Fits(got, more, c, s, r, n, mode) ==
    /\ got \in Seq(Users \X Nat) /\ got # <<>> /\ InOrder(got, c, mode)
    /\ s \in Users /\ s # c /\ r \in Nat /\ n \in Nat
    /\ more \in Seq(Users \X Nat) /\ Len(more) = n /\ \A i \in 1 .. n : more[i] = <<s, r + i>>
    /\ \A k \in DOMAIN got : got[k][1] = s => got[k][2] <= r
    /\ mode = "select" /\ n > 0 /\ (\E k \in DOMAIN got : got[k][1] = s)
          => \E k \in DOMAIN got : got[k] = <<s, r>>

Longer(new, got, s, r, n) ==
    /\ new \in Seq(Users \X Nat) /\ new # <<>>
    /\ \A k \in DOMAIN got : k \in DOMAIN new /\ new[k] = got[k]
    /\ \A k \in DOMAIN new : \/ k \in DOMAIN got /\ new[k] = got[k]
                             \/ new[k][1] = s /\ new[k][2] <= r + n
    /\ n > 0 => \E k \in DOMAIN new : new[k] = <<s, r + n>>

LEMMA J_Appends ==
    ASSUME NEW got, NEW more, NEW c, NEW s, NEW r, NEW n, NEW mode,
           Fits(got, more, c, s, r, n, mode)
    PROVE  InOrder(got \o more, c, mode) /\ Longer(got \o more, got, s, r, n)
<1> USE DEF Fits
<1> DEFINE new == got \o more
           l == Len(got)
<1>1. /\ l \in Nat /\ l >= 1 /\ DOMAIN got = 1 .. l /\ n \in Nat
      /\ \A k \in 1 .. l : got[k] \in Users \X Nat
  <2>1. l \in Nat /\ DOMAIN got = 1 .. l /\ \A k \in 1 .. l : got[k] \in Users \X Nat
    OBVIOUS
  <2>2. l # 0
    BY EmptySeq
  <2> QED BY <2>1, <2>2
<1>2. /\ new \in Seq(Users \X Nat) /\ Len(new) = l + n
      /\ \A k \in 1 .. l + n : new[k] = IF k <= l THEN got[k] ELSE more[k - l]
  BY ConcatProperties
<1>3. DOMAIN new = 1 .. l + n
  BY <1>2
<1> HIDE DEF new, l
<1>4. \A k \in 1 .. l : k \in DOMAIN new /\ new[k] = got[k]
  BY ONLY <1>1, <1>2, <1>3
<1>5. \A k \in l + 1 .. l + n : k \in DOMAIN new /\ new[k] = <<s, r + (k - l)>>
  <2> TAKE k \in l + 1 .. l + n
  <2>1. k \in 1 .. l + n /\ ~(k <= l) /\ k - l \in 1 .. n
    <3>1. k \in l + 1 .. l + n
      OBVIOUS
    <3> QED BY ONLY <1>1, <3>1
  <2> QED BY <1>2, <1>3, <2>1
<1>6. \A k \in DOMAIN new : k \in 1 .. l \/ k \in l + 1 .. l + n
  BY <1>1, <1>3
<1>7. \A k \in DOMAIN new : new[k][1] = c <=> k = 1
  <2>1. \A k \in 1 .. l : new[k][1] = c <=> k = 1
    BY <1>1, <1>4 DEF InOrder
  <2>2. \A k \in l + 1 .. l + n : new[k][1] # c /\ k # 1
    <3> TAKE k \in l + 1 .. l + n
    <3>1. new[k] = <<s, r + (k - l)>> /\ k # 1
      BY <1>1, <1>5
    <3> QED BY <3>1
  <2> QED BY <1>6, <2>1, <2>2
<1>8. ASSUME NEW j \in DOMAIN new, NEW k \in DOMAIN new, j < k, new[j][1] = new[k][1]
      PROVE  /\ new[j][2] < new[k][2]
             /\ mode = "select" => \A x \in new[j][2] .. new[k][2] :
                                      \E i \in j .. k : new[i] = <<new[j][1], x>>
  <2>1. CASE k \in 1 .. l
    <3>1. j \in 1 .. l /\ \A i \in j .. k : i \in 1 .. l
      <4>1. j \in Nat /\ 1 <= j
        BY <1>3
      <4> QED BY ONLY <1>1, <1>8, <2>1, <4>1
    <3>2. new[j] = got[j] /\ new[k] = got[k]
      BY <1>4, <2>1, <3>1
    <3>3. \A i \in j .. k : new[i] = got[i]
      BY <1>4, <3>1
    <3>4. j \in DOMAIN got /\ k \in DOMAIN got /\ j < k /\ got[j][1] = got[k][1]
      BY <1>1, <1>8, <2>1, <3>1, <3>2
    <3>5. /\ got[j][2] < got[k][2]
          /\ mode = "select" => \A x \in got[j][2] .. got[k][2] :
                                   \E i \in j .. k : got[i] = <<got[j][1], x>>
      BY <3>4, Zenon DEF InOrder
    <3> QED BY <3>2, <3>3, <3>5
  <2>2. CASE k \in l + 1 .. l + n
    <3> DEFINE b == k - l
    <3>1. b \in 1 .. n /\ k = l + b /\ new[k] = <<s, r + b>>
      <4>1. new[k] = <<s, r + (k - l)>>
        BY <1>5, <2>2
      <4>2. b \in 1 .. n /\ k = l + b
        BY ONLY <1>1, <2>2, n \in Nat
      <4> QED BY <4>1, <4>2
    <3> HIDE DEF b
    <3>2. new[j][1] = s
      BY <1>8, <3>1
    <3>3. ASSUME NEW x \in Int, x > r, x <= r + b, j <= l + (x - r)
          PROVE  \E i \in j .. k : new[i] = <<s, x>>
      <4> DEFINE i == l + (x - r)
      <4>1. i \in l + 1 .. l + n /\ r + (i - l) = x /\ i \in j .. k
        <5>1. j \in Int
          BY <1>3
        <5> QED BY ONLY <1>1, <3>1, <3>3, <5>1, n \in Nat, r \in Nat
      <4> HIDE DEF i
      <4>2. new[i] = <<s, x>>
        BY <1>5, <4>1
      <4> QED BY <4>1, <4>2
    <3>4. CASE j \in 1 .. l
      <4>1. new[j] = got[j] /\ got[j][1] = s /\ got[j] \in Users \X Nat
        BY <1>1, <1>4, <3>2, <3>4
      <4>2. got[j][2] <= r /\ got[j][2] \in Nat
        BY <1>1, <3>4, <4>1
      <4>3. new[j][2] < new[k][2]
        BY <3>1, <4>1, <4>2
      <4>4. ASSUME mode = "select", NEW x \in new[j][2] .. new[k][2]
            PROVE  \E i \in j .. k : new[i] = <<s, x>>
        <5>1. x \in Int /\ got[j][2] <= x /\ x <= r + b
          BY <3>1, <4>1, <4>2
        <5>2. CASE x > r
          <6>1. j <= l + (x - r)
            BY <1>1, <3>4, <5>1, <5>2
          <6> QED BY <3>3, <5>1, <5>2, <6>1
        <5>3. CASE x <= r
          <6>1. PICK p \in 1 .. l : got[p] = <<s, r>>
            <7>1. n > 0 /\ \E q \in DOMAIN got : got[q][1] = s
              BY <1>1, <3>1, <3>4, <4>1
            <7> QED BY <1>1, <4>4, <7>1
          <6>2. got[p][1] = s /\ got[p][2] = r /\ p \in DOMAIN got /\ j \in DOMAIN got
            BY <1>1, <3>4, <6>1
          <6>3. ~(p < j)
            <7> SUFFICES ASSUME p < j PROVE FALSE
              OBVIOUS
            <7>1. got[p][2] < got[j][2]
              BY <4>1, <6>2 DEF InOrder
            <7> QED BY <4>2, <6>2, <7>1
          <6>4. CASE p = j
            <7>1. x = r /\ new[j] = <<s, x>>
              BY <4>1, <5>1, <5>3, <6>1, <6>4
            <7>2. j \in j .. k
              <8>1. j \in 1 .. l + n /\ k \in 1 .. l + n /\ j < k
                BY <1>3, <1>8
              <8> QED BY ONLY <1>1, <8>1
            <7> QED BY <7>1, <7>2
          <6>5. CASE j < p
            <7>1. x \in got[j][2] .. got[p][2] /\ got[j][1] = got[p][1]
              BY <4>1, <4>2, <5>1, <5>3, <6>2
            <7>2. PICK i \in j .. p : got[i] = <<got[j][1], x>>
              BY <4>4, <6>2, <6>5, <7>1 DEF InOrder
            <7>3. i \in 1 .. l /\ i \in j .. k
              BY ONLY <1>1, <2>2, <3>4, i \in j .. p, p \in 1 .. l, n \in Nat
            <7> QED BY <1>4, <4>1, <7>2, <7>3
          <6> QED BY <3>4, <6>3, <6>4, <6>5
        <5> QED BY <5>1, <5>2, <5>3
      <4> QED BY <3>2, <4>3, <4>4
    <3>5. CASE j \in l + 1 .. l + n
      <4>1. new[j] = <<s, r + (j - l)>>
        BY <1>5, <3>5
      <4>2. j - l < b /\ new[j][2] = r + (j - l) /\ new[k][2] = r + b
        BY <1>1, <1>8, <2>2, <3>1, <3>5, <4>1 DEF b
      <4>3. new[j][2] < new[k][2]
        BY <1>1, <3>1, <3>5, <4>2
      <4>4. \A x \in new[j][2] .. new[k][2] : x \in Int /\ x > r /\ x <= r + b /\ j <= l + (x - r)
        <5>1. \A x \in r + (j - l) .. r + b : x \in Int /\ x > r /\ x <= r + b /\ j <= l + (x - r)
          BY ONLY <1>1, <3>1, <3>5, n \in Nat, r \in Nat
        <5> QED BY <4>2, <5>1
      <4> QED BY <3>2, <3>3, <4>3, <4>4
    <3> QED BY <1>6, <3>4, <3>5
  <2> QED BY <1>6, <2>1, <2>2
<1>9. InOrder(new, c, mode)
  BY <1>7, <1>8 DEF InOrder
<1>10. \A k \in DOMAIN new : \/ k \in 1 .. l /\ new[k] = got[k]
                             \/ new[k][1] = s /\ new[k][2] <= r + n
  <2>1. \A k \in l + 1 .. l + n : new[k][1] = s /\ new[k][2] <= r + n
    <3> TAKE k \in l + 1 .. l + n
    <3>1. new[k] = <<s, r + (k - l)>> /\ r + (k - l) <= r + n
      BY <1>1, <1>5
    <3> QED BY <3>1
  <2> QED BY <1>4, <1>6, <2>1
<1>11. ASSUME n > 0 PROVE \E k \in DOMAIN new : new[k] = <<s, r + n>>
  <2>1. l + n \in l + 1 .. l + n /\ r + ((l + n) - l) = r + n
    BY <1>1, <1>11
  <2> QED BY <1>5, <2>1
<1>12. new # <<>>
  BY <1>1, <1>2, EmptySeq
<1> QED BY <1>1, <1>2, <1>4, <1>9, <1>10, <1>11, <1>12 DEF new, Longer

LEMMA J_Constants == /\ Users = DOMAIN Says /\ \A c \in Users : Says[c] \in Nat
                     /\ WINDOW \in Nat \ {0} /\ RecvMax \in Nat \ {0}
BY ServersAssumption DEF H!ChatConstants

\* Whom a cell is for.
LEMMA J_Cells ==
    ASSUME H_Inv, NEW d, NEW j \in H!Others(d)
    PROVE  /\ j \in Nat /\ \E c \in H!Open : h_fd[c] = H!Descriptors[j] /\ h_fd[c] # d
           /\ \A k \in H!Others(d) : H!Descriptors[k] = H!Descriptors[j] => k = j
<1>1. CASE polling = "epoll"
  <2>1. H!Descriptors = table
    BY <1>1 DEF H!Descriptors
  <2>2. \A k \in H!Others(d) : k \in Cells /\ table[k] # d
    BY <1>1, <2>1 DEF H!Others, H!Holds, Cells, H_Inv, H_TypeOK
  <2> QED BY <1>1, <2>1, <2>2 DEF H_Inv, H_Known, Cells
<1>2. CASE polling = "select"
  <2>1. H!Descriptors = [k \in 1 .. H!Cardinality(Users) |-> k - 1]
    BY <1>2 DEF H!Descriptors
  <2>2. \A k \in H!Others(d) : /\ k \in 1 .. H!Cardinality(Users) /\ H!Descriptors[k] = k - 1
                               /\ H!Descriptors[k] \in master_set /\ H!Descriptors[k] # d
    BY <1>2, <2>1 DEF H!Others, H!Holds
  <2>3. \A k \in H!Others(d) : H!Descriptors[k] = H!Descriptors[j] => k = j
    BY <2>2
  <2>4. \E c \in H!Open : h_fd[c] = H!Descriptors[j]
    BY <1>2, <2>2 DEF H_Inv, H_Known
  <2> QED BY <2>2, <2>3, <2>4
<1> QED BY <1>1, <1>2 DEF H_Inv, H_TypeOK

\* With select everybody else is sent to.
LEMMA J_EverybodyElse ==
    ASSUME H_Inv, polling = "select", NEW c \in H!Open, NEW s \in H!Open, c # s
    PROVE  \E j \in H!Others(h_fd[s]) : H!Descriptors[j] = h_fd[c]
<1>1. H!Descriptors = [k \in 1 .. H!Cardinality(Users) |-> k - 1]
  BY DEF H!Descriptors
<1>2. h_fd[c] \in 0 .. H!Cardinality(Users) - 1 /\ h_fd[c] # h_fd[s] /\ h_fd[c] \in master_set
  BY DEF H_Inv, H_Numbers, H_Known, H!Fds
<1>3. H!Cardinality(Users) \in Nat
  BY H_Facts, FS_CardinalityType DEF H!Cardinality, Cardinality
<1> DEFINE j == h_fd[c] + 1
<1>4. j \in 1 .. H!Cardinality(Users) /\ j - 1 = h_fd[c]
  BY <1>2, <1>3
<1> HIDE DEF j
<1>5. j \in DOMAIN H!Descriptors /\ H!Descriptors[j] = h_fd[c]
  BY <1>1, <1>4
<1>6. j \in H!Others(h_fd[s])
  BY <1>2, <1>5 DEF H!Others, H!Holds
<1> QED BY <1>5, <1>6

LEMMA J_Init == H!Init => J_Inv
<1> SUFFICES ASSUME H!Init PROVE J_Inv
  OBVIOUS
<1>1. J_TypeOK
  BY J_Constants DEF H!Init, J_TypeOK
<1>2. H!Open = {} /\ \A c \in Users : inbox[c] = <<>> /\ DOMAIN inbox[c] = {}
  BY DEF H!Init, H!Open
<1>3. J_Cast
  BY DEF H!Init, J_Cast
<1>4. J_Welcomed
  BY <1>2 DEF H!Init, J_Welcomed
<1>5. J_Upto /\ J_Last /\ J_Order
  BY <1>2 DEF J_Upto, J_Last, J_Order, InOrder
<1> QED BY <1>1, <1>3, <1>4, <1>5 DEF J_Inv

\* What users do, and epoll_wait() or select(): nothing is sent.
LEMMA J_Quiet ==
    ASSUME J_Inv, UNCHANGED <<polling, h_fd, heard, inbox, table, master_set, h_out, targets, pos>>,
           H!Open' = H!Open, h_left \subseteq h_left', J_TypeOK', J_Welcomed'
    PROVE  J_Inv'
<1>1. /\ H!Descriptors' = H!Descriptors /\ Speaker' = Speaker /\ Before' = Before
      /\ \A d : H!Others(d)' = H!Others(d)
  BY DEF H!Descriptors, H!Others, H!Holds, Speaker, Before
<1>2. \A c, u : Reached(c, u)' = Reached(c, u)
  BY <1>1 DEF Reached, Waiting
<1>3. J_Cast'
  BY <1>1 DEF J_Inv, J_Cast
<1>4. J_Upto' /\ J_Last' /\ J_Order'
  BY <1>2 DEF J_Inv, J_Upto, J_Last, J_Order
<1> QED BY <1>3, <1>4 DEF J_Inv

LEMMA J_UserSteps ==
    ASSUME J_Inv, H_Inv, NEW c \in Users, H!Connect(c) \/ H!Say(c) \/ H!Leave(c) \/ H!Read(c)
    PROVE  J_Inv'
<1>1. /\ UNCHANGED <<polling, h_fd, heard, inbox, table, master_set, h_out, targets, pos>>
      /\ h_left \subseteq h_left'
  BY DEF H!Connect, H!Say, H!Leave, H!Read, H!serverVars, H!cast, H!userVars
<1>2. /\ conn \in [Users -> {"new", "queued", "open", "closed"}]
      /\ UNCHANGED conn \/ (conn[c] = "new" /\ conn' = [conn EXCEPT ![c] = "queued"])
  BY DEF H_Inv, H_TypeOK, H!Connect, H!Say, H!Leave, H!Read
<1>3. H!Open' = H!Open
  BY <1>2 DEF H!Open
<1>4. J_Welcomed'
  BY <1>1, <1>2 DEF J_Inv, J_Welcomed
<1>5. said' \in [Users -> Nat]
  BY DEF J_Inv, J_TypeOK, H!Connect, H!Say, H!Leave, H!Read, H!userVars
<1>6. h_unread' \in [Users -> 0 .. WINDOW]
  BY J_Constants DEF J_Inv, J_TypeOK, H!Connect, H!Say, H!Leave, H!Read
<1>7. J_TypeOK'
  BY <1>1, <1>5, <1>6 DEF J_Inv, J_TypeOK
<1> QED BY <1>1, <1>3, <1>4, <1>7, J_Quiet

LEMMA J_Accepts == ASSUME J_Inv, H_Inv, H!Accept PROVE J_Inv'
<1>1. /\ targets = {} /\ UNCHANGED <<polling, h_left, said, heard, h_out, targets, pos>>
  BY DEF H!Accept, H!Turn, H!userVars, H!cast
<1>2. PICK c \in Users : /\ conn[c] = "queued" /\ conn' = [conn EXCEPT ![c] = "open"]
                         /\ inbox' = [inbox EXCEPT ![c] = << <<c, 0>> >>]
                         /\ h_unread' = [h_unread EXCEPT ![c] = 1]
  BY DEF H!Accept
<1>3. J_TypeOK'
  <2>1. << <<c, 0>> >> \in Seq(Users \X Nat)
    OBVIOUS
  <2>2. inbox' \in [Users -> Seq(Users \X Nat)]
    BY <1>2, <2>1 DEF J_Inv, J_TypeOK
  <2>3. h_unread' \in [Users -> 0 .. WINDOW]
    BY <1>2, J_Constants DEF J_Inv, J_TypeOK
  <2> QED BY <1>1, <2>2, <2>3 DEF J_Inv, J_TypeOK
<1>4. /\ inbox'[c] = << <<c, 0>> >> /\ DOMAIN inbox'[c] = {1} /\ inbox'[c][1] = <<c, 0>>
      /\ \A u \in Users : u # c => inbox'[u] = inbox[u] /\ conn'[u] = conn[u]
      /\ conn'[c] = "open"
  BY <1>2 DEF J_Inv, J_TypeOK, H_Inv, H_TypeOK
<1>5. J_Cast'
  BY <1>1 DEF J_Inv, J_Cast
<1>6. J_Welcomed'
  BY <1>4 DEF J_Inv, J_Welcomed
<1>7. \A u, v : Reached(u, v) = heard[v] /\ Reached(u, v)' = heard[v]
  BY <1>1 DEF Reached, Waiting
<1>8. J_Upto'
  <2>1. heard[c] \in Nat
    BY DEF J_Inv, J_TypeOK
  <2> QED BY <1>4, <1>7, <2>1 DEF J_Inv, J_Upto
<1>9. \A u \in H!Open' : u = c \/ u \in H!Open
  BY <1>4 DEF H!Open
<1>10. J_Last'
  <2> SUFFICES ASSUME polling' = "select", NEW u \in H!Open' \ h_left', NEW v \in Users, v # u,
                      \E k \in DOMAIN inbox'[u] : inbox'[u][k][1] = v
               PROVE  \E k \in DOMAIN inbox'[u] : inbox'[u][k] = <<v, Reached(u, v)'>>
    BY DEF J_Last
  <2>1. u # c
    BY <1>4
  <2>2. u \in H!Open \ h_left /\ inbox'[u] = inbox[u] /\ polling = "select"
    BY <1>1, <1>4, <1>9, <2>1 DEF H!Open
  <2>3. \E k \in DOMAIN inbox[u] : inbox[u][k] = <<v, heard[v]>>
    BY <1>7, <2>2 DEF J_Inv, J_Last
  <2> QED BY <1>7, <2>2, <2>3
<1>11. J_Order'
  <2>1. InOrder(inbox'[c], c, polling)
    BY <1>4 DEF InOrder
  <2> QED BY <1>1, <1>4, <2>1 DEF J_Inv, J_Order
<1> QED BY <1>3, <1>5, <1>6, <1>8, <1>10, <1>11 DEF J_Inv

LEMMA J_Disconnects == ASSUME J_Inv, H_Inv, NEW d \in H!Fds, H!Disconnect(d) PROVE J_Inv'
<1>1. /\ targets = {} /\ UNCHANGED <<polling, h_left, said, heard, inbox, h_out, targets, pos>>
  BY DEF H!Disconnect, H!Turn, H!userVars, H!cast
<1>2. PICK c : /\ conn' = [conn EXCEPT ![c] = "closed"]
               /\ h_unread' = [h_unread EXCEPT ![c] = 0]
  BY DEF H!Disconnect
<1>3. J_TypeOK'
  <2>1. h_unread \in [Users -> 0 .. WINDOW] /\ 0 \in 0 .. WINDOW
    BY J_Constants DEF J_Inv, J_TypeOK
  <2>2. h_unread' \in [Users -> 0 .. WINDOW]
    BY <1>2, <2>1
  <2> QED BY <1>1, <2>2 DEF J_Inv, J_TypeOK
<1>4. \A u \in Users : conn'[u] = conn[u] \/ conn'[u] = "closed"
  BY <1>2 DEF H_Inv, H_TypeOK
<1>5. H!Open' \subseteq H!Open /\ J_Welcomed'
  BY <1>1, <1>4 DEF J_Inv, J_Welcomed, H!Open
<1>6. \A u, v : Reached(u, v) = heard[v] /\ Reached(u, v)' = heard[v]
  BY <1>1 DEF Reached, Waiting
<1>7. J_Cast' /\ J_Upto' /\ J_Last' /\ J_Order'
  BY <1>1, <1>5, <1>6 DEF J_Inv, J_Cast, J_Upto, J_Last, J_Order
<1> QED BY <1>3, <1>5, <1>7 DEF J_Inv

LEMMA J_Receives == ASSUME J_Inv, H_Inv, NEW d \in H!Fds, H!Receive(d) PROVE J_Inv'
<1>1. /\ targets = {} /\ d \in DOMAIN events /\ d # Listener
      /\ UNCHANGED <<polling, conn, h_fd, h_left, said, inbox, h_unread, table, master_set, pos>>
  BY DEF H!Receive, H!Turn, H!userVars, H!serverVars
<1>2. PICK s \in H!Open : h_fd[s] = d
  BY <1>1 DEF H_Inv, H_Events
<1>3. H!UserOf(d) = s /\ s \in Users /\ heard[s] \in Nat /\ said[s] \in Nat
  BY <1>2, H_UserOf DEF H!Open, J_Inv, J_TypeOK
<1>4. PICK n : /\ n = H!Min({said[s] - heard[s], RecvMax}) /\ n > 0
               /\ heard' = [heard EXCEPT ![s] = heard[s] + n]
               /\ targets' = H!Others(d)
               /\ h_out' = IF H!Others(d) = {} THEN <<>> ELSE [k \in 1 .. n |-> <<s, heard[s] + k>>]
  BY <1>3 DEF H!Receive
<1>5. n \in Nat \ {0}
  <2>1. said[s] - heard[s] \in Int /\ RecvMax \in Int
    BY <1>3, J_Constants
  <2>2. n \in Int
    BY <1>4, <2>1, J_MinOfTwo
  <2> QED BY <1>4, <2>2
<1>6. /\ heard' \in [Users -> Nat] /\ heard'[s] = heard[s] + n
      /\ \A u \in Users : u # s => heard'[u] = heard[u]
  BY <1>3, <1>4, <1>5 DEF J_Inv, J_TypeOK
<1>7. /\ H!Open' = H!Open /\ H!Descriptors' = H!Descriptors /\ pos = 0
      /\ \A e : H!Others(e)' = H!Others(e)
  BY <1>1 DEF H!Open, H!Descriptors, H!Others, H!Holds, J_Inv, J_Cast
<1>8. targets' # {} => /\ Speaker' = s /\ Before' = heard[s]
                       /\ h_out' = [k \in 1 .. n |-> <<s, heard[s] + k>>]
  <2> SUFFICES ASSUME targets' # {}
               PROVE  /\ Speaker' = s /\ Before' = heard[s]
                      /\ h_out' = [k \in 1 .. n |-> <<s, heard[s] + k>>]
    OBVIOUS
  <2>1. h_out' = [k \in 1 .. n |-> <<s, heard[s] + k>>]
    BY <1>4
  <2>2. h_out'[1] = <<s, heard[s] + 1>>
    BY <1>5, <2>1
  <2> QED BY <1>3, <2>1, <2>2 DEF Speaker, Before
<1>9. J_Cast'
  <2>1. CASE targets' = {}
    BY <1>1, <1>7, <2>1 DEF J_Cast
  <2>2. CASE targets' # {}
    <3>1. /\ Speaker' \in H!Open' /\ Before' \in Nat /\ h_fd'[Speaker'] = d
          /\ h_out' = [k \in 1 .. n |-> <<Speaker', Before' + k>>]
          /\ Before' + n = heard'[Speaker'] /\ pos' < n
      BY <1>1, <1>2, <1>3, <1>5, <1>6, <1>7, <1>8, <2>2
    <3>2. targets' \subseteq H!Others(h_fd[Speaker])'
      BY <1>1, <1>2, <1>4, <1>7, <1>8, <2>2
    <3> QED BY <1>5, <2>2, <3>1, <3>2 DEF J_Cast
  <2> QED BY <2>1, <2>2
<1>10. \A c, u : Reached(c, u) = heard[u]
  BY <1>1 DEF Reached, Waiting
<1>11. \A c, u : Reached(c, u)' = IF Waiting(c)' /\ u = s THEN heard[s] ELSE heard'[u]
  <2> TAKE c, u
  <2>1. CASE ~Waiting(c)'
    BY <2>1 DEF Reached
  <2>2. CASE Waiting(c)'
    <3>1. targets' # {}
      BY <2>2 DEF Waiting
    <3>2. Speaker' = s /\ Before' = heard[s] /\ pos' = 0
      BY <1>1, <1>7, <1>8, <3>1
    <3>3. Before' + 0 = heard[s]
      BY <1>3, <3>2
    <3> QED BY <2>2, <3>2, <3>3 DEF Reached
  <2> QED BY <2>1, <2>2
<1>12. \A c \in Users, u \in Users : Reached(c, u)' >= Reached(c, u)
  <2> TAKE c \in Users, u \in Users
  <2>1. heard[u] \in Nat
    BY DEF J_Inv, J_TypeOK
  <2>2. heard'[u] >= heard[u]
    <3>1. CASE u = s
      BY <1>3, <1>5, <1>6, <3>1
    <3>2. CASE u # s
      BY <1>6, <2>1, <3>2
    <3> QED BY <3>1, <3>2
  <2> QED BY <1>3, <1>10, <1>11, <2>1, <2>2
<1>13. J_TypeOK'
  BY <1>1, <1>6 DEF J_Inv, J_TypeOK
<1>14. J_Upto'
  <2> SUFFICES ASSUME NEW c \in Users, NEW k \in DOMAIN inbox[c]
               PROVE  inbox[c][k][2] <= Reached(c, inbox[c][k][1])'
    BY <1>1 DEF J_Upto
  <2>1. inbox[c][k] \in Users \X Nat
    BY DEF J_Inv, J_TypeOK
  <2> DEFINE u == inbox[c][k][1]
  <2>2. u \in Users /\ inbox[c][k][2] \in Nat /\ inbox[c][k][2] <= Reached(c, u)
    BY <2>1 DEF J_Inv, J_Upto
  <2>3. Reached(c, u) \in Nat /\ heard'[u] \in Nat /\ heard[s] \in Nat
    BY <1>3, <1>6, <1>10, <2>2 DEF J_Inv, J_TypeOK
  <2>4. Reached(c, u)' \in Nat /\ Reached(c, u)' >= Reached(c, u)
    BY <1>1, <1>11, <1>12, <2>2, <2>3
  <2> QED BY <1>1, <2>2, <2>3, <2>4
<1>15. J_Last'
  <2> SUFFICES ASSUME polling' = "select", NEW c \in H!Open' \ h_left', NEW u \in Users, u # c,
                      \E k \in DOMAIN inbox'[c] : inbox'[c][k][1] = u
               PROVE  \E k \in DOMAIN inbox'[c] : inbox'[c][k] = <<u, Reached(c, u)'>>
    BY DEF J_Last
  <2>0. polling = "select" /\ c \in H!Open \ h_left /\ inbox' = inbox
    BY <1>1, <1>7
  <2>1. \E k \in DOMAIN inbox'[c] : inbox'[c][k] = <<u, heard[u]>>
    BY <1>10, <2>0 DEF J_Inv, J_Last
  <2>2. CASE u = s
    <3>1. PICK j \in H!Others(h_fd[s]) : H!Descriptors[j] = h_fd[c]
      BY <1>2, <2>0, <2>2, J_EverybodyElse
    <3>2. Waiting(c)'
      BY <1>1, <1>2, <1>4, <1>7, <3>1 DEF Waiting
    <3> QED BY <1>11, <2>1, <2>2, <3>2
  <2>3. CASE u # s
    BY <1>6, <1>11, <2>1, <2>3
  <2> QED BY <2>2, <2>3
<1>16. J_Welcomed' /\ J_Order'
  BY <1>1 DEF J_Inv, J_Welcomed, J_Order
<1> QED BY <1>9, <1>13, <1>14, <1>15, <1>16 DEF J_Inv

LEMMA J_Sends == ASSUME J_Inv, H_Inv, H!Send PROVE J_Inv'
<1> DEFINE m == H!Min(targets)
<1>1. /\ targets # {}
      /\ UNCHANGED <<polling, conn, h_left, said, h_fd, heard, table, master_set>>
  BY DEF H!Send, H!userVars, H!serverVars
<1>2. PICK s \in H!Open : /\ s = Speaker /\ s \in Users /\ Before \in Nat /\ pos \in Nat
                           /\ targets \subseteq H!Others(h_fd[s])
  BY <1>1 DEF J_Inv, J_Cast, J_TypeOK, H!Open
<1>3. PICK len \in Nat \ {0} : /\ h_out = [k \in 1 .. len |-> <<s, Before + k>>]
                               /\ Before + len = heard[s] /\ pos < len
  BY <1>1, <1>2 DEF J_Inv, J_Cast
<1>4. m \in targets
  <2>1. targets \in SUBSET Nat
    BY <1>2, J_Cells
  <2> QED BY <1>1, <2>1, H_Least
<1> HIDE DEF m
<1>5. PICK c \in H!Open : h_fd[c] = H!Descriptors[m] /\ h_fd[c] # h_fd[s]
  BY <1>2, <1>4, J_Cells
<1>6. /\ c \in Users /\ c # s /\ H!Target = c
      /\ \A j \in targets : H!Descriptors[j] = h_fd[c] => j = m
      /\ \A u \in H!Open : u # c => h_fd[u] # h_fd[c]
  <2>1. H!Target = c
    BY <1>5, H_UserOf DEF H!Target, m
  <2>2. \A j \in targets : H!Descriptors[j] = h_fd[c] => j = m
    BY <1>2, <1>4, <1>5, J_Cells
  <2> QED BY <1>5, <2>1, <2>2 DEF H!Open, H_Inv, H_Numbers
<1>7. PICK n : /\ n = IF c \in h_left THEN 0 ELSE H!Min({H!Room(c), Len(h_out) - pos})
               /\ LET sent == c \in h_left \/ polling = "epoll" \/ pos + n = Len(h_out)
                  IN  /\ sent \/ n > 0
                      /\ pos' = IF sent THEN 0 ELSE pos + n
                      /\ targets' = IF sent THEN targets \ {m} ELSE targets
                      /\ h_out' = IF sent /\ targets = {m} THEN <<>> ELSE h_out
               /\ inbox' = [inbox EXCEPT ![c] = inbox[c] \o SubSeq(h_out, pos + 1, pos + n)]
               /\ h_unread' = [h_unread EXCEPT ![c] = h_unread[c] + n]
  BY <1>6 DEF H!Send, m
<1>8. Len(h_out) = len /\ \A k \in 1 .. len : h_out[k] = <<s, Before + k>> /\ h_out[k] \in Users \X Nat
  BY <1>2, <1>3
<1>9. /\ n \in Nat /\ pos + n <= len /\ h_unread[c] + n \in 0 .. WINDOW
      /\ (n = 0 \/ c \notin h_left)
  <2>1. h_unread[c] \in 0 .. WINDOW /\ WINDOW \in Nat
    BY <1>6, J_Constants DEF J_Inv, J_TypeOK
  <2>2. CASE c \in h_left
    BY <1>2, <1>3, <1>7, <2>1, <2>2
  <2>3. CASE c \notin h_left
    <3> DEFINE a == WINDOW - h_unread[c]
               b == len - pos
    <3>1. a \in Int /\ b \in Int /\ a >= 0 /\ b >= 0 /\ h_unread[c] + a = WINDOW /\ pos + b = len
      BY <1>2, <1>3, <2>1
    <3>2. n = H!Min({a, b})
      BY <1>7, <1>8, <2>3 DEF H!Room
    <3> HIDE DEF a, b
    <3>3. n = IF a <= b THEN a ELSE b
      BY <3>1, <3>2, J_MinOfTwo
    <3> QED BY <1>2, <2>1, <2>3, <3>1, <3>3
  <2> QED BY <2>2, <2>3
<1> DEFINE r == Before + pos
           more == SubSeq(h_out, pos + 1, pos + n)
           sent == c \in h_left \/ polling = "epoll" \/ pos + n = len
<1>10. /\ r \in Nat /\ r + n <= heard[s]
       /\ more \in Seq(Users \X Nat) /\ Len(more) = n /\ \A i \in 1 .. n : more[i] = <<s, r + i>>
  <2>1. \A i \in pos + 1 .. pos + n : i \in 1 .. len
    BY <1>2, <1>3, <1>9
  <2>2. \A i \in pos + 1 .. pos + n : h_out[i] \in Users \X Nat
    BY <1>8, <2>1
  <2>3. pos + 1 \in Int /\ pos + n \in Int
    BY <1>2, <1>9
  <2>4. /\ more \in Seq(Users \X Nat)
        /\ Len(more) = IF pos + 1 <= pos + n THEN (pos + n) - (pos + 1) + 1 ELSE 0
        /\ \A i \in 1 .. (pos + n) - (pos + 1) + 1 : more[i] = h_out[(pos + 1) + i - 1]
    BY <2>2, <2>3, SubSeqProperties
  <2>5. Len(more) = n
    BY <1>2, <1>9, <2>4
  <2>6. ASSUME NEW i \in 1 .. n PROVE more[i] = <<s, r + i>>
    <3>1. i \in 1 .. (pos + n) - (pos + 1) + 1 /\ (pos + 1) + i - 1 = pos + i
          /\ pos + i \in 1 .. len /\ Before + (pos + i) = r + i
      BY <1>2, <1>3, <1>9
    <3>2. more[i] = h_out[pos + i] /\ h_out[pos + i] = <<s, Before + (pos + i)>>
      BY <1>8, <2>4, <3>1
    <3> QED BY <3>1, <3>2
  <2>7. r \in Nat /\ r + n <= heard[s]
    BY <1>2, <1>3, <1>9
  <2> QED BY <2>4, <2>5, <2>6, <2>7
<1>11. Waiting(c) /\ Reached(c, s) = r
  BY <1>2, <1>4, <1>5 DEF Waiting, Reached, m
<1> HIDE DEF r, more
<1>12. /\ \A k \in DOMAIN inbox[c] : inbox[c][k][1] = s => inbox[c][k][2] <= r
       /\ inbox[c] \in Seq(Users \X Nat) /\ inbox[c] # <<>> /\ InOrder(inbox[c], c, polling)
       /\ polling = "select" /\ n > 0 /\ (\E k \in DOMAIN inbox[c] : inbox[c][k][1] = s)
             => \E k \in DOMAIN inbox[c] : inbox[c][k] = <<s, r>>
  <2>1. \A k \in DOMAIN inbox[c] : inbox[c][k][1] = s => inbox[c][k][2] <= r
    BY <1>6, <1>11 DEF J_Inv, J_Upto
  <2>2. inbox[c] \in Seq(Users \X Nat) /\ inbox[c] # <<>> /\ InOrder(inbox[c], c, polling)
    BY <1>5, <1>6 DEF J_Inv, J_TypeOK, J_Welcomed, J_Order, H!Open
  <2>3. ASSUME polling = "select", n > 0, \E k \in DOMAIN inbox[c] : inbox[c][k][1] = s
        PROVE  \E k \in DOMAIN inbox[c] : inbox[c][k] = <<s, r>>
    <3>1. c \in H!Open \ h_left
      BY <1>5, <1>9, <2>3
    <3> QED BY <1>2, <1>6, <1>11, <2>3, <3>1 DEF J_Inv, J_Last
  <2> QED BY <2>1, <2>2, <2>3
<1> DEFINE new == inbox[c] \o more
<1>13. InOrder(new, c, polling) /\ Longer(new, inbox[c], s, r, n)
  <2>1. Fits(inbox[c], more, c, s, r, n, polling)
    BY <1>2, <1>6, <1>9, <1>10, <1>12 DEF Fits
  <2> QED BY ONLY <2>1, J_Appends
<1>14. inbox' = [inbox EXCEPT ![c] = new]
  BY <1>7 DEF more
<1> HIDE DEF new
<1>15. /\ inbox'[c] = new /\ \A u \in Users : u # c => inbox'[u] = inbox[u]
       /\ inbox' \in [Users -> Seq(Users \X Nat)]
  BY <1>6, <1>13, <1>14 DEF J_Inv, J_TypeOK, Longer
<1>16. \/ sent /\ pos' = 0 /\ targets' = targets \ {m} /\ (targets' = {} \/ h_out' = h_out)
       \/ /\ ~sent /\ n > 0 /\ pos' = pos + n /\ UNCHANGED <<targets, h_out>>
          /\ polling = "select" /\ pos + n < len
  <2>1. polling \in {"epoll", "select"}
    BY DEF H_Inv, H_TypeOK
  <2>2. CASE sent
    BY <1>7, <1>8, <2>2
  <2>3. CASE ~sent
    BY <1>2, <1>3, <1>7, <1>8, <1>9, <2>1, <2>3
  <2> QED BY <2>2, <2>3
<1> HIDE DEF sent
<1>17. /\ H!Open' = H!Open /\ H!Descriptors' = H!Descriptors /\ \A e : H!Others(e)' = H!Others(e)
       /\ targets' \subseteq targets /\ (targets' # {} => Speaker' = s /\ Before' = Before)
  <2>1. H!Open' = H!Open /\ H!Descriptors' = H!Descriptors /\ \A e : H!Others(e)' = H!Others(e)
    BY <1>1 DEF H!Open, H!Descriptors, H!Others, H!Holds
  <2>2. targets' # {} => h_out' = h_out
    BY <1>16
  <2> QED BY <1>2, <1>16, <2>1, <2>2 DEF Speaker, Before
<1>18. J_Cast'
  <2>1. CASE targets' = {}
    <3>1. pos' = 0
      BY <1>1, <1>16, <2>1
    <3> QED BY <2>1, <3>1 DEF J_Cast
  <2>2. CASE targets' # {}
    <3>1. h_out' = h_out /\ pos' < len
      BY <1>3, <1>16, <2>2
    <3>2. Speaker' = s /\ Before' = Before /\ Speaker' \in H!Open' /\ h_fd'[Speaker'] = h_fd[s]
      BY <1>1, <1>2, <1>17, <2>2
    <3>3. targets' \subseteq H!Others(h_fd[Speaker])'
      BY <1>2, <1>17, <3>2
    <3> QED BY <1>1, <1>2, <1>3, <2>2, <3>1, <3>2, <3>3 DEF J_Cast
  <2> QED BY <2>1, <2>2
<1>19. ASSUME NEW u \in Users, u # c, NEW v \in Users PROVE Reached(u, v)' = Reached(u, v)
  <2>1. u \in H!Open => h_fd[u] # h_fd[c]
    BY <1>6, <1>19
  <2>2. Waiting(u)' <=> Waiting(u)
    <3>1. ASSUME Waiting(u) PROVE Waiting(u)'
      <4>1. PICK j \in targets : H!Descriptors[j] = h_fd[u] /\ u \in H!Open
        BY <3>1 DEF Waiting
      <4>2. j # m
        BY <1>5, <2>1, <4>1
      <4>3. j \in targets'
        BY <1>16, <4>2
      <4> QED BY <1>1, <1>17, <4>1, <4>3 DEF Waiting
    <3>2. ASSUME Waiting(u)' PROVE Waiting(u)
      BY <1>1, <1>17, <3>2 DEF Waiting
    <3> QED BY <3>1, <3>2
  <2>3. CASE ~Waiting(u)
    BY <1>1, <2>2, <2>3 DEF Reached
  <2>4. CASE Waiting(u)
    <3>1. targets' # {} /\ u \in H!Open
      BY <2>2, <2>4 DEF Waiting
    <3>2. Reached(u, v) = IF v = s THEN Before ELSE heard[v]
      BY <1>2, <1>5, <2>1, <2>4, <3>1 DEF Reached, m
    <3>3. Reached(u, v)' = IF v = s THEN Before ELSE heard[v]
      <4>1. Speaker' = s /\ Before' = Before
        BY <1>17, <3>1
      <4>2. pos' = 0 \/ h_fd[u] # H!Descriptors[H!Min(targets')]
        BY <1>5, <1>16, <2>1, <3>1 DEF m
      <4> QED BY <1>1, <1>2, <1>17, <2>2, <2>4, <4>1, <4>2 DEF Reached
    <3> QED BY <3>2, <3>3
  <2> QED BY <2>3, <2>4
<1>20. \A v \in Users : v # s => Reached(c, v) = heard[v] /\ Reached(c, v)' = heard[v]
  <2> SUFFICES ASSUME NEW v \in Users, v # s
               PROVE  Reached(c, v) = heard[v] /\ Reached(c, v)' = heard[v]
    OBVIOUS
  <2>1. Waiting(c)' => Speaker' = s
    BY <1>17 DEF Waiting
  <2> QED BY <1>1, <1>2, <2>1 DEF Reached
<1>21. /\ Reached(c, s)' \in Nat /\ Reached(c, s)' >= r + n
       /\ polling = "select" /\ c \notin h_left => Reached(c, s)' = r + n /\ n > 0
  <2>1. CASE sent /\ targets' = targets \ {m}
    <3>1. ~Waiting(c)'
      BY <1>1, <1>6, <1>17, <2>1 DEF Waiting
    <3>2. Reached(c, s)' = heard[s]
      BY <1>1, <3>1 DEF Reached
    <3>3. heard[s] \in Nat /\ heard[s] >= r + n
      BY <1>2, <1>9, <1>10 DEF J_Inv, J_TypeOK
    <3>4. ASSUME polling = "select", c \notin h_left PROVE heard[s] = r + n /\ n > 0
      <4>1. pos + n = len
        BY <2>1, <3>4 DEF sent
      <4>2. Before \in Nat /\ pos \in Nat /\ n \in Nat /\ pos < len /\ heard[s] = Before + len
        BY <1>2, <1>3, <1>9
      <4>3. n > 0 /\ heard[s] = (Before + pos) + n
        BY ONLY <4>1, <4>2, len \in Nat
      <4> QED BY <4>3 DEF r
    <3> QED BY <3>2, <3>3, <3>4
  <2>2. CASE ~sent /\ n > 0 /\ pos' = pos + n /\ UNCHANGED <<targets, h_out>>
    <3>1. Speaker' = s /\ Before' = Before /\ H!Min(targets') = m
      BY <1>1, <1>17, <2>2 DEF m
    <3>2. Waiting(c)' /\ h_fd'[c] = H!Descriptors'[H!Min(targets')]
      BY <1>1, <1>4, <1>5, <1>17, <2>2, <3>1 DEF Waiting
    <3>3. Reached(c, s)' = Before + (pos + n)
      BY <2>2, <3>1, <3>2 DEF Reached
    <3>4. Before + (pos + n) = r + n /\ r + n \in Nat
      BY <1>2, <1>9, <1>10 DEF r
    <3> QED BY <2>2, <3>3, <3>4
  <2> QED BY <1>16, <2>1, <2>2
<1>22. J_TypeOK'
  <2>1. h_unread' \in [Users -> 0 .. WINDOW]
    BY <1>6, <1>7, <1>9 DEF J_Inv, J_TypeOK
  <2>2. pos' \in Nat
    BY <1>2, <1>9, <1>16
  <2> QED BY <1>1, <1>15, <2>1, <2>2 DEF J_Inv, J_TypeOK
<1>23. J_Welcomed'
  BY <1>1, <1>5, <1>13, <1>15 DEF J_Inv, J_Welcomed, H!Open, Longer
<1>24. J_Upto'
  <2> SUFFICES ASSUME NEW u \in Users, NEW k \in DOMAIN inbox'[u], NEW v \in Users, NEW x \in Nat,
                      inbox'[u][k] = <<v, x>>
               PROVE  x <= Reached(u, v)'
    <3>1. \A u \in Users : \A k \in DOMAIN inbox'[u] : inbox'[u][k] \in Users \X Nat
      BY <1>15
    <3>2. \A u \in Users : \A k \in DOMAIN inbox'[u] : \E v \in Users, x \in Nat : inbox'[u][k] = <<v, x>>
      BY <3>1
    <3> QED BY <3>2 DEF J_Upto
  <2>1. CASE u # c
    <3>1. inbox'[u] = inbox[u] /\ k \in DOMAIN inbox[u] /\ inbox[u][k] = <<v, x>>
      BY <1>15, <2>1
    <3>2. x <= Reached(u, v)
      BY <3>1 DEF J_Inv, J_Upto
    <3> QED BY <1>19, <2>1, <3>2
  <2>2. CASE u = c /\ v = s
    <3>1. k \in DOMAIN new /\ new[k] = <<s, x>>
      BY <1>15, <2>2
    <3>2. x <= r \/ x <= r + n
      BY <1>12, <1>13, <3>1 DEF Longer
    <3>3. x <= r + n
      BY <1>9, <1>10, <3>2
    <3>4. Reached(c, s)' \in Nat /\ Reached(c, s)' >= r + n
      BY <1>21
    <3> QED BY <1>9, <1>10, <2>2, <3>3, <3>4
  <2>3. CASE u = c /\ v # s
    <3>1. k \in DOMAIN new /\ new[k] = <<v, x>>
      BY <1>15, <2>3
    <3>2. k \in DOMAIN inbox[c] /\ inbox[c][k] = <<v, x>>
      BY <1>13, <2>3, <3>1 DEF Longer
    <3>3. x <= Reached(c, v)
      BY <1>6, <3>2 DEF J_Inv, J_Upto
    <3> QED BY <1>20, <2>3, <3>3
  <2> QED BY <2>1, <2>2, <2>3
<1>25. J_Last'
  <2> SUFFICES ASSUME polling = "select", NEW u \in H!Open \ h_left, NEW v \in Users, v # u,
                      \E k \in DOMAIN inbox'[u] : inbox'[u][k][1] = v
               PROVE  \E k \in DOMAIN inbox'[u] : inbox'[u][k] = <<v, Reached(u, v)'>>
    BY <1>1, <1>17 DEF J_Last
  <2>1. u \in Users
    BY DEF H!Open
  <2>2. CASE u # c
    <3>1. inbox'[u] = inbox[u] /\ Reached(u, v)' = Reached(u, v)
      BY <1>15, <1>19, <2>1, <2>2
    <3> QED BY <3>1 DEF J_Inv, J_Last
  <2>3. CASE u = c /\ v = s
    <3>1. Reached(c, s)' = r + n /\ n > 0
      BY <1>21, <2>3
    <3> QED BY <1>13, <1>15, <2>3, <3>1 DEF Longer
  <2>4. CASE u = c /\ v # s
    <3>1. \E k \in DOMAIN inbox[c] : inbox[c][k][1] = v
      BY <1>13, <1>15, <2>4 DEF Longer
    <3>2. PICK k \in DOMAIN inbox[c] : inbox[c][k] = <<v, Reached(c, v)>>
      BY <2>4, <3>1 DEF J_Inv, J_Last
    <3>3. k \in DOMAIN new /\ new[k] = <<v, Reached(c, v)'>>
      BY <1>13, <1>20, <2>4, <3>2 DEF Longer
    <3> QED BY <1>15, <2>4, <3>3
  <2> QED BY <2>2, <2>3, <2>4
<1>26. J_Order'
  <2>1. \A u \in Users : InOrder(inbox'[u], u, polling)
    BY <1>13, <1>15 DEF J_Inv, J_Order
  <2> QED BY <1>1, <2>1 DEF J_Order
<1> QED BY <1>18, <1>22, <1>23, <1>24, <1>25, <1>26 DEF J_Inv

LEMMA J_InvStep == J_Inv /\ H_Inv /\ [H!Next]_(H!vars) => J_Inv'
<1> SUFFICES ASSUME J_Inv, H_Inv, [H!Next]_(H!vars) PROVE J_Inv'
  OBVIOUS
<1>1. CASE H!Poll \/ UNCHANGED H!vars
  <2>1. UNCHANGED <<polling, conn, h_left, h_fd, said, heard, inbox, h_unread, table, master_set,
                    h_out, targets, pos>>
    BY <1>1 DEF H!Poll, H!vars, H!userVars, H!serverVars, H!cast
  <2>2. H!Open' = H!Open /\ J_TypeOK' /\ J_Welcomed'
    BY <2>1 DEF J_Inv, H!Open, J_TypeOK, J_Welcomed
  <2> QED BY <2>1, <2>2, J_Quiet
<1> QED BY <1>1, J_UserSteps, J_Accepts, J_Sends, J_Disconnects, J_Receives
        DEF H!Next, H!ServerStep

\* Whoever speaks, reads slowly, leaves or joins while a broadcast is under way,
\* every user of both chat servers is welcomed first and then sees what another one
\* says in order, never twice and never its own, and with select without a gap
\* (epoll_chat.c:177-185, select_chat.c:83-85, 108-118), for any users, socket
\* buffers and lengths of a recv().
THEOREM ChatsAreInOrder == H!Spec => []HeardInOrder
<1>1. J_Inv => HeardInOrder
  BY DEF J_Inv, J_Order, InOrder, HeardInOrder, H!HeardInOrder
<1> QED BY <1>1, H_InvInit, H_InvStep, J_Init, J_InvStep, PTL DEF H!Spec
==============================================================================
