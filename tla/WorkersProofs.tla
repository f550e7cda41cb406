---------------------------- MODULE WorkersProofs ----------------------------
(***************************************************************************)
(* The two servers with an acceptor and workers, for any number of         *)
(* clients, cores and descriptors.                                         *)
(***************************************************************************)
EXTENDS MCServers, SumLemmas, SequenceTheorems, WellFoundedInduction

-----------------------------------------------------------------------------
(* dumb_epoll_workers.c *)

E_TypeOK ==
    /\ client \in [Clients -> {"new", "open", "sent", "answered", "left", "reset"}]
    /\ unread \in SUBSET Clients
    /\ backlog \in Seq(Clients)
    /\ owner \in [Fds -> Clients \cup {None, Self}]
    /\ ctx \in [Fds -> {"STALE", "READ", "WRITE"}]
    /\ \E n \in Cores : Workers = 0 .. n - 1
    /\ epoll \in [Workers -> SUBSET Fds]
    /\ apc \in {"accept", "init", "add", "count"} /\ rr_counter \in Nat
    /\ wpc \in [Workers -> {"wait", "handle", "del", "close", "sub"}]
    /\ wfd \in [Workers -> Fds \cup {None}] /\ batch \in [Workers -> SUBSET Fds]
    /\ active_connections \in [Workers -> Int]

\* From epoll_ctl(ADD) to close() a descriptor is the worker's.
Has(w, fd) == fd \in epoll[w] \/ (wpc[w] = "close" /\ wfd[w] = fd)

\* What a worker has is open and nobody else's, the acceptor's included.
E_Alone ==
    /\ \A w \in Workers, fd \in Fds : Has(w, fd) => owner[fd] \in Clients
    /\ \A v, w \in Workers, fd \in Fds : Has(v, fd) /\ Has(w, fd) => v = w
    /\ apc \in {"init", "add"} => /\ afd \in Fds /\ owner[afd] \in Clients
                                  /\ \A w \in Workers : ~Has(w, afd)

\* events[] holds registered descriptors, and not the one in hand.
E_Batch ==
    \A w \in Workers :
        /\ batch[w] \subseteq epoll[w]
        /\ wpc[w] \in {"handle", "del"} => wfd[w] \in epoll[w] \ batch[w]
        /\ wpc[w] = "close" => wfd[w] \in Fds \ epoll[w]

\* A client is in the queue or has one descriptor.
E_Clients ==
    /\ \A fd, gd \in Fds : owner[fd] = owner[gd] /\ owner[fd] \in Clients => fd = gd
    /\ \A i \in 1 .. Len(backlog) :
          /\ client[backlog[i]] # "new"
          /\ \A fd \in Fds : owner[fd] # backlog[i]
          /\ \A j \in 1 .. Len(backlog) : backlog[i] = backlog[j] => i = j
    /\ \A fd \in Fds : owner[fd] \in Clients => client[owner[fd]] # "new"

\* The context of a descriptor a worker may be told of is its client's.
E_Context ==
    /\ \A c \in unread : client[c] \in {"sent"} \cup Gone
    /\ apc = "add" => ctx[afd] = "READ"
    /\ \A w \in Workers : \A fd \in epoll[w] :
          /\ ctx[fd] # "STALE"
          /\ ctx[fd] = "WRITE" => client[owner[fd]] \in {"sent"} \cup Gone /\ owner[fd] \notin unread

E_Inv == E_TypeOK /\ E_Alone /\ E_Batch /\ E_Clients /\ E_Context

\* A number has one remainder.
LEMMA ModUnique == ASSUME NEW m \in Nat \ {0}, NEW q \in Int, NEW r \in 0 .. m - 1
                   PROVE  (m * q + r) % m = r
<1> DEFINE a == m * q + r
           p == a \div m
           s == a % m
<1>1. a \in Int /\ p \in Int /\ s \in 0 .. m - 1 /\ a = m * p + s
  BY SMTT(30)
<1>2. m * (p - q) = r - s
  BY <1>1, SMTT(30)
<1>3. p - q = 0
  <2>1. CASE p - q >= 1
    <3>1. m * (p - q) >= m
      BY <1>1, <2>1, SMTT(30)
    <3> QED BY <1>1, <1>2, <3>1
  <2>2. CASE p - q <= -1
    <3>1. m * (p - q) <= -m
      BY <1>1, <2>2, SMTT(30)
    <3> QED BY <1>1, <1>2, <3>1
  <2> QED BY <1>1, <2>1, <2>2
<1> QED BY <1>1, <1>2, <1>3

\* Counting up and down modulo m.
LEMMA ModStep == ASSUME NEW m \in Nat \ {0}, NEW x \in Int
                 PROVE  /\ ((x % m) + 1) % m = (x + 1) % m
                        /\ ((x % m) - 1) % m = (x - 1) % m
                        /\ x % m \in 0 .. m - 1
<1> DEFINE q == x \div m
           r == x % m
<1>1. q \in Int /\ r \in 0 .. m - 1 /\ x = m * q + r
  BY SMTT(30)
<1> HIDE DEF q, r
<1>2. (r + 1) % m = (x + 1) % m
  <2>1. CASE r + 1 < m
    <3>1. r + 1 \in 0 .. m - 1 /\ x + 1 = m * q + (r + 1) /\ r + 1 = m * 0 + (r + 1)
      BY <1>1, <2>1
    <3>2. (m * q + (r + 1)) % m = r + 1 /\ (m * 0 + (r + 1)) % m = r + 1
      BY <3>1, <1>1, ModUnique
    <3> QED BY <3>1, <3>2
  <2>2. CASE r + 1 = m
    <3>1. x + 1 = m * (q + 1) + 0 /\ r + 1 = m * 1 + 0 /\ q + 1 \in Int
      BY <1>1, <2>2, SMTT(30)
    <3>2. 0 \in 0 .. m - 1 /\ 1 \in Int
      OBVIOUS
    <3>3. (m * (q + 1) + 0) % m = 0
      BY <3>1, <3>2, ModUnique
    <3>4. (m * 1 + 0) % m = 0
      BY <3>2, ModUnique
    <3> QED BY <3>1, <3>3, <3>4
  <2> QED BY <1>1, <2>1, <2>2
<1>3. (r - 1) % m = (x - 1) % m
  <2>1. CASE r >= 1
    <3>1. r - 1 \in 0 .. m - 1 /\ x - 1 = m * q + (r - 1) /\ r - 1 = m * 0 + (r - 1)
      BY <1>1, <2>1
    <3>2. (m * q + (r - 1)) % m = r - 1 /\ (m * 0 + (r - 1)) % m = r - 1
      BY <3>1, <1>1, ModUnique
    <3> QED BY <3>1, <3>2
  <2>2. CASE r = 0
    <3>1. /\ x - 1 = m * (q - 1) + (m - 1) /\ r - 1 = m * (-1) + (m - 1)
          /\ q - 1 \in Int /\ m - 1 \in 0 .. m - 1
      BY <1>1, <2>2, SMTT(30)
    <3>2. (m * (q - 1) + (m - 1)) % m = m - 1
      BY <3>1, ModUnique
    <3>3. -1 \in Int
      OBVIOUS
    <3>4. (m * (-1) + (m - 1)) % m = m - 1
      BY <3>1, <3>3, ModUnique
    <3> QED BY <3>1, <3>2, <3>4
  <2> QED BY <1>1, <2>1, <2>2
<1> QED BY <1>1, <1>2, <1>3 DEF r

\* A set of descriptors has a least one.
LEMMA LeastFd == ASSUME NEW S \in SUBSET Nat, S # {}
                 PROVE  Min(S) \in S
<1>1. PICK x \in S : \A y \in S : ~(<<y, x>> \in OpToRel(<, Nat))
  BY NatLessThanWellFounded, WFMin
<1>2. \A y \in S : ~(y < x)
  BY <1>1 DEF OpToRel
<1>3. \A y \in S : x <= y
  BY <1>2
<1> QED BY <1>3 DEF Min

LEMMA E_Facts ==
    /\ None \notin Clients /\ Self \notin Clients /\ None \notin Fds /\ None # Self
    /\ Fds \subseteq Nat /\ \A n \in Cores : n \in Nat \ {0}
    /\ ULL \in Nat \ {0} /\ IsFiniteSet(Fds) /\ IsFiniteSet(Clients)
<1>1. OpenMax \in Nat \ {0} /\ Fds = 0 .. OpenMax - 1
  BY WorkersAssumption DEF Fds
<1>2. IsFiniteSet(Fds)
  BY <1>1, FS_Interval
<1> QED BY <1>1, <1>2, WorkersAssumption

LEMMA TargetIsWorker == E_TypeOK => target_worker \in Workers
<1> SUFFICES ASSUME E_TypeOK PROVE target_worker \in Workers
  OBVIOUS
<1>1. PICK n \in Cores : Workers = 0 .. n - 1
  BY DEF E_TypeOK
<1>2. n \in Nat \ {0} /\ rr_counter \in Nat
  BY E_Facts DEF E_TypeOK
<1>3. num_cores = n
  <2>1. Cardinality(0 .. n - 1) = n
    BY <1>2, FS_Interval
  <2> QED BY <1>1, <2>1 DEF num_cores
<1>4. rr_counter % n \in 0 .. n - 1
  BY <1>2
<1> QED BY <1>1, <1>3, <1>4 DEF target_worker

LEMMA E_InvInit == Init => E_Inv
<1> SUFFICES ASSUME Init PROVE E_Inv
  OBVIOUS
<1> USE E_Facts
<1>1. PICK n \in Cores : epoll = [w \in 0 .. n - 1 |-> {}]
  BY DEF Init
<1>2. Workers = 0 .. n - 1 /\ \A w \in Workers : epoll[w] = {}
  BY <1>1 DEF Workers
<1>3. PICK m \in OwnFds : owner = [fd \in Fds |-> IF fd < m THEN Self ELSE None]
  BY DEF Init
<1>4. E_TypeOK
  BY <1>1, <1>2, <1>3 DEF Init, E_TypeOK
<1>5. \A w \in Workers : wpc[w] = "wait" /\ batch[w] = {}
  BY DEF Init
<1>6. \A fd \in Fds : owner[fd] \notin Clients
  BY <1>3
<1>7. apc = "accept" /\ Len(backlog) = 0 /\ unread = {}
  BY DEF Init
<1> QED BY <1>2, <1>4, <1>5, <1>6, <1>7 DEF E_Inv, E_Alone, E_Batch, E_Clients, E_Context, Has

\* What a client does changes nothing but client, unread and backlog.
LEMMA E_ClientSteps ==
    ASSUME E_Inv, NEW c \in Clients,
           Connect(c) \/ SendRequest(c) \/ \E how \in Gone : Leave(c, how)
    PROVE  E_Inv'
<1> USE E_Facts
<1>1. E_TypeOK /\ E_Alone /\ E_Batch /\ E_Clients /\ E_Context
  BY DEF E_Inv
<1>2. /\ UNCHANGED <<owner, ctx, epoll, apc, afd, rr_counter, wpc, wfd, batch, active_connections>>
      /\ Workers' = Workers
  BY DEF Connect, SendRequest, Leave, acceptorVars, workerVars, Workers
<1>3. E_Alone' /\ E_Batch'
  BY <1>1, <1>2 DEF E_Alone, E_Batch, Has
<1>4. CASE Connect(c)
  <2>1. /\ client[c] = "new" /\ client' = [client EXCEPT ![c] = "open"]
        /\ backlog' = Append(backlog, c) /\ unread' = unread
    BY <1>4 DEF Connect
  <2>2. E_TypeOK'
    BY <1>1, <1>2, <2>1 DEF E_TypeOK
  <2>3. backlog \in Seq(Clients) /\ client \in [Clients -> {"new", "open", "sent", "answered", "left", "reset"}]
    BY <1>1 DEF E_TypeOK
  <2>4. /\ Len(backlog) \in Nat /\ Len(backlog') = Len(backlog) + 1
        /\ backlog'[Len(backlog) + 1] = c
        /\ \A i \in 1 .. Len(backlog) : backlog'[i] = backlog[i] /\ backlog[i] \in Clients
    BY <2>1, <2>3
  <2>5. \A d \in Clients : client'[d] # "new" <=> client[d] # "new" \/ d = c
    BY <2>1, <2>3
  <2>6. /\ \A fd \in Fds : owner[fd] # c
        /\ \A i \in 1 .. Len(backlog) : backlog[i] # c
    BY <1>1, <2>1, <2>4 DEF E_Clients
  <2>7. E_Clients'
    <3>1. \A i \in 1 .. Len(backlog') : \/ i \in 1 .. Len(backlog)
                                         \/ i = Len(backlog) + 1
      BY <2>4
    <3>2. ASSUME NEW i \in 1 .. Len(backlog')
          PROVE  /\ client'[backlog'[i]] # "new" /\ \A fd \in Fds : owner'[fd] # backlog'[i]
                 /\ \A j \in 1 .. Len(backlog') : backlog'[i] = backlog'[j] => i = j
      BY <1>1, <1>2, <2>4, <2>5, <2>6, <3>1 DEF E_Clients
    <3>3. \A fd \in Fds : owner'[fd] \in Clients => client'[owner'[fd]] # "new"
      BY <1>1, <1>2, <2>5 DEF E_Clients
    <3> QED BY <1>1, <1>2, <3>2, <3>3 DEF E_Clients
  <2>8. E_Context'
    BY <1>1, <1>2, <2>1, <2>3, <2>6 DEF E_Context, E_Alone, Has, E_TypeOK, Gone
  <2> QED BY <1>3, <2>2, <2>7, <2>8 DEF E_Inv
<1>5. CASE SendRequest(c)
  <2>1. /\ client[c] = "open" /\ client' = [client EXCEPT ![c] = "sent"]
        /\ backlog' = backlog /\ unread' = unread \cup {c}
    BY <1>5 DEF SendRequest
  <2>2. E_TypeOK'
    BY <1>1, <1>2, <2>1 DEF E_TypeOK
  <2>3. E_Clients'
    BY <1>1, <1>2, <2>1 DEF E_Clients, E_TypeOK
  <2>4. E_Context'
    BY <1>1, <1>2, <2>1 DEF E_Context, E_Alone, Has, E_TypeOK, Gone
  <2> QED BY <1>3, <2>2, <2>3, <2>4 DEF E_Inv
<1>6. ASSUME NEW how \in Gone, Leave(c, how) PROVE E_Inv'
  <2>1. /\ client[c] \in {"open", "sent", "answered"} /\ client' = [client EXCEPT ![c] = how]
        /\ backlog' = backlog /\ unread' = unread
    BY <1>6 DEF Leave
  <2>2. E_TypeOK'
    BY <1>1, <1>2, <2>1, <1>6 DEF E_TypeOK, Gone
  <2>3. E_Clients'
    BY <1>1, <1>2, <2>1, <1>6 DEF E_Clients, E_TypeOK, Gone
  <2>4. E_Context'
    BY <1>1, <1>2, <2>1, <1>6 DEF E_Context, E_Alone, Has, E_TypeOK, Gone
  <2> QED BY <1>3, <2>2, <2>3, <2>4 DEF E_Inv
<1> QED BY <1>4, <1>5, <1>6

LEMMA E_AcceptorSteps == ASSUME E_Inv, AcceptorStep PROVE E_Inv'
<1> USE E_Facts
<1>1. E_TypeOK /\ E_Alone /\ E_Batch /\ E_Clients /\ E_Context
  BY DEF E_Inv
<1>2. CASE Accept
  <2> DEFINE fd == Min(FreeFds)
             c  == Head(backlog)
  <2>1. /\ apc = "accept" /\ apc' = "init" /\ afd' = fd /\ backlog # <<>> /\ FreeFds # {}
        /\ owner' = [owner EXCEPT ![fd] = c] /\ backlog' = Tail(backlog)
        /\ UNCHANGED <<client, unread, ctx, epoll, rr_counter, wpc, wfd, batch, active_connections>>
        /\ Workers' = Workers
    BY <1>2 DEF Accept, clientVars, workerVars, Workers
  <2>2. fd \in Fds /\ owner[fd] = None
    <3>1. FreeFds \subseteq Fds /\ FreeFds \subseteq Nat
      BY DEF FreeFds
    <3>2. Min(FreeFds) \in FreeFds
      BY <2>1, <3>1, LeastFd
    <3> QED BY <3>2 DEF FreeFds
  <2>3. /\ backlog \in Seq(Clients) /\ Len(backlog) \in Nat /\ Len(backlog) # 0
        /\ c \in Clients /\ c = backlog[1]
        /\ Len(backlog') = Len(backlog) - 1 /\ backlog' \in Seq(Clients)
        /\ \A i \in 1 .. Len(backlog') : backlog'[i] = backlog[i + 1]
    BY <1>1, <2>1 DEF E_TypeOK
  <2> HIDE DEF fd, c
  <2>4. E_TypeOK'
    BY <1>1, <2>1, <2>2, <2>3 DEF E_TypeOK
  <2>5. \A w \in Workers : ~Has(w, fd)
    BY <1>1, <2>2 DEF E_Alone
  <2>6. \A gd \in Fds : owner'[gd] = IF gd = fd THEN c ELSE owner[gd]
    BY <1>1, <2>1, <2>2 DEF E_TypeOK
  <2>7. E_Alone'
    BY <1>1, <2>1, <2>2, <2>3, <2>5, <2>6 DEF E_Alone, Has
  <2>8. E_Batch'
    BY <1>1, <2>1 DEF E_Batch
  <2>9. E_Clients'
    <3>1. \A gd \in Fds : owner[gd] # c
      BY <1>1, <2>3 DEF E_Clients
    <3>2. \A i \in 1 .. Len(backlog') : i + 1 \in 1 .. Len(backlog) /\ backlog[i + 1] # c
      BY <1>1, <2>3 DEF E_Clients
    <3>3. ASSUME NEW i \in 1 .. Len(backlog')
          PROVE  /\ client'[backlog'[i]] # "new" /\ \A gd \in Fds : owner'[gd] # backlog'[i]
                 /\ \A j \in 1 .. Len(backlog') : backlog'[i] = backlog'[j] => i = j
      <4>1. client'[backlog'[i]] # "new" /\ \A gd \in Fds : owner'[gd] # backlog'[i]
        BY <1>1, <2>1, <2>3, <2>6, <3>2 DEF E_Clients
      <4>2. ASSUME NEW j \in 1 .. Len(backlog'), backlog'[i] = backlog'[j] PROVE i = j
        <5>1. i + 1 = j + 1
          BY <1>1, <2>3, <3>2, <4>2 DEF E_Clients
        <5> QED BY <5>1, <2>3
      <4> QED BY <4>1, <4>2
    <3>4. client[c] # "new"
      BY <1>1, <2>3 DEF E_Clients
    <3>5. \A gd \in Fds : owner'[gd] \in Clients => client'[owner'[gd]] # "new"
      BY <1>1, <2>1, <2>6, <3>4 DEF E_Clients
    <3>6. \A gd, hd \in Fds : owner'[gd] = owner'[hd] /\ owner'[gd] \in Clients => gd = hd
      BY <1>1, <2>6, <3>1 DEF E_Clients
    <3> QED BY <3>3, <3>5, <3>6 DEF E_Clients
  <2>10. E_Context'
    <3>1. \A w \in Workers : \A gd \in epoll[w] : owner'[gd] = owner[gd]
      BY <1>1, <2>5, <2>6, ZenonT(40) DEF Has, E_TypeOK
    <3> QED BY <1>1, <2>1, <3>1 DEF E_Context
  <2> QED BY <2>4, <2>7, <2>8, <2>9, <2>10 DEF E_Inv
<1>3. CASE AcceptTooHigh
  <2> DEFINE c == Head(backlog)
  <2>1. /\ apc = "accept" /\ backlog # <<>>
        /\ client' = [client EXCEPT ![c] = "reset"] /\ backlog' = Tail(backlog)
        /\ UNCHANGED <<unread, owner, ctx, epoll, apc, afd, rr_counter, wpc, wfd, batch, active_connections>>
        /\ Workers' = Workers
    BY <1>3 DEF AcceptTooHigh, acceptorVars, workerVars, Workers
  <2>2. /\ backlog \in Seq(Clients) /\ Len(backlog) \in Nat /\ Len(backlog) # 0
        /\ c \in Clients /\ c = backlog[1]
        /\ Len(backlog') = Len(backlog) - 1 /\ backlog' \in Seq(Clients)
        /\ \A i \in 1 .. Len(backlog') : backlog'[i] = backlog[i + 1]
    BY <1>1, <2>1 DEF E_TypeOK
  <2> HIDE DEF c
  <2>3. E_TypeOK'
    BY <1>1, <2>1, <2>2 DEF E_TypeOK
  <2>4. E_Alone' /\ E_Batch'
    BY <1>1, <2>1 DEF E_Alone, E_Batch, Has
  <2>5. \A d \in Clients : client'[d] = IF d = c THEN "reset" ELSE client[d]
    BY <1>1, <2>1 DEF E_TypeOK
  <2>6. E_Clients'
    <3>1. \A i \in 1 .. Len(backlog') : i + 1 \in 1 .. Len(backlog) /\ backlog'[i] \in Clients
      BY <2>2
    <3>2. ASSUME NEW i \in 1 .. Len(backlog')
          PROVE  /\ client'[backlog'[i]] # "new" /\ \A gd \in Fds : owner'[gd] # backlog'[i]
                 /\ \A j \in 1 .. Len(backlog') : backlog'[i] = backlog'[j] => i = j
      <4>1. client'[backlog'[i]] # "new" /\ \A gd \in Fds : owner'[gd] # backlog'[i]
        BY <1>1, <2>1, <2>2, <2>5, <3>1 DEF E_Clients
      <4>2. ASSUME NEW j \in 1 .. Len(backlog'), backlog'[i] = backlog'[j] PROVE i = j
        <5>1. i + 1 = j + 1
          BY <1>1, <2>2, <3>1, <4>2 DEF E_Clients
        <5> QED BY <5>1, <2>2
      <4> QED BY <4>1, <4>2
    <3>3. \A gd \in Fds : owner'[gd] \in Clients => client'[owner'[gd]] # "new"
      BY <1>1, <2>1, <2>5 DEF E_Clients
    <3> QED BY <1>1, <2>1, <3>2, <3>3 DEF E_Clients
  <2>7. E_Context'
    BY <1>1, <2>1, <2>5 DEF E_Context, E_Alone, Has, E_TypeOK, Gone
  <2> QED BY <2>3, <2>4, <2>6, <2>7 DEF E_Inv
<1>4. CASE InitClientCtx
  <2>1. /\ apc = "init" /\ apc' = "add" /\ ctx' = [ctx EXCEPT ![afd] = "READ"]
        /\ UNCHANGED <<client, unread, backlog, owner, epoll, afd, rr_counter, wpc, wfd, batch, active_connections>>
        /\ Workers' = Workers
    BY <1>4 DEF InitClientCtx, clientVars, workerVars, Workers
  <2>2. E_TypeOK'
    BY <1>1, <2>1 DEF E_TypeOK
  <2>3. E_Alone' /\ E_Batch' /\ E_Clients'
    BY <1>1, <2>1 DEF E_Alone, E_Batch, E_Clients, Has
  <2>4. E_Context'
    BY <1>1, <2>1 DEF E_Context, E_Alone, Has, E_TypeOK
  <2> QED BY <2>2, <2>3, <2>4 DEF E_Inv
<1>5. CASE AddToWorker
  <2> DEFINE t == target_worker
  <2>1. /\ apc = "add" /\ apc' = "count" /\ epoll' = [epoll EXCEPT ![t] = @ \cup {afd}]
        /\ UNCHANGED <<client, unread, backlog, owner, ctx, afd, rr_counter, wpc, wfd, batch, active_connections>>
        /\ Workers' = Workers
    BY <1>5 DEF AddToWorker, clientVars, workerVars, Workers
  <2>2. t \in Workers
    BY <1>1, TargetIsWorker
  <2> HIDE DEF t
  <2>3. /\ afd \in Fds /\ owner[afd] \in Clients /\ (\A w \in Workers : ~Has(w, afd)) /\ ctx[afd] = "READ"
    BY <1>1, <2>1 DEF E_Alone, E_Context
  <2>4. \A w \in Workers : epoll'[w] = IF w = t THEN epoll[w] \cup {afd} ELSE epoll[w]
    BY <1>1, <2>1, <2>2 DEF E_TypeOK
  <2>5. E_TypeOK'
    <3>1. epoll' \in [Workers -> SUBSET Fds]
      BY <1>1, <2>1, <2>3 DEF E_TypeOK
    <3> QED BY <1>1, <2>1, <3>1 DEF E_TypeOK
  <2>6. E_Alone'
    BY <1>1, <2>1, <2>3, <2>4 DEF E_Alone, Has
  <2>7. E_Batch'
    BY <1>1, <2>1, <2>3, <2>4 DEF E_Batch, Has
  <2>8. E_Clients'
    BY <1>1, <2>1 DEF E_Clients
  <2>9. E_Context'
    BY <1>1, <2>1, <2>3, <2>4 DEF E_Context
  <2> QED BY <2>5, <2>6, <2>7, <2>8, <2>9 DEF E_Inv
<1>6. CASE CountConnection
  <2>1. /\ apc = "count" /\ apc' = "accept" /\ rr_counter' = rr_counter + 1
        /\ active_connections' = [active_connections EXCEPT ![target_worker] = (@ + 1) % ULL]
        /\ UNCHANGED <<client, unread, backlog, owner, ctx, epoll, wpc, wfd, batch>>
        /\ Workers' = Workers
    BY <1>6 DEF CountConnection, clientVars, workerVars, Workers
  <2>2. E_TypeOK'
    <3>1. target_worker \in Workers /\ active_connections[target_worker] + 1 \in Int
      BY <1>1, TargetIsWorker DEF E_TypeOK
    <3>2. (active_connections[target_worker] + 1) % ULL \in Int
      BY <3>1
    <3>3. active_connections' \in [Workers -> Int]
      BY <1>1, <2>1, <3>1, <3>2 DEF E_TypeOK
    <3> QED BY <1>1, <2>1, <3>3 DEF E_TypeOK
  <2>3. E_Alone' /\ E_Batch' /\ E_Clients' /\ E_Context'
    BY <1>1, <2>1 DEF E_Alone, E_Batch, E_Clients, E_Context, Has
  <2> QED BY <2>2, <2>3 DEF E_Inv
<1> QED BY <1>2, <1>3, <1>4, <1>5, <1>6 DEF AcceptorStep

LEMMA E_WorkerSteps == ASSUME E_Inv, NEW w \in Workers, WorkerStep(w) PROVE E_Inv'
<1> USE E_Facts
<1>1. E_TypeOK /\ E_Alone /\ E_Batch /\ E_Clients /\ E_Context
  BY DEF E_Inv
<1>2. CASE NextEvent(w)
  <2> DEFINE evs == IF batch[w] # {} THEN batch[w] ELSE {fd \in epoll[w] : Ready(fd)}
  <2>1. PICK fd \in evs : /\ wfd' = [wfd EXCEPT ![w] = fd]
                          /\ batch' = [batch EXCEPT ![w] = evs \ {fd}]
    BY <1>2 DEF NextEvent
  <2>2. /\ wpc[w] = "wait" /\ wpc' = [wpc EXCEPT ![w] = "handle"]
        /\ UNCHANGED <<client, unread, backlog, owner, ctx, epoll, apc, afd, rr_counter, active_connections>>
        /\ Workers' = Workers
    BY <1>2 DEF NextEvent, clientVars, acceptorVars, Workers
  <2>3. evs \subseteq epoll[w] /\ epoll[w] \subseteq Fds
    BY <1>1 DEF E_Batch, E_TypeOK
  <2> HIDE DEF evs
  <2>4. E_TypeOK'
    BY <1>1, <2>1, <2>2, <2>3 DEF E_TypeOK
  <2>5. \A v \in Workers : v # w => wpc'[v] = wpc[v] /\ wfd'[v] = wfd[v] /\ batch'[v] = batch[v]
    BY <1>1, <2>1, <2>2 DEF E_TypeOK
  <2>6. wpc'[w] = "handle" /\ wfd'[w] = fd /\ batch'[w] = evs \ {fd}
    BY <1>1, <2>1, <2>2 DEF E_TypeOK
  <2>7. E_Alone'
    BY <1>1, <2>2, <2>5, <2>6 DEF E_Alone, Has
  <2>8. E_Batch'
    BY <1>1, <2>1, <2>2, <2>3, <2>5, <2>6 DEF E_Batch
  <2>9. E_Clients' /\ E_Context'
    BY <1>1, <2>2 DEF E_Clients, E_Context
  <2> QED BY <2>4, <2>7, <2>8, <2>9 DEF E_Inv
<1>3. ASSUME wpc[w] = "handle"
      PROVE  /\ wfd[w] \in epoll[w] /\ wfd[w] \in Fds /\ owner[wfd[w]] \in Clients
             /\ \A fd \in Fds : owner[fd] = owner[wfd[w]] => fd = wfd[w]
  BY <1>1, <1>3 DEF E_Batch, E_Alone, Has, E_TypeOK, E_Clients
<1>4. ASSUME wpc[w] = "handle", Back(w), UNCHANGED <<owner, epoll, apc, afd>>
      PROVE  /\ wpc' \in [Workers -> {"wait", "handle", "del", "close", "sub"}]
             /\ wfd' \in [Workers -> Fds \cup {None}] /\ batch' = batch
             /\ E_Alone' /\ E_Batch'
  <2>1. /\ wpc' = [wpc EXCEPT ![w] = "wait"] /\ wfd' = [wfd EXCEPT ![w] = None]
        /\ batch' = batch /\ Workers' = Workers
    BY <1>4 DEF Back, Workers
  <2>2. /\ wpc' \in [Workers -> {"wait", "handle", "del", "close", "sub"}]
        /\ wfd' \in [Workers -> Fds \cup {None}]
    BY <1>1, <2>1 DEF E_TypeOK
  <2>3. \A v \in Workers : v # w => wpc'[v] = wpc[v] /\ wfd'[v] = wfd[v]
    BY <1>1, <2>1 DEF E_TypeOK
  <2>4. wpc'[w] = "wait"
    BY <1>1, <2>1 DEF E_TypeOK
  <2>5. E_Alone'
    BY <1>1, <1>4, <2>1, <2>3, <2>4 DEF E_Alone, Has
  <2>6. E_Batch'
    BY <1>1, <1>4, <2>1, <2>3, <2>4 DEF E_Batch
  <2> QED BY <2>1, <2>2, <2>5, <2>6
<1>5. CASE HandleRead(w)
  <2> DEFINE fd == wfd[w]
  <2>1. /\ wpc[w] = "handle" /\ ctx[fd] = "READ" /\ owner[fd] \in unread
        /\ unread' = unread \ {owner[fd]} /\ ctx' = [ctx EXCEPT ![fd] = "WRITE"] /\ Back(w)
        /\ UNCHANGED <<client, backlog, owner, epoll, apc, afd, rr_counter, active_connections>>
        /\ Workers' = Workers
    BY <1>5 DEF HandleRead, acceptorVars, Workers
  <2>2. /\ fd \in epoll[w] /\ fd \in Fds /\ owner[fd] \in Clients
        /\ \A gd \in Fds : owner[gd] = owner[fd] => gd = fd
    BY <1>3, <2>1
  <2>3. E_TypeOK' /\ E_Alone' /\ E_Batch'
    <3>1. /\ wpc' \in [Workers -> {"wait", "handle", "del", "close", "sub"}]
          /\ wfd' \in [Workers -> Fds \cup {None}] /\ batch' = batch
          /\ E_Alone' /\ E_Batch'
      BY <1>4, <2>1
    <3>2. ctx' \in [Fds -> {"STALE", "READ", "WRITE"}] /\ unread' \in SUBSET Clients
      BY <1>1, <2>1, <2>2 DEF E_TypeOK
    <3> QED BY <1>1, <2>1, <3>1, <3>2 DEF E_TypeOK
  <2>4. E_Clients'
    BY <1>1, <2>1 DEF E_Clients
  <2>5. E_Context'
    <3>1. client[owner[fd]] \in {"sent"} \cup Gone
      BY <1>1, <2>1 DEF E_Context
    <3>2. \A gd \in Fds : ctx'[gd] = IF gd = fd THEN "WRITE" ELSE ctx[gd]
      BY <1>1, <2>1, <2>2 DEF E_TypeOK
    <3>3. ASSUME NEW v \in Workers, NEW gd \in epoll[v]
          PROVE  /\ ctx'[gd] # "STALE"
                 /\ ctx'[gd] = "WRITE" => client[owner[gd]] \in {"sent"} \cup Gone /\ owner[gd] \notin unread'
      <4>1. gd \in Fds
        BY <1>1 DEF E_TypeOK
      <4> QED BY <1>1, <2>1, <2>2, <3>1, <3>2, <4>1 DEF E_Context
    <3>4. apc = "add" => ctx'[afd] = "READ"
      BY <1>1, <2>2, <3>2 DEF E_Context, E_Alone, Has
    <3> QED BY <1>1, <2>1, <3>3, <3>4 DEF E_Context
  <2> QED BY <2>3, <2>4, <2>5 DEF E_Inv
<1>6. CASE HandleWrite(w)
  <2> DEFINE fd == wfd[w]
             c  == owner[fd]
  <2>1. /\ wpc[w] = "handle" /\ ctx[fd] = "WRITE"
        /\ client' = [client EXCEPT ![c] = IF @ = "sent" THEN "answered" ELSE @]
        /\ ctx' = [ctx EXCEPT ![fd] = "READ"] /\ Back(w)
        /\ UNCHANGED <<unread, backlog, owner, epoll, apc, afd, rr_counter, active_connections>>
        /\ Workers' = Workers
    BY <1>6 DEF HandleWrite, acceptorVars, Workers
  <2>2. /\ fd \in epoll[w] /\ fd \in Fds /\ c \in Clients
        /\ \A gd \in Fds : owner[gd] = c => gd = fd
    BY <1>3, <2>1
  <2>3. E_TypeOK' /\ E_Alone' /\ E_Batch'
    <3>1. /\ wpc' \in [Workers -> {"wait", "handle", "del", "close", "sub"}]
          /\ wfd' \in [Workers -> Fds \cup {None}] /\ batch' = batch
          /\ E_Alone' /\ E_Batch'
      BY <1>4, <2>1
    <3>2. /\ ctx' \in [Fds -> {"STALE", "READ", "WRITE"}]
          /\ client' \in [Clients -> {"new", "open", "sent", "answered", "left", "reset"}]
      BY <1>1, <2>1, <2>2 DEF E_TypeOK
    <3> QED BY <1>1, <2>1, <3>1, <3>2 DEF E_TypeOK
  <2>4. /\ \A d \in Clients : d # c => client'[d] = client[d]
        /\ client'[c] = IF client[c] = "sent" THEN "answered" ELSE client[c]
    BY <1>1, <2>1, <2>2 DEF E_TypeOK
  <2> HIDE DEF c
  <2>5. c \notin unread /\ client[c] \in {"sent"} \cup Gone
    BY <1>1, <2>1, <2>2 DEF E_Context, c
  <2>6. E_Clients'
    <3>1. \A d \in Clients : client[d] # "new" => client'[d] # "new"
      BY <2>4
    <3>2. backlog \in Seq(Clients) /\ \A i \in 1 .. Len(backlog) : backlog[i] \in Clients
      BY <1>1 DEF E_TypeOK
    <3> QED BY <1>1, <2>1, <3>1, <3>2 DEF E_Clients
  <2>7. E_Context'
    <3>1. \A gd \in Fds : ctx'[gd] = IF gd = fd THEN "READ" ELSE ctx[gd]
      BY <1>1, <2>1, <2>2 DEF E_TypeOK
    <3>2. \A d \in unread : client'[d] \in {"sent"} \cup Gone
      BY <1>1, <2>4, <2>5 DEF E_Context, E_TypeOK
    <3>3. ASSUME NEW v \in Workers, NEW gd \in epoll[v]
          PROVE  /\ ctx'[gd] # "STALE"
                 /\ ctx'[gd] = "WRITE" => client'[owner[gd]] \in {"sent"} \cup Gone /\ owner[gd] \notin unread
      <4>1. gd \in Fds /\ owner[gd] \in Clients
        BY <1>1 DEF E_TypeOK, E_Alone, Has
      <4> QED BY <1>1, <2>2, <2>4, <3>1, <4>1 DEF E_Context
    <3>4. apc = "add" => ctx'[afd] = "READ"
      BY <1>1, <3>1 DEF E_Context, E_Alone
    <3> QED BY <1>1, <2>1, <3>2, <3>3, <3>4 DEF E_Context
  <2> QED BY <2>3, <2>6, <2>7 DEF E_Inv
<1>7. CASE HandleGone(w)
  <2>1. /\ wpc[w] = "handle" /\ wpc' = [wpc EXCEPT ![w] = "del"]
        /\ UNCHANGED <<client, unread, backlog, owner, ctx, epoll, apc, afd, rr_counter, wfd, batch, active_connections>>
        /\ Workers' = Workers
    BY <1>7 DEF HandleGone, clientVars, acceptorVars, Workers
  <2>2. E_TypeOK'
    BY <1>1, <2>1 DEF E_TypeOK
  <2>3. \A v \in Workers : wpc'[v] = IF v = w THEN "del" ELSE wpc[v]
    BY <1>1, <2>1 DEF E_TypeOK
  <2>4. E_Alone' /\ E_Batch'
    BY <1>1, <2>1, <2>3 DEF E_Alone, E_Batch, Has
  <2>5. E_Clients' /\ E_Context'
    BY <1>1, <2>1 DEF E_Clients, E_Context
  <2> QED BY <2>2, <2>4, <2>5 DEF E_Inv
<1>8. CASE CtlDel(w)
  <2> DEFINE fd == wfd[w]
  <2>1. /\ wpc[w] = "del" /\ wpc' = [wpc EXCEPT ![w] = "close"]
        /\ epoll' = [epoll EXCEPT ![w] = @ \ {fd}]
        /\ UNCHANGED <<client, unread, backlog, owner, ctx, apc, afd, rr_counter, wfd, batch, active_connections>>
        /\ Workers' = Workers
    BY <1>8 DEF CtlDel, clientVars, acceptorVars, Workers
  <2>2. fd \in epoll[w] /\ fd \in Fds /\ fd \notin batch[w]
    BY <1>1, <2>1 DEF E_Batch, E_TypeOK
  <2>3. E_TypeOK'
    <3>1. epoll' \in [Workers -> SUBSET Fds]
      BY <1>1, <2>1 DEF E_TypeOK
    <3> QED BY <1>1, <2>1, <3>1 DEF E_TypeOK
  <2>4. \A v \in Workers : /\ wpc'[v] = IF v = w THEN "close" ELSE wpc[v]
                           /\ epoll'[v] = IF v = w THEN epoll[v] \ {fd} ELSE epoll[v]
    BY <1>1, <2>1 DEF E_TypeOK
  <2>5. \A v \in Workers, gd \in Fds : Has(v, gd)' => Has(v, gd)
    BY <2>1, <2>2, <2>4 DEF Has
  <2>6. E_Alone'
    BY <1>1, <2>1, <2>5 DEF E_Alone
  <2>7. E_Batch'
    BY <1>1, <2>1, <2>2, <2>4 DEF E_Batch
  <2>8. E_Clients' /\ E_Context'
    BY <1>1, <2>1, <2>4 DEF E_Clients, E_Context
  <2> QED BY <2>3, <2>6, <2>7, <2>8 DEF E_Inv
<1>9. CASE CloseFd(w)
  <2> DEFINE fd == wfd[w]
  <2>1. /\ wpc[w] = "close" /\ wpc' = [wpc EXCEPT ![w] = "sub"]
        /\ owner' = [owner EXCEPT ![fd] = None]
        /\ UNCHANGED <<client, unread, backlog, ctx, epoll, apc, afd, rr_counter, wfd, batch, active_connections>>
        /\ Workers' = Workers
    BY <1>9 DEF CloseFd, clientVars, acceptorVars, Workers
  <2>2. /\ fd \in Fds /\ fd \notin epoll[w] /\ Has(w, fd)
        /\ \A v \in Workers : v # w => ~Has(v, fd)
    BY <1>1, <2>1 DEF E_Batch, E_Alone, Has
  <2>3. E_TypeOK'
    BY <1>1, <2>1 DEF E_TypeOK
  <2>4. \A v \in Workers : wpc'[v] = IF v = w THEN "sub" ELSE wpc[v]
    BY <1>1, <2>1 DEF E_TypeOK
  <2>5. \A gd \in Fds : owner'[gd] = IF gd = fd THEN None ELSE owner[gd]
    BY <1>1, <2>1, <2>2 DEF E_TypeOK
  <2>6. \A v \in Workers, gd \in Fds : Has(v, gd)' => Has(v, gd) /\ gd # fd
    BY <2>1, <2>2, <2>4 DEF Has
  <2>7. apc \in {"init", "add"} => afd # fd
    BY <1>1, <2>2 DEF E_Alone
  <2>8. E_Alone'
    BY <1>1, <2>1, <2>5, <2>6, <2>7 DEF E_Alone
  <2>9. E_Batch'
    BY <1>1, <2>1, <2>4 DEF E_Batch
  <2>10. E_Clients'
    BY <1>1, <2>1, <2>5 DEF E_Clients, E_TypeOK
  <2>11. E_Context'
    <3>1. \A v \in Workers : \A gd \in epoll[v] : gd \in Fds /\ gd # fd
      BY <1>1, <2>2 DEF Has, E_TypeOK
    <3> QED BY <1>1, <2>1, <2>5, <3>1 DEF E_Context
  <2> QED BY <2>3, <2>8, <2>9, <2>10, <2>11 DEF E_Inv
<1>10. CASE Discount(w)
  <2>1. /\ wpc[w] = "sub" /\ wpc' = [wpc EXCEPT ![w] = "wait"] /\ wfd' = [wfd EXCEPT ![w] = None]
        /\ active_connections' = [active_connections EXCEPT ![w] = (@ - 1) % ULL]
        /\ UNCHANGED <<client, unread, backlog, owner, ctx, epoll, apc, afd, rr_counter, batch>>
        /\ Workers' = Workers
    BY <1>10 DEF Discount, Back, clientVars, acceptorVars, Workers
  <2>2. E_TypeOK'
    <3>1. active_connections[w] - 1 \in Int
      BY <1>1 DEF E_TypeOK
    <3>2. (active_connections[w] - 1) % ULL \in Int
      BY <3>1
    <3>3. active_connections' \in [Workers -> Int]
      BY <1>1, <2>1, <3>2 DEF E_TypeOK
    <3> QED BY <1>1, <2>1, <3>3 DEF E_TypeOK
  <2>3. \A v \in Workers : IF v = w THEN wpc'[v] = "wait" ELSE wpc'[v] = wpc[v] /\ wfd'[v] = wfd[v]
    BY <1>1, <2>1 DEF E_TypeOK
  <2>4. E_Alone' /\ E_Batch'
    BY <1>1, <2>1, <2>3 DEF E_Alone, E_Batch, Has
  <2>5. E_Clients' /\ E_Context'
    BY <1>1, <2>1 DEF E_Clients, E_Context
  <2> QED BY <2>2, <2>4, <2>5 DEF E_Inv
<1> QED BY <1>2, <1>5, <1>6, <1>7, <1>8, <1>9, <1>10 DEF WorkerStep

LEMMA E_InvStep == E_Inv /\ [Next]_vars => E_Inv'
<1> SUFFICES ASSUME E_Inv, [Next]_vars PROVE E_Inv'
  OBVIOUS
<1>1. CASE UNCHANGED vars
  <2>1. /\ UNCHANGED <<client, unread, backlog, owner, ctx, epoll, apc, afd, rr_counter, wpc, wfd,
                       batch, active_connections>>
        /\ Workers' = Workers
    BY <1>1 DEF vars, clientVars, acceptorVars, workerVars, Workers
  <2>2. E_TypeOK' /\ E_Alone' /\ E_Batch'
    BY <2>1 DEF E_Inv, E_TypeOK, E_Alone, E_Batch, Has
  <2>3. E_Clients' /\ E_Context'
    BY <2>1 DEF E_Inv, E_Clients, E_Context
  <2> QED BY <2>2, <2>3 DEF E_Inv
<1> QED BY <1>1, E_ClientSteps, E_AcceptorSteps, E_WorkerSteps DEF Next

LEMMA E_OneUser == E_Inv => OneUserPerFd
<1> SUFFICES ASSUME E_Inv, NEW w \in Workers, NEW fd \in Fds, Busy(w, fd) \/ fd \in epoll[w]
             PROVE  /\ owner[fd] \in Clients
                    /\ ~(apc \in {"init", "add"} /\ afd = fd)
                    /\ \A v \in Workers \ {w} : ~Busy(v, fd) /\ fd \notin epoll[v]
  BY DEF OneUserPerFd
<1>1. \A v \in Workers : Busy(v, fd) \/ fd \in epoll[v] => Has(v, fd)
  BY DEF E_Inv, E_Batch, Busy, Has
<1> QED BY <1>1 DEF E_Inv, E_Alone

LEMMA E_RightContext == E_Inv => ContextOfThisClient
BY DEF E_Inv, E_Context, ContextOfThisClient

-----------------------------------------------------------------------------
(* The gauges of dumb_epoll_workers.c *)

\* What the gauge of worker w should show, before it wraps.
Due(w) == Cardinality(epoll[w]) + B(wpc[w] \in {"close", "sub"})
             - B(apc = "count" /\ target_worker = w)

LEMMA RegisteredFinite ==
    ASSUME E_TypeOK, NEW w \in Workers
    PROVE  IsFiniteSet(epoll[w]) /\ Cardinality(epoll[w]) \in Nat /\ Due(w) \in Int
<1>1. IsFiniteSet(epoll[w])
  BY E_Facts, FS_Subset DEF E_TypeOK
<1>2. Cardinality(epoll[w]) \in Nat
  BY <1>1, FS_CardinalityType
<1>3. Due(w) \in Int
  BY <1>2 DEF Due, B
<1> QED BY <1>1, <1>2, <1>3

\* A step that leaves what is due and the gauge alone.
LEMMA GaugeKept ==
    ASSUME GaugeExact, Workers' = Workers,
           \A w \in Workers : Due(w)' = Due(w) /\ active_connections'[w] = active_connections[w]
    PROVE  GaugeExact'
BY DEF GaugeExact, Due

LEMMA GaugeInit == Init => GaugeExact
<1> SUFFICES ASSUME Init, NEW w \in Workers
             PROVE  active_connections[w] = Due(w) % ULL
  BY DEF GaugeExact, Due
<1>1. epoll[w] = {} /\ wpc[w] = "wait" /\ apc = "accept" /\ active_connections[w] = 0
  BY DEF Init, Workers
<1>2. Due(w) = 0
  BY <1>1, FS_EmptySet DEF Due, B
<1>3. 0 % ULL = 0
  <2>1. ULL * 0 + 0 = 0 /\ 0 \in 0 .. ULL - 1 /\ 0 \in Int
    BY E_Facts
  <2>2. (ULL * 0 + 0) % ULL = 0
    BY <2>1, E_Facts, ModUnique
  <2> QED BY <2>1, <2>2
<1> QED BY <1>1, <1>2, <1>3

LEMMA GaugeStep == E_Inv /\ GaugeExact /\ [Next]_vars => GaugeExact'
<1> SUFFICES ASSUME E_Inv, GaugeExact, [Next]_vars PROVE GaugeExact'
  OBVIOUS
<1> USE E_Facts
<1>1. /\ E_TypeOK /\ E_Alone /\ E_Batch
      /\ \A w \in Workers : active_connections[w] = Due(w) % ULL
      /\ \A w \in Workers : IsFiniteSet(epoll[w]) /\ Cardinality(epoll[w]) \in Nat /\ Due(w) \in Int
  BY RegisteredFinite DEF E_Inv, GaugeExact, Due
<1>2. ASSUME Workers' = Workers, UNCHANGED <<epoll, wpc, apc, rr_counter, active_connections>>
      PROVE  GaugeExact'
  <2>1. \A w \in Workers : Due(w)' = Due(w)
    BY <1>2 DEF Due, target_worker, num_cores
  <2> QED BY <1>2, <2>1, GaugeKept
<1>3. CASE UNCHANGED vars
  BY <1>2, <1>3 DEF vars, clientVars, acceptorVars, workerVars, Workers
<1>4. ASSUME NEW c \in Clients, Connect(c) \/ SendRequest(c) \/ \E how \in Gone : Leave(c, how)
      PROVE  GaugeExact'
  BY <1>2, <1>4 DEF Connect, SendRequest, Leave, acceptorVars, workerVars, Workers
<1>5. CASE Accept
  <2>1. /\ apc = "accept" /\ apc' = "init" /\ Workers' = Workers
        /\ UNCHANGED <<epoll, wpc, rr_counter, active_connections>>
    BY <1>5 DEF Accept, workerVars, Workers
  <2>2. \A w \in Workers : Due(w)' = Due(w)
    BY <2>1 DEF Due, B
  <2> QED BY <2>1, <2>2, GaugeKept
<1>6. CASE AcceptTooHigh
  BY <1>2, <1>6 DEF AcceptTooHigh, acceptorVars, workerVars, Workers
<1>7. CASE InitClientCtx
  <2>1. /\ apc = "init" /\ apc' = "add" /\ Workers' = Workers
        /\ UNCHANGED <<epoll, wpc, rr_counter, active_connections>>
    BY <1>7 DEF InitClientCtx, workerVars, Workers
  <2>2. \A w \in Workers : Due(w)' = Due(w)
    BY <2>1 DEF Due, B
  <2> QED BY <2>1, <2>2, GaugeKept
<1>8. CASE AddToWorker
  <2>1. /\ apc = "add" /\ apc' = "count" /\ epoll' = [epoll EXCEPT ![target_worker] = @ \cup {afd}]
        /\ UNCHANGED <<afd, rr_counter, wpc, active_connections>> /\ Workers' = Workers
    BY <1>8 DEF AddToWorker, workerVars, Workers
  <2>2. target_worker \in Workers /\ target_worker' = target_worker
    BY <1>1, <2>1, TargetIsWorker DEF target_worker, num_cores
  <2>3. afd \notin epoll[target_worker]
    BY <1>1, <2>1, <2>2 DEF E_Alone, Has
  <2>4. \A w \in Workers : epoll'[w] = IF w = target_worker THEN epoll[w] \cup {afd} ELSE epoll[w]
    BY <1>1, <2>1, <2>2 DEF E_TypeOK
  <2>5. ASSUME NEW w \in Workers PROVE Due(w)' = Due(w)
    <3>1. CASE w = target_worker
      <4>1. Cardinality(epoll'[w]) = Cardinality(epoll[w]) + 1
        <5>1. epoll'[w] = epoll[w] \cup {afd} /\ afd \notin epoll[w]
          BY <2>3, <2>4, <3>1
        <5> QED BY <1>1, <5>1, FS_AddElement
      <4>2. /\ B(apc' = "count" /\ target_worker' = w) = 1 /\ B(apc = "count" /\ target_worker = w) = 0
            /\ B(wpc'[w] \in {"close", "sub"}) = B(wpc[w] \in {"close", "sub"})
            /\ B(wpc[w] \in {"close", "sub"}) \in Int
        BY <2>1, <2>2, <3>1 DEF B
      <4> QED BY <1>1, <4>1, <4>2 DEF Due
    <3>2. CASE w # target_worker
      <4>1. epoll'[w] = epoll[w] /\ wpc'[w] = wpc[w] /\ ~(apc' = "count" /\ target_worker' = w)
            /\ ~(apc = "count" /\ target_worker = w)
        BY <2>1, <2>2, <2>4, <3>2
      <4> QED BY <4>1 DEF Due, B
    <3> QED BY <3>1, <3>2
  <2> QED BY <2>1, <2>5, GaugeKept
<1>9. CASE CountConnection
  <2>1. /\ apc = "count" /\ apc' = "accept"
        /\ active_connections' = [active_connections EXCEPT ![target_worker] = (@ + 1) % ULL]
        /\ UNCHANGED <<epoll, wpc>> /\ Workers' = Workers
    BY <1>9 DEF CountConnection, workerVars, Workers
  <2>2. target_worker \in Workers
    BY <1>1, TargetIsWorker
  <2>3. ASSUME NEW w \in Workers PROVE active_connections'[w] = Due(w)' % ULL
    <3>1. CASE w = target_worker
      <4>1. Due(w)' = Due(w) + 1
        <5>1. /\ B(apc' = "count" /\ target_worker' = w) = 0 /\ B(apc = "count" /\ target_worker = w) = 1
              /\ B(wpc'[w] \in {"close", "sub"}) = B(wpc[w] \in {"close", "sub"})
              /\ B(wpc[w] \in {"close", "sub"}) \in Int
          BY <2>1, <3>1 DEF B
        <5> QED BY <1>1, <2>1, <5>1 DEF Due
      <4>2. active_connections'[w] = (active_connections[w] + 1) % ULL
        BY <1>1, <2>1, <2>2, <3>1 DEF E_TypeOK
      <4>3. ((Due(w) % ULL) + 1) % ULL = (Due(w) + 1) % ULL
        BY <1>1, ModStep
      <4> QED BY <1>1, <4>1, <4>2, <4>3
    <3>2. CASE w # target_worker
      <4>1. Due(w)' = Due(w)
        BY <2>1, <3>2 DEF Due, B
      <4>2. active_connections'[w] = active_connections[w]
        BY <1>1, <2>1, <3>2 DEF E_TypeOK
      <4> QED BY <1>1, <4>1, <4>2
    <3> QED BY <3>1, <3>2
  <2> QED BY <2>1, <2>3 DEF GaugeExact, Due
<1>10. ASSUME NEW w \in Workers, WorkerStep(w) PROVE GaugeExact'
  <2>1. UNCHANGED <<apc, rr_counter>> /\ Workers' = Workers
    <3>1. DOMAIN epoll' = DOMAIN epoll /\ UNCHANGED <<apc, rr_counter>>
      BY <1>10 DEF WorkerStep, NextEvent, HandleRead, HandleWrite, HandleGone, CtlDel, CloseFd, Discount,
                  acceptorVars
    <3> QED BY <3>1 DEF Workers
  <2>2. target_worker' = target_worker
    BY <2>1 DEF target_worker, num_cores
  <2>3. ASSUME UNCHANGED <<epoll, active_connections>>,
               \A v \in Workers : (wpc'[v] \in {"close", "sub"}) = (wpc[v] \in {"close", "sub"})
        PROVE  GaugeExact'
    <3>1. \A v \in Workers : Due(v)' = Due(v)
      BY <2>1, <2>2, <2>3 DEF Due, B
    <3> QED BY <2>1, <2>3, <3>1, GaugeKept
  <2>4. CASE NextEvent(w)
    BY <1>1, <2>3, <2>4 DEF NextEvent, E_TypeOK
  <2>5. CASE HandleRead(w)
    BY <1>1, <2>3, <2>5 DEF HandleRead, Back, E_TypeOK
  <2>6. CASE HandleWrite(w)
    BY <1>1, <2>3, <2>6 DEF HandleWrite, Back, E_TypeOK
  <2>7. CASE HandleGone(w)
    BY <1>1, <2>3, <2>7 DEF HandleGone, E_TypeOK
  <2>8. CASE CtlDel(w)
    <3>1. /\ wpc[w] = "del" /\ wpc' = [wpc EXCEPT ![w] = "close"]
          /\ epoll' = [epoll EXCEPT ![w] = @ \ {wfd[w]}] /\ active_connections' = active_connections
      BY <2>8 DEF CtlDel
    <3>2. wfd[w] \in epoll[w]
      BY <1>1, <3>1 DEF E_Batch
    <3>3. ASSUME NEW v \in Workers PROVE Due(v)' = Due(v)
      <4>1. CASE v = w
        <5>1. epoll'[w] = epoll[w] \ {wfd[w]} /\ wpc'[w] = "close"
          BY <1>1, <3>1 DEF E_TypeOK
        <5>2. Cardinality(epoll'[w]) = Cardinality(epoll[w]) - 1
          BY <1>1, <3>2, <5>1, FS_RemoveElement
        <5>3. /\ B(wpc'[w] \in {"close", "sub"}) = 1 /\ B(wpc[w] \in {"close", "sub"}) = 0
              /\ B(apc' = "count" /\ target_worker' = w) = B(apc = "count" /\ target_worker = w)
              /\ B(apc = "count" /\ target_worker = w) \in Int
          BY <2>1, <2>2, <3>1, <5>1 DEF B
        <5> QED BY <1>1, <4>1, <5>2, <5>3 DEF Due
      <4>2. CASE v # w
        <5>1. epoll'[v] = epoll[v] /\ wpc'[v] = wpc[v]
          BY <1>1, <3>1, <4>2 DEF E_TypeOK
        <5> QED BY <2>1, <2>2, <5>1 DEF Due, B
      <4> QED BY <4>1, <4>2
    <3> QED BY <2>1, <3>1, <3>3, GaugeKept
  <2>9. CASE CloseFd(w)
    BY <1>1, <2>3, <2>9 DEF CloseFd, E_TypeOK
  <2>10. CASE Discount(w)
    <3>1. /\ wpc[w] = "sub" /\ wpc' = [wpc EXCEPT ![w] = "wait"] /\ epoll' = epoll
          /\ active_connections' = [active_connections EXCEPT ![w] = (@ - 1) % ULL]
      BY <2>10 DEF Discount, Back
    <3>2. ASSUME NEW v \in Workers PROVE active_connections'[v] = Due(v)' % ULL
      <4>1. CASE v = w
        <5>1. Due(w)' = Due(w) - 1
          <6>1. wpc'[w] = "wait"
            BY <1>1, <3>1 DEF E_TypeOK
          <6>2. /\ B(wpc'[w] \in {"close", "sub"}) = 0 /\ B(wpc[w] \in {"close", "sub"}) = 1
                /\ B(apc' = "count" /\ target_worker' = w) = B(apc = "count" /\ target_worker = w)
                /\ B(apc = "count" /\ target_worker = w) \in Int
            BY <2>1, <2>2, <3>1, <6>1 DEF B
          <6> QED BY <1>1, <3>1, <6>2 DEF Due
        <5>2. active_connections'[w] = (active_connections[w] - 1) % ULL
          BY <1>1, <3>1 DEF E_TypeOK
        <5>3. ((Due(w) % ULL) - 1) % ULL = (Due(w) - 1) % ULL
          BY <1>1, ModStep
        <5> QED BY <1>1, <4>1, <5>1, <5>2, <5>3
      <4>2. CASE v # w
        <5>1. active_connections'[v] = active_connections[v] /\ wpc'[v] = wpc[v]
          BY <1>1, <3>1, <4>2 DEF E_TypeOK
        <5>2. Due(v)' = Due(v)
          BY <2>1, <2>2, <3>1, <5>1 DEF Due, B
        <5> QED BY <1>1, <5>1, <5>2
      <4> QED BY <4>1, <4>2
    <3> QED BY <2>1, <3>2 DEF GaugeExact, Due
  <2> QED BY <1>10, <2>4, <2>5, <2>6, <2>7, <2>8, <2>9, <2>10 DEF WorkerStep
<1> QED BY <1>3, <1>4, <1>5, <1>6, <1>7, <1>8, <1>9, <1>10 DEF Next, AcceptorStep

-----------------------------------------------------------------------------
(* dumb_reactor.c *)

R_TypeOK ==
    /\ r_load \in {"busy", "spaced"}
    /\ r_client \in [Clients -> {"new", "open", "sent", "answered", "left", "reset"}]
    /\ r_backlog \in Seq(Clients)
    /\ r_owner \in [Fds -> Clients \cup {None, Self}]
    /\ registry \in [Fds -> SUBSET R!AllFields]
    /\ \E n \in Cores : R!Workers = 0 .. n - 1
    /\ r_epoll \in [R!Workers -> SUBSET Fds]
    /\ r_apc \in {"accept", "init", "set", "add"} \X (0 .. 3) /\ r_rr_counter \in Nat
    /\ r_apc[1] = "set" => r_apc[2] # 0
    /\ r_wpc \in [R!Workers -> {"wait", "dispatch", "handle", "del", "close", "clear"} \X (0 .. 3)]
    /\ r_wfd \in [R!Workers -> Fds \cup {None}] /\ r_batch \in [R!Workers -> SUBSET Fds]

\* From epoll_ctl(ADD) to close() a descriptor is the worker's.
RHas(w, fd) == fd \in r_epoll[w] \/ (r_wpc[w][1] = "close" /\ r_wfd[w] = fd)

\* What a worker has is open and nobody else's, the acceptor's included.
R_Alone ==
    /\ \A w \in R!Workers, fd \in Fds : RHas(w, fd) => r_owner[fd] \in Clients
    /\ \A v, w \in R!Workers, fd \in Fds : RHas(v, fd) /\ RHas(w, fd) => v = w
    /\ r_apc[1] = "accept" <=> r_afd = None
    /\ r_afd # None => /\ r_afd \in Fds /\ r_owner[r_afd] \in Clients
                       /\ \A w \in R!Workers : ~RHas(w, r_afd)

\* events[] holds registered descriptors, and not the one in hand.
R_Batch ==
    \A w \in R!Workers :
        /\ r_batch[w] \subseteq r_epoll[w]
        /\ r_wpc[w][1] \in {"dispatch", "handle", "del"} => r_wfd[w] \in r_epoll[w] \ r_batch[w]
        /\ r_wpc[w][1] = "close" => r_wfd[w] \in Fds \ r_epoll[w]
        /\ r_wpc[w][1] = "clear" => r_wfd[w] \in Fds

\* A client is in the queue once, or has a descriptor.
R_Queue ==
    \A i \in 1 .. Len(r_backlog) :
        /\ r_client[r_backlog[i]] # "new"
        /\ \A fd \in Fds : r_owner[fd] # r_backlog[i]
        /\ \A j \in 1 .. Len(r_backlog) : r_backlog[i] = r_backlog[j] => i = j
R_Clients ==
    \A fd \in Fds : r_owner[fd] \in Clients => r_client[r_owner[fd]] # "new"

GoneFd(fd) == r_owner[fd] \in Clients /\ r_client[r_owner[fd]] \in R!Gone

\* With spaced arrivals nobody is in the queue or in the acceptor's hands while
\* somebody who left is not yet removed, so a handler is cleared only while its
\* descriptor is closed.
R_Spaced ==
    r_load = "spaced" =>
        /\ ~crashed
        /\ R!Removing \/ (\E fd \in Fds : GoneFd(fd)) => Len(r_backlog) = 0 /\ r_apc[1] = "accept"
        /\ \A i \in 1 .. Len(r_backlog) : r_client[r_backlog[i]] \notin R!Gone
        /\ r_apc[1] = "add" => "app_data" \in registry[r_afd]
        /\ \A w \in R!Workers : \A fd \in r_epoll[w] : "app_data" \in registry[fd]
        /\ \A w \in R!Workers : r_wpc[w][1] = "clear" => r_owner[r_wfd[w]] = None

R_Inv == R_TypeOK /\ R_Alone /\ R_Batch /\ R_Queue /\ R_Clients /\ R_Spaced

LEMMA R_Facts ==
    /\ R!Fds = Fds /\ Loads \subseteq {"busy", "spaced"} /\ R!Gone = {"left", "reset"}
    /\ R!Fields[1] = "on_read" /\ R!Fields[2] = "on_write" /\ R!Fields[3] = "app_data"
    /\ R!AllFields = {"on_read", "on_write", "app_data"}
BY ServersAssumption DEF R!Fds, Fds, R!ReactorConstants, R!Fields, R!AllFields, R!Gone

LEMMA R_InvInit == R!Init => R_Inv
<1> SUFFICES ASSUME R!Init PROVE R_Inv
  OBVIOUS
<1> USE E_Facts, R_Facts
<1>1. PICK n \in Cores : r_epoll = [w \in 0 .. n - 1 |-> {}]
  BY DEF R!Init
<1>2. R!Workers = 0 .. n - 1 /\ \A w \in R!Workers : r_epoll[w] = {}
  BY <1>1 DEF R!Workers
<1>3. PICK m \in OwnFds : r_owner = [fd \in Fds |-> IF fd < m THEN Self ELSE None]
  BY DEF R!Init
<1>4. \A fd \in Fds : r_owner[fd] \notin Clients
  BY <1>3
<1>5. r_apc = <<"accept", 0>> /\ r_apc[1] = "accept" /\ r_afd = None /\ Len(r_backlog) = 0 /\ crashed = FALSE
  BY DEF R!Init
<1>6. \A w \in R!Workers : r_wpc[w] = <<"wait", 0>> /\ r_wpc[w][1] = "wait" /\ r_batch[w] = {}
  BY DEF R!Init
<1>7. R_TypeOK
  BY <1>1, <1>2, <1>3, <1>5, <1>6 DEF R!Init, R_TypeOK
<1>8. R_Alone /\ R_Batch /\ R_Queue /\ R_Clients
  BY <1>2, <1>4, <1>5, <1>6 DEF R_Alone, R_Batch, R_Queue, R_Clients, RHas
<1>9. R_Spaced
  BY <1>2, <1>4, <1>5, <1>6 DEF R_Spaced, GoneFd, R!Removing
<1> QED BY <1>7, <1>8, <1>9 DEF R_Inv

LEMMA R_ClientSteps ==
    ASSUME R_Inv, NEW c \in Clients,
           R!Connect(c) \/ R!SendRequest(c) \/ \E how \in R!Gone : R!Leave(c, how)
    PROVE  R_Inv'
<1> USE E_Facts, R_Facts
<1>1. R_TypeOK /\ R_Alone /\ R_Batch /\ R_Queue /\ R_Clients /\ R_Spaced
  BY DEF R_Inv
<1>2. /\ UNCHANGED <<r_load, r_owner, registry, r_ctx, r_epoll, r_apc, r_afd, r_rr_counter, r_wpc, r_wfd,
                     r_batch, crashed>>
      /\ R!Workers' = R!Workers
  BY DEF R!Connect, R!SendRequest, R!Leave, R!acceptorVars, R!workerVars, R!Workers
<1>3. R_Alone' /\ R_Batch'
  BY <1>1, <1>2 DEF R_Alone, R_Batch, RHas
<1>4. /\ r_client \in [Clients -> {"new", "open", "sent", "answered", "left", "reset"}]
      /\ r_backlog \in Seq(Clients) /\ Len(r_backlog) \in Nat
      /\ \A i \in 1 .. Len(r_backlog) : r_backlog[i] \in Clients
  BY <1>1 DEF R_TypeOK
<1>5. R!Removing' = R!Removing
  BY <1>2 DEF R!Removing
<1>6. CASE R!Connect(c)
  <2>1. /\ r_client[c] = "new" /\ r_client' = [r_client EXCEPT ![c] = "open"]
        /\ r_backlog' = Append(r_backlog, c)
        /\ r_load = "spaced" => /\ ~R!Removing
                                /\ \A d \in Clients : r_client[d] \in R!Gone => \A fd \in Fds : r_owner[fd] # d
    BY <1>6 DEF R!Connect
  <2>2. R_TypeOK'
    BY <1>1, <1>2, <2>1 DEF R_TypeOK
  <2>3. /\ Len(r_backlog') = Len(r_backlog) + 1 /\ r_backlog'[Len(r_backlog) + 1] = c
        /\ \A i \in 1 .. Len(r_backlog) : r_backlog'[i] = r_backlog[i]
    BY <1>4, <2>1
  <2>4. \A d \in Clients : r_client'[d] = IF d = c THEN "open" ELSE r_client[d]
    BY <1>4, <2>1
  <2>5. /\ \A fd \in Fds : r_owner[fd] # c
        /\ \A i \in 1 .. Len(r_backlog) : r_backlog[i] # c
    BY <1>1, <2>1 DEF R_Clients, R_Queue
  <2>6. \A i \in 1 .. Len(r_backlog') : i \in 1 .. Len(r_backlog) \/ i = Len(r_backlog) + 1
    BY <1>4, <2>3
  <2>7. R_Queue'
    <3>1. ASSUME NEW i \in 1 .. Len(r_backlog')
          PROVE  /\ r_client'[r_backlog'[i]] # "new" /\ \A fd \in Fds : r_owner'[fd] # r_backlog'[i]
                 /\ \A j \in 1 .. Len(r_backlog') : r_backlog'[i] = r_backlog'[j] => i = j
      <4>1. r_client'[r_backlog'[i]] # "new" /\ \A fd \in Fds : r_owner'[fd] # r_backlog'[i]
        BY <1>1, <1>2, <1>4, <2>3, <2>4, <2>5, <2>6 DEF R_Queue
      <4>2. ASSUME NEW j \in 1 .. Len(r_backlog'), r_backlog'[i] = r_backlog'[j] PROVE i = j
        BY <1>1, <1>4, <2>3, <2>5, <2>6, <4>2 DEF R_Queue
      <4> QED BY <4>1, <4>2
    <3> QED BY <3>1 DEF R_Queue
  <2>8. R_Clients'
    BY <1>1, <1>2, <2>4 DEF R_Clients
  <2>9. R_Spaced'
    <3>1. SUFFICES ASSUME r_load = "spaced" PROVE R_Spaced'
      BY <1>2 DEF R_Spaced
    <3>2. ~R!Removing' /\ \A fd \in Fds : ~GoneFd(fd)'
      BY <1>2, <1>5, <2>1, <2>4, <2>5, <3>1 DEF GoneFd
    <3>3. \A i \in 1 .. Len(r_backlog') : r_client'[r_backlog'[i]] \notin R!Gone
      BY <1>1, <1>4, <2>3, <2>4, <2>6, <3>1 DEF R_Spaced
    <3> QED BY <1>1, <1>2, <3>1, <3>2, <3>3 DEF R_Spaced
  <2> QED BY <1>3, <2>2, <2>7, <2>8, <2>9 DEF R_Inv
<1>7. CASE R!SendRequest(c)
  <2>1. r_client[c] = "open" /\ r_client' = [r_client EXCEPT ![c] = "sent"] /\ r_backlog' = r_backlog
    BY <1>7 DEF R!SendRequest
  <2>2. R_TypeOK'
    BY <1>1, <1>2, <2>1 DEF R_TypeOK
  <2>3. \A d \in Clients : r_client'[d] = IF d = c THEN "sent" ELSE r_client[d]
    BY <1>4, <2>1
  <2>4. R_Queue' /\ R_Clients'
    BY <1>1, <1>2, <1>4, <2>1, <2>3 DEF R_Queue, R_Clients
  <2>5. \A fd \in Fds : GoneFd(fd)' => GoneFd(fd)
    BY <1>2, <2>1, <2>3 DEF GoneFd
  <2>6. R_Spaced'
    BY <1>1, <1>2, <1>4, <1>5, <2>1, <2>3, <2>5 DEF R_Spaced
  <2> QED BY <1>3, <2>2, <2>4, <2>6 DEF R_Inv
<1>8. ASSUME NEW how \in R!Gone, R!Leave(c, how) PROVE R_Inv'
  <2>1. /\ r_client[c] \in {"open", "sent", "answered"} /\ r_client' = [r_client EXCEPT ![c] = how]
        /\ r_backlog' = r_backlog
        /\ r_load = "spaced" => r_backlog = <<>> /\ r_apc[1] = "accept"
    BY <1>8 DEF R!Leave
  <2>2. R_TypeOK'
    BY <1>1, <1>2, <2>1, <1>8 DEF R_TypeOK
  <2>3. \A d \in Clients : r_client'[d] = IF d = c THEN how ELSE r_client[d]
    BY <1>4, <2>1
  <2>4. R_Queue' /\ R_Clients'
    BY <1>1, <1>2, <1>4, <1>8, <2>1, <2>3 DEF R_Queue, R_Clients
  <2>5. R_Spaced'
    <3>1. SUFFICES ASSUME r_load = "spaced" PROVE R_Spaced'
      BY <1>2 DEF R_Spaced
    <3>2. Len(r_backlog') = 0 /\ r_apc'[1] = "accept"
      BY <1>2, <2>1, <3>1
    <3> QED BY <1>1, <1>2, <3>1, <3>2 DEF R_Spaced
  <2> QED BY <1>3, <2>2, <2>4, <2>5 DEF R_Inv
<1> QED BY <1>6, <1>7, <1>8

LEMMA R_AcceptorSteps == ASSUME R_Inv, R!AcceptorStep PROVE R_Inv'
<1> USE E_Facts, R_Facts
<1>1. R_TypeOK /\ R_Alone /\ R_Batch /\ R_Queue /\ R_Clients /\ R_Spaced
  BY DEF R_Inv
<1>2. CASE R!Accept
  <2> DEFINE fd == Min(R!FreeFds)
             c  == Head(r_backlog)
  <2>1. /\ r_apc[1] = "accept" /\ r_apc' = <<"init", 0>> /\ r_apc'[1] = "init" /\ r_afd' = R!Min(R!FreeFds)
        /\ r_backlog # <<>> /\ R!FreeFds # {}
        /\ r_owner' = [r_owner EXCEPT ![R!Min(R!FreeFds)] = c] /\ r_backlog' = Tail(r_backlog)
        /\ UNCHANGED <<r_load, r_client, registry, r_epoll, r_rr_counter, r_wpc, r_wfd, r_batch, crashed>>
        /\ R!Workers' = R!Workers
    BY <1>2 DEF R!Accept, R!clientVars, R!workerVars, R!Workers
  <2>2. R!Min(R!FreeFds) = fd
    BY DEF R!Min, Min
  <2>3. fd \in Fds /\ r_owner[fd] = None
    <3>1. R!FreeFds \subseteq Fds /\ R!FreeFds \subseteq Nat
      BY DEF R!FreeFds
    <3>2. Min(R!FreeFds) \in R!FreeFds
      BY <2>1, <3>1, LeastFd
    <3> QED BY <3>2 DEF R!FreeFds
  <2>4. /\ r_backlog \in Seq(Clients) /\ Len(r_backlog) \in Nat /\ Len(r_backlog) # 0
        /\ c \in Clients /\ c = r_backlog[1]
        /\ Len(r_backlog') = Len(r_backlog) - 1 /\ r_backlog' \in Seq(Clients)
        /\ \A i \in 1 .. Len(r_backlog') : r_backlog'[i] = r_backlog[i + 1]
    BY <1>1, <2>1 DEF R_TypeOK
  <2>5. r_afd' = fd /\ r_owner' = [r_owner EXCEPT ![fd] = c] /\ r_afd' # None
    BY <2>1, <2>2, <2>3
  <2> HIDE DEF fd, c
  <2>6. R_TypeOK'
    BY <1>1, <2>1, <2>3, <2>4, <2>5 DEF R_TypeOK
  <2>7. \A w \in R!Workers : ~RHas(w, fd)
    BY <1>1, <2>3 DEF R_Alone
  <2>8. \A gd \in Fds : r_owner'[gd] = IF gd = fd THEN c ELSE r_owner[gd]
    BY <1>1, <2>3, <2>5 DEF R_TypeOK
  <2>9. R_Alone'
    <3>1. \A w \in R!Workers, gd \in Fds : RHas(w, gd)' = RHas(w, gd)
      BY <2>1 DEF RHas
    <3>2. \A w \in R!Workers, gd \in Fds : RHas(w, gd)' => r_owner'[gd] \in Clients
      BY <1>1, <2>4, <2>8, <3>1 DEF R_Alone
    <3>3. \A v, w \in R!Workers, gd \in Fds : RHas(v, gd)' /\ RHas(w, gd)' => v = w
      BY <1>1, <3>1 DEF R_Alone
    <3>4. /\ r_afd' \in Fds /\ r_owner'[r_afd'] \in Clients
          /\ \A w \in R!Workers : ~RHas(w, r_afd)'
      BY <2>1, <2>3, <2>4, <2>5, <2>7, <2>8 DEF RHas
    <3> QED BY <2>1, <2>5, <3>2, <3>3, <3>4 DEF R_Alone
  <2>10. R_Batch'
    BY <1>1, <2>1 DEF R_Batch
  <2>11. R_Queue'
    <3>1. \A i \in 1 .. Len(r_backlog') : i + 1 \in 1 .. Len(r_backlog) /\ r_backlog[i + 1] # c
      BY <1>1, <2>4 DEF R_Queue
    <3>2. ASSUME NEW i \in 1 .. Len(r_backlog')
          PROVE  /\ r_client'[r_backlog'[i]] # "new" /\ \A gd \in Fds : r_owner'[gd] # r_backlog'[i]
                 /\ \A j \in 1 .. Len(r_backlog') : r_backlog'[i] = r_backlog'[j] => i = j
      <4>1. r_client'[r_backlog'[i]] # "new" /\ \A gd \in Fds : r_owner'[gd] # r_backlog'[i]
        BY <1>1, <2>1, <2>4, <2>8, <3>1 DEF R_Queue
      <4>2. ASSUME NEW j \in 1 .. Len(r_backlog'), r_backlog'[i] = r_backlog'[j] PROVE i = j
        <5>1. i + 1 = j + 1
          BY <1>1, <2>4, <3>1, <4>2 DEF R_Queue
        <5> QED BY <5>1, <2>4
      <4> QED BY <4>1, <4>2
    <3> QED BY <3>2 DEF R_Queue
  <2>12. R_Clients'
    <3>1. r_client[c] # "new"
      BY <1>1, <2>4 DEF R_Queue
    <3> QED BY <1>1, <2>1, <2>8, <3>1 DEF R_Clients
  <2>13. R_Spaced'
    <3>1. SUFFICES ASSUME r_load = "spaced" PROVE R_Spaced'
      BY <2>1 DEF R_Spaced
    <3>2. r_client[c] \notin R!Gone
      BY <1>1, <2>4, <3>1 DEF R_Spaced
    <3>3. ~R!Removing /\ \A gd \in Fds : ~GoneFd(gd)
      BY <1>1, <2>4, <3>1 DEF R_Spaced
    <3>4. ~R!Removing' /\ \A gd \in Fds : ~GoneFd(gd)'
      BY <2>1, <2>8, <3>2, <3>3 DEF R!Removing, GoneFd
    <3>5. \A w \in R!Workers : r_wpc[w][1] # "clear"
      BY <3>3 DEF R!Removing
    <3>6. \A i \in 1 .. Len(r_backlog') : i + 1 \in 1 .. Len(r_backlog)
      BY <2>4
    <3>7. \A i \in 1 .. Len(r_backlog') : r_client'[r_backlog'[i]] \notin R!Gone
      BY <1>1, <2>1, <2>4, <3>1, <3>6 DEF R_Spaced
    <3> QED BY <1>1, <2>1, <3>1, <3>4, <3>5, <3>7 DEF R_Spaced
  <2> QED BY <2>6, <2>9, <2>10, <2>11, <2>12, <2>13 DEF R_Inv
<1>3. CASE R!AcceptTooHigh
  <2> DEFINE c == Head(r_backlog)
  <2>1. /\ r_apc[1] = "accept" /\ r_backlog # <<>>
        /\ r_client' = [r_client EXCEPT ![c] = "reset"] /\ r_backlog' = Tail(r_backlog)
        /\ UNCHANGED <<r_load, r_owner, registry, r_epoll, r_apc, r_afd, r_rr_counter, r_wpc, r_wfd,
                       r_batch, crashed>>
        /\ R!Workers' = R!Workers
    BY <1>3 DEF R!AcceptTooHigh, R!acceptorVars, R!workerVars, R!Workers
  <2>2. /\ r_backlog \in Seq(Clients) /\ Len(r_backlog) \in Nat /\ Len(r_backlog) # 0
        /\ c \in Clients /\ c = r_backlog[1]
        /\ Len(r_backlog') = Len(r_backlog) - 1 /\ r_backlog' \in Seq(Clients)
        /\ \A i \in 1 .. Len(r_backlog') : r_backlog'[i] = r_backlog[i + 1]
    BY <1>1, <2>1 DEF R_TypeOK
  <2> HIDE DEF c
  <2>3. R_TypeOK'
    BY <1>1, <2>1, <2>2 DEF R_TypeOK
  <2>4. R_Alone' /\ R_Batch'
    BY <1>1, <2>1 DEF R_Alone, R_Batch, RHas
  <2>5. \A d \in Clients : r_client'[d] = IF d = c THEN "reset" ELSE r_client[d]
    BY <1>1, <2>1 DEF R_TypeOK
  <2>6. \A i \in 1 .. Len(r_backlog') : /\ i + 1 \in 1 .. Len(r_backlog) /\ r_backlog'[i] \in Clients
                                        /\ r_backlog[i + 1] # c
    BY <1>1, <2>2 DEF R_Queue
  <2>7. R_Queue'
    <3>1. ASSUME NEW i \in 1 .. Len(r_backlog')
          PROVE  /\ r_client'[r_backlog'[i]] # "new" /\ \A gd \in Fds : r_owner'[gd] # r_backlog'[i]
                 /\ \A j \in 1 .. Len(r_backlog') : r_backlog'[i] = r_backlog'[j] => i = j
      <4>1. r_client'[r_backlog'[i]] # "new" /\ \A gd \in Fds : r_owner'[gd] # r_backlog'[i]
        BY <1>1, <2>1, <2>2, <2>5, <2>6 DEF R_Queue
      <4>2. ASSUME NEW j \in 1 .. Len(r_backlog'), r_backlog'[i] = r_backlog'[j] PROVE i = j
        <5>1. i + 1 = j + 1
          BY <1>1, <2>2, <2>6, <4>2 DEF R_Queue
        <5> QED BY <5>1, <2>2
      <4> QED BY <4>1, <4>2
    <3> QED BY <3>1 DEF R_Queue
  <2>8. R_Clients'
    BY <1>1, <2>1, <2>5 DEF R_Clients
  <2>9. R_Spaced'
    <3>1. SUFFICES ASSUME r_load = "spaced" PROVE R_Spaced'
      BY <2>1 DEF R_Spaced
    <3>2. ~R!Removing /\ \A gd \in Fds : ~GoneFd(gd) /\ r_owner[gd] # c
      BY <1>1, <2>2, <3>1 DEF R_Spaced, R_Queue
    <3>3. ~R!Removing' /\ \A gd \in Fds : ~GoneFd(gd)'
      BY <2>1, <2>5, <3>2 DEF R!Removing, GoneFd
    <3>4. \A i \in 1 .. Len(r_backlog') : r_client'[r_backlog'[i]] \notin R!Gone
      BY <1>1, <2>2, <2>5, <2>6, <3>1 DEF R_Spaced
    <3> QED BY <1>1, <2>1, <3>1, <3>3, <3>4 DEF R_Spaced
  <2> QED BY <2>3, <2>4, <2>7, <2>8, <2>9 DEF R_Inv
<1>4. CASE R!InitClientCtx
  <2>1. /\ r_apc[1] = "init" /\ r_apc' = <<"set", 1>> /\ r_apc'[1] = "set" /\ r_apc'[2] = 1
        /\ r_rr_counter' = r_rr_counter + 1
        /\ UNCHANGED <<r_load, r_client, r_backlog, r_owner, registry, r_epoll, r_afd, r_wpc, r_wfd,
                       r_batch, crashed>>
        /\ R!Workers' = R!Workers
    BY <1>4 DEF R!InitClientCtx, R!clientVars, R!workerVars, R!Workers
  <2>2. R_TypeOK'
    BY <1>1, <2>1 DEF R_TypeOK
  <2>3. R_Alone' /\ R_Batch' /\ R_Queue' /\ R_Clients'
    BY <1>1, <2>1 DEF R_Alone, R_Batch, R_Queue, R_Clients, RHas
  <2>4. R_Spaced'
    BY <1>1, <2>1 DEF R_Spaced, R!Removing, GoneFd
  <2> QED BY <2>2, <2>3, <2>4 DEF R_Inv
<1>5. CASE R!SetField
  <2>1. /\ r_apc[1] = "set" /\ registry' = [registry EXCEPT ![r_afd] = @ \cup {R!Fields[r_apc[2]]}]
        /\ r_apc' = IF r_apc[2] = 3 THEN <<"add", 0>> ELSE <<"set", r_apc[2] + 1>>
        /\ UNCHANGED <<r_load, r_client, r_backlog, r_owner, r_epoll, r_afd, r_rr_counter, r_wpc, r_wfd,
                       r_batch, crashed>>
        /\ R!Workers' = R!Workers
    BY <1>5 DEF R!SetField, R!clientVars, R!workerVars, R!Workers
  <2>2. r_apc[2] \in 1 .. 3
    BY <1>1, <2>1 DEF R_TypeOK
  <2>3. r_afd # None /\ r_afd \in Fds
    BY <1>1, <2>1 DEF R_Alone
  <2>4. R!Fields[r_apc[2]] \in R!AllFields
    BY <2>2
  <2>5. /\ r_apc' \in {"accept", "init", "set", "add"} \X (0 .. 3)
        /\ r_apc'[1] # "accept" /\ (r_apc'[1] = "set" => r_apc'[2] # 0)
        /\ r_apc'[1] = "add" => r_apc[2] = 3
    <3>1. CASE r_apc[2] = 3
      <4>1. r_apc' = <<"add", 0>>
        BY <2>1, <3>1
      <4> QED BY <3>1, <4>1
    <3>2. CASE r_apc[2] # 3
      <4>1. r_apc' = <<"set", r_apc[2] + 1>> /\ r_apc[2] + 1 \in 2 .. 3
        BY <2>1, <2>2, <3>2
      <4> QED BY <4>1
    <3> QED BY <3>1, <3>2
  <2>6. registry' \in [Fds -> SUBSET R!AllFields] /\ \A fd \in Fds : registry[fd] \subseteq registry'[fd]
    <3>1. registry \in [Fds -> SUBSET R!AllFields]
      BY <1>1 DEF R_TypeOK
    <3>2. registry[r_afd] \cup {R!Fields[r_apc[2]]} \in SUBSET R!AllFields
      BY <2>3, <2>4, <3>1
    <3> QED BY <2>1, <2>3, <3>1, <3>2
  <2>7. R_TypeOK'
    BY <1>1, <2>1, <2>5, <2>6 DEF R_TypeOK
  <2>8. R_Alone' /\ R_Batch' /\ R_Queue' /\ R_Clients'
    BY <1>1, <2>1, <2>3, <2>5 DEF R_Alone, R_Batch, R_Queue, R_Clients, RHas
  <2>9. R_Spaced'
    <3>1. SUFFICES ASSUME r_load = "spaced" PROVE R_Spaced'
      BY <2>1 DEF R_Spaced
    <3>2. ~R!Removing' /\ \A gd \in Fds : ~GoneFd(gd)'
      BY <1>1, <2>1, <3>1 DEF R_Spaced, R!Removing, GoneFd
    <3>3. r_apc'[1] = "add" => "app_data" \in registry'[r_afd]
      BY <1>1, <2>1, <2>3, <2>5 DEF R_TypeOK
    <3>4. \A w \in R!Workers : \A fd \in r_epoll[w] : "app_data" \in registry'[fd]
      BY <1>1, <2>6, <3>1 DEF R_Spaced, R_TypeOK
    <3> QED BY <1>1, <2>1, <3>1, <3>2, <3>3, <3>4 DEF R_Spaced
  <2> QED BY <2>7, <2>8, <2>9 DEF R_Inv
<1>6. CASE R!AddToWorker
  <2> DEFINE t == (r_rr_counter - 1) % R!num_cores
  <2>1. /\ r_apc[1] = "add" /\ r_apc' = <<"accept", 0>> /\ r_apc'[1] = "accept" /\ r_afd' = None
        /\ r_epoll' = [r_epoll EXCEPT ![t] = @ \cup {r_afd}]
        /\ UNCHANGED <<r_load, r_client, r_backlog, r_owner, registry, r_rr_counter, r_wpc, r_wfd,
                       r_batch, crashed>>
        /\ R!Workers' = R!Workers
    BY <1>6 DEF R!AddToWorker, R!clientVars, R!workerVars, R!Workers
  <2> HIDE DEF t
  <2>2. /\ r_afd \in Fds /\ r_owner[r_afd] \in Clients /\ (\A w \in R!Workers : ~RHas(w, r_afd))
    BY <1>1, <2>1 DEF R_Alone
  <2>3. /\ \A w \in R!Workers : w # t => r_epoll'[w] = r_epoll[w]
        /\ t \in R!Workers => r_epoll'[t] = r_epoll[t] \cup {r_afd}
    BY <1>1, <2>1 DEF R_TypeOK
  <2>4. R_TypeOK'
    <3>1. r_epoll' \in [R!Workers -> SUBSET Fds]
      BY <1>1, <2>1, <2>2 DEF R_TypeOK
    <3> QED BY <1>1, <2>1, <3>1 DEF R_TypeOK
  <2>5. R_Alone'
    <3>1. \A v \in R!Workers, fd \in Fds : RHas(v, fd)' => RHas(v, fd) \/ (v = t /\ fd = r_afd)
      BY <2>1, <2>3 DEF RHas
    <3> QED BY <1>1, <2>1, <2>2, <3>1 DEF R_Alone
  <2>6. R_Batch'
    BY <1>1, <2>1, <2>2, <2>3 DEF R_Batch, RHas
  <2>7. R_Queue' /\ R_Clients'
    BY <1>1, <2>1 DEF R_Queue, R_Clients
  <2>8. R_Spaced'
    <3>1. SUFFICES ASSUME r_load = "spaced" PROVE R_Spaced'
      BY <2>1 DEF R_Spaced
    <3>2. ~R!Removing' /\ \A gd \in Fds : ~GoneFd(gd)'
      BY <1>1, <2>1, <3>1 DEF R_Spaced, R!Removing, GoneFd
    <3>3. \A w \in R!Workers : \A fd \in r_epoll'[w] : "app_data" \in registry[fd]
      BY <1>1, <2>1, <2>3, <3>1 DEF R_Spaced
    <3> QED BY <1>1, <2>1, <3>1, <3>2, <3>3 DEF R_Spaced
  <2> QED BY <2>4, <2>5, <2>6, <2>7, <2>8 DEF R_Inv
<1> QED BY <1>2, <1>3, <1>4, <1>5, <1>6 DEF R!AcceptorStep

LEMMA R_AloneKept ==
    ASSUME R_Alone, R!Workers' = R!Workers, r_apc' = r_apc, r_afd' = r_afd,
           \A v \in R!Workers, fd \in Fds : RHas(v, fd)' => RHas(v, fd) /\ r_owner'[fd] = r_owner[fd],
           r_afd # None => r_owner'[r_afd] = r_owner[r_afd]
    PROVE  R_Alone'
<1>1. r_afd # None => \A v \in R!Workers : ~RHas(v, r_afd)'
  BY DEF R_Alone, RHas
<1>2. /\ \A w \in R!Workers, fd \in Fds : RHas(w, fd)' => r_owner'[fd] \in Clients
      /\ \A v, w \in R!Workers, fd \in Fds : RHas(v, fd)' /\ RHas(w, fd)' => v = w
  BY DEF R_Alone
<1> QED BY <1>1, <1>2 DEF R_Alone

LEMMA R_WorkerSteps == ASSUME R_Inv, NEW w \in R!Workers, R!WorkerStep(w) PROVE R_Inv'
<1> USE E_Facts, R_Facts
<1>1. R_TypeOK /\ R_Alone /\ R_Batch /\ R_Queue /\ R_Clients /\ R_Spaced
  BY DEF R_Inv
<1>2. /\ UNCHANGED <<r_load, r_backlog, r_apc, r_afd, r_rr_counter>> /\ R!Workers' = R!Workers
  <2>1. DOMAIN r_epoll' = DOMAIN r_epoll /\ UNCHANGED <<r_load, r_backlog, r_apc, r_afd, r_rr_counter>>
    BY DEF R!WorkerStep, R!NextEvent, R!Dispatch, R!HandleNull, R!ClientRead, R!ClientWrite, R!ClientEnd,
           R!CtlDel, R!CloseFd, R!ClearField, R!clientVars, R!acceptorVars
  <2> QED BY <2>1 DEF R!Workers
\* The place of w and what it leads to, as far as a step leaves the sockets alone.
<1> DEFINE Places == {"wait", "dispatch", "handle", "del", "close", "clear"}
<1>3. ASSUME NEW l \in {"wait", "handle", "del"}, r_wpc[w][1] \in {"dispatch", "handle"},
             r_wpc' = [r_wpc EXCEPT ![w] = <<l, 0>>],
             \/ l = "wait" /\ r_wfd' = [r_wfd EXCEPT ![w] = None]
             \/ l # "wait" /\ r_wfd' = r_wfd,
             UNCHANGED <<r_batch, r_epoll, r_owner>>
      PROVE  /\ r_wpc' \in [R!Workers -> Places \X (0 .. 3)]
             /\ r_wfd' \in [R!Workers -> Fds \cup {None}]
             /\ R_Alone' /\ R_Batch'
             /\ r_wpc'[w][1] = l /\ \A v \in R!Workers : v # w => r_wpc'[v] = r_wpc[v] /\ r_wfd'[v] = r_wfd[v]
  <2>1. /\ r_wpc \in [R!Workers -> Places \X (0 .. 3)] /\ r_wfd \in [R!Workers -> Fds \cup {None}]
        /\ r_epoll \in [R!Workers -> SUBSET Fds]
    BY <1>1 DEF R_TypeOK
  <2>2. /\ r_wpc' \in [R!Workers -> Places \X (0 .. 3)] /\ r_wfd' \in [R!Workers -> Fds \cup {None}]
    BY <1>3, <2>1
  <2>3. r_wpc'[w] = <<l, 0>> /\ r_wpc'[w][1] = l
    BY <1>3, <2>1
  <2>4. \A v \in R!Workers : v # w => r_wpc'[v] = r_wpc[v] /\ r_wfd'[v] = r_wfd[v]
    BY <1>3, <2>1
  <2>5. \A v \in R!Workers, fd \in Fds : RHas(v, fd)' => RHas(v, fd)
    BY <1>3, <2>3, <2>4 DEF RHas
  <2>6. R_Alone'
    BY <1>1, <1>2, <1>3, <2>5, R_AloneKept
  <2>7. R_Batch'
    <3>1. ASSUME NEW v \in R!Workers
          PROVE  /\ r_batch'[v] \subseteq r_epoll'[v]
                 /\ r_wpc'[v][1] \in {"dispatch", "handle", "del"} => r_wfd'[v] \in r_epoll'[v] \ r_batch'[v]
                 /\ r_wpc'[v][1] = "close" => r_wfd'[v] \in Fds \ r_epoll'[v]
                 /\ r_wpc'[v][1] = "clear" => r_wfd'[v] \in Fds
      <4>1. CASE v = w
        BY <1>1, <1>3, <2>3, <4>1 DEF R_Batch
      <4>2. CASE v # w
        BY <1>1, <1>3, <2>4, <4>2 DEF R_Batch
      <4> QED BY <4>1, <4>2
    <3> QED BY <1>2, <3>1 DEF R_Batch
  <2> QED BY <2>2, <2>3, <2>4, <2>6, <2>7
\* Such a step is Removing only because of a client that is gone.
<1>4. ASSUME NEW l, r_wpc'[w][1] = l, l = "del" => GoneFd(r_wfd[w]) /\ r_wfd[w] \in Fds,
             l \in {"wait", "handle", "dispatch", "del"},
             \A v \in R!Workers : v # w => r_wpc'[v] = r_wpc[v] /\ r_wfd'[v] = r_wfd[v],
             UNCHANGED <<r_epoll, r_owner, registry, crashed>>,
             \A c \in Clients : r_client'[c] \in R!Gone => r_client[c] \in R!Gone
      PROVE  R_Spaced'
  <2>1. SUFFICES ASSUME r_load = "spaced" PROVE R_Spaced'
    BY <1>2 DEF R_Spaced
  <2>2. \A fd \in Fds : GoneFd(fd)' => GoneFd(fd)
    BY <1>4 DEF GoneFd
  <2>3. R!Removing' => R!Removing \/ (GoneFd(r_wfd[w]) /\ r_wfd[w] \in Fds)
    <3>1. SUFFICES ASSUME NEW v \in R!Workers, r_wpc'[v][1] \in {"del", "close", "clear"}
                   PROVE  R!Removing \/ (GoneFd(r_wfd[w]) /\ r_wfd[w] \in Fds)
      BY <1>2 DEF R!Removing
    <3>2. CASE v = w
      BY <1>4, <3>1, <3>2
    <3>3. CASE v # w
      <4>1. r_wpc[v][1] \in {"del", "close", "clear"}
        BY <1>4, <3>1, <3>3
      <4>2. R!Removing
        BY <4>1 DEF R!Removing
      <4> QED BY <4>2
    <3> QED BY <3>2, <3>3
  <2>4. R!Removing' \/ (\E fd \in Fds : GoneFd(fd)') => Len(r_backlog') = 0 /\ r_apc'[1] = "accept"
    BY <1>1, <1>2, <2>1, <2>2, <2>3 DEF R_Spaced
  <2>5. \A i \in 1 .. Len(r_backlog') : r_client'[r_backlog'[i]] \notin R!Gone
    BY <1>1, <1>2, <1>4, <2>1 DEF R_Spaced, R_TypeOK
  <2>6. \A v \in R!Workers : r_wpc'[v][1] = "clear" => r_owner[r_wfd'[v]] = None
    <3>1. ASSUME NEW v \in R!Workers, r_wpc'[v][1] = "clear" PROVE r_owner[r_wfd'[v]] = None
      <4>1. v # w
        BY <1>4, <3>1
      <4> QED BY <1>1, <1>4, <2>1, <3>1, <4>1 DEF R_Spaced
    <3> QED BY <3>1
  <2> QED BY <1>1, <1>2, <1>4, <2>1, <2>4, <2>5, <2>6 DEF R_Spaced
<1>5. ASSUME r_wpc[w][1] \in {"dispatch", "handle", "del"}
      PROVE  /\ r_wfd[w] \in r_epoll[w] /\ r_wfd[w] \in Fds /\ r_owner[r_wfd[w]] \in Clients
  BY <1>1, <1>5 DEF R_Batch, R_Alone, RHas, R_TypeOK
<1> HIDE DEF Places
<1>6. CASE R!NextEvent(w)
  <2> DEFINE evs == IF r_batch[w] # {} THEN r_batch[w] ELSE {fd \in r_epoll[w] : R!Ready(fd)}
  <2>1. PICK fd \in evs : /\ r_wfd' = [r_wfd EXCEPT ![w] = fd]
                          /\ r_batch' = [r_batch EXCEPT ![w] = evs \ {fd}]
    BY <1>6 DEF R!NextEvent
  <2>2. /\ r_wpc[w][1] = "wait" /\ r_wpc' = [r_wpc EXCEPT ![w] = <<"dispatch", 0>>]
        /\ UNCHANGED <<r_client, r_owner, registry, r_epoll, crashed>>
    BY <1>6 DEF R!NextEvent, R!clientVars, R!At, R!Goto
  <2>3. evs \subseteq r_epoll[w] /\ r_epoll[w] \subseteq Fds
    BY <1>1 DEF R_Batch, R_TypeOK
  <2> HIDE DEF evs
  <2>4. /\ r_wpc \in [R!Workers -> {"wait", "dispatch", "handle", "del", "close", "clear"} \X (0 .. 3)]
        /\ r_wfd \in [R!Workers -> Fds \cup {None}] /\ r_batch \in [R!Workers -> SUBSET Fds]
    BY <1>1 DEF R_TypeOK
  <2>5. R_TypeOK'
    <3>1. r_wpc' \in [R!Workers -> {"wait", "dispatch", "handle", "del", "close", "clear"} \X (0 .. 3)]
      BY <2>2, <2>4
    <3>2. r_wfd' \in [R!Workers -> Fds \cup {None}] /\ r_batch' \in [R!Workers -> SUBSET Fds]
      BY <2>1, <2>3, <2>4
    <3> QED BY <1>1, <1>2, <2>2, <3>1, <3>2 DEF R_TypeOK
  <2>6. \A v \in R!Workers : v # w => r_wpc'[v] = r_wpc[v] /\ r_wfd'[v] = r_wfd[v] /\ r_batch'[v] = r_batch[v]
    BY <2>1, <2>2, <2>4
  <2>7. r_wpc'[w] = <<"dispatch", 0>> /\ r_wpc'[w][1] = "dispatch" /\ r_wfd'[w] = fd /\ r_batch'[w] = evs \ {fd}
    BY <2>1, <2>2, <2>4
  <2>8. R_Alone'
    <3>1. \A v \in R!Workers, gd \in Fds : RHas(v, gd)' => RHas(v, gd)
      BY <2>2, <2>6, <2>7 DEF RHas
    <3> QED BY <1>1, <1>2, <2>2, <3>1, R_AloneKept
  <2>9. R_Batch'
    <3>1. ASSUME NEW v \in R!Workers
          PROVE  /\ r_batch'[v] \subseteq r_epoll'[v]
                 /\ r_wpc'[v][1] \in {"dispatch", "handle", "del"} => r_wfd'[v] \in r_epoll'[v] \ r_batch'[v]
                 /\ r_wpc'[v][1] = "close" => r_wfd'[v] \in Fds \ r_epoll'[v]
                 /\ r_wpc'[v][1] = "clear" => r_wfd'[v] \in Fds
      <4>1. CASE v = w
        BY <2>1, <2>2, <2>3, <2>7, <4>1
      <4>2. CASE v # w
        BY <1>1, <2>2, <2>6, <4>2 DEF R_Batch
      <4> QED BY <4>1, <4>2
    <3> QED BY <1>2, <3>1 DEF R_Batch
  <2>10. R_Queue' /\ R_Clients'
    BY <1>1, <1>2, <2>2 DEF R_Queue, R_Clients
  <2>11. R_Spaced'
    BY <1>4, <2>2, <2>6, <2>7
  <2> QED BY <2>5, <2>8, <2>9, <2>10, <2>11 DEF R_Inv
<1>7. CASE R!Dispatch(w)
  <2>1. r_wpc[w][1] = "dispatch" /\ UNCHANGED <<r_client, r_owner, registry, r_epoll, crashed, r_batch>>
    BY <1>7 DEF R!Dispatch, R!At, R!Stay, R!Back, R!clientVars
  <2>2. PICK l \in {"wait", "handle", "del"} :
           /\ r_wpc' = [r_wpc EXCEPT ![w] = <<l, 0>>]
           /\ \/ l = "wait" /\ r_wfd' = [r_wfd EXCEPT ![w] = None]
              \/ l # "wait" /\ r_wfd' = r_wfd
           /\ l = "del" => r_client[r_owner[r_wfd[w]]] = "reset"
    BY <1>7 DEF R!Dispatch, R!Stay, R!Back, R!Goto, R!Peer
  <2>3. /\ r_wpc' \in [R!Workers -> Places \X (0 .. 3)]
        /\ r_wfd' \in [R!Workers -> Fds \cup {None}]
        /\ R_Alone' /\ R_Batch'
        /\ r_wpc'[w][1] = l /\ \A v \in R!Workers : v # w => r_wpc'[v] = r_wpc[v] /\ r_wfd'[v] = r_wfd[v]
    BY <1>3, <2>1, <2>2
  <2>4. l = "del" => GoneFd(r_wfd[w]) /\ r_wfd[w] \in Fds
    BY <1>5, <2>1, <2>2 DEF GoneFd
  <2>5. R_TypeOK'
    BY <1>1, <1>2, <2>1, <2>3 DEF R_TypeOK, Places
  <2>6. R_Queue' /\ R_Clients'
    BY <1>1, <1>2, <2>1 DEF R_Queue, R_Clients
  <2>7. R_Spaced'
    BY <1>4, <2>1, <2>3, <2>4
  <2> QED BY <2>3, <2>5, <2>6, <2>7 DEF R_Inv
<1>8. CASE R!HandleNull(w)
  <2>1. /\ r_wpc[w][1] = "handle" /\ "app_data" \notin registry[r_wfd[w]]
        /\ UNCHANGED <<r_client, r_owner, registry, r_epoll, r_wpc, r_wfd, r_batch>>
    BY <1>8 DEF R!HandleNull, R!At, R!clientVars, R!workerVars
  <2>2. r_load # "spaced"
    BY <1>1, <1>5, <2>1 DEF R_Spaced
  <2>3. R_TypeOK'
    BY <1>1, <1>2, <2>1 DEF R_TypeOK
  <2>4. R_Alone' /\ R_Batch' /\ R_Queue' /\ R_Clients'
    BY <1>1, <1>2, <2>1 DEF R_Alone, R_Batch, R_Queue, R_Clients, RHas
  <2>5. R_Spaced'
    BY <1>2, <2>2 DEF R_Spaced
  <2> QED BY <2>3, <2>4, <2>5 DEF R_Inv
<1>9. CASE R!ClientRead(w) \/ R!ClientWrite(w)
  <2>1. /\ r_wpc[w][1] = "handle" /\ r_wpc' = [r_wpc EXCEPT ![w] = <<"wait", 0>>]
        /\ r_wfd' = [r_wfd EXCEPT ![w] = None]
        /\ UNCHANGED <<r_owner, registry, r_epoll, crashed, r_batch>>
        /\ \/ r_client' = r_client
           \/ r_client' = [r_client EXCEPT ![r_owner[r_wfd[w]]] = IF @ = "sent" THEN "answered" ELSE @]
    BY <1>9 DEF R!ClientRead, R!ClientWrite, R!CanHandle, R!At, R!Back, R!Goto
  <2>2. /\ r_wpc' \in [R!Workers -> Places \X (0 .. 3)]
        /\ r_wfd' \in [R!Workers -> Fds \cup {None}]
        /\ R_Alone' /\ R_Batch'
        /\ r_wpc'[w][1] = "wait"
        /\ \A v \in R!Workers : v # w => r_wpc'[v] = r_wpc[v] /\ r_wfd'[v] = r_wfd[v]
    BY <1>3, <2>1
  <2>3. /\ r_client' \in [Clients -> {"new", "open", "sent", "answered", "left", "reset"}]
        /\ \A c \in Clients : r_client'[c] \in R!Gone => r_client[c] \in R!Gone
        /\ \A c \in Clients : r_client[c] # "new" => r_client'[c] # "new"
    <3>1. r_client \in [Clients -> {"new", "open", "sent", "answered", "left", "reset"}]
      BY <1>1 DEF R_TypeOK
    <3>2. CASE r_client' = r_client
      BY <3>1, <3>2
    <3>3. CASE r_client' = [r_client EXCEPT ![r_owner[r_wfd[w]]] = IF @ = "sent" THEN "answered" ELSE @]
      <4>1. \A c \in Clients : \/ r_client'[c] = r_client[c]
                               \/ r_client[c] = "sent" /\ r_client'[c] = "answered"
        BY <3>1, <3>3
      <4>2. r_client' \in [Clients -> {"new", "open", "sent", "answered", "left", "reset"}]
        BY <1>5, <2>1, <3>1, <3>3
      <4> QED BY <4>1, <4>2
    <3> QED BY <2>1, <3>2, <3>3
  <2>4. R_TypeOK'
    BY <1>1, <1>2, <2>1, <2>2, <2>3 DEF R_TypeOK, Places
  <2>5. R_Queue' /\ R_Clients'
    <3>1. \A i \in 1 .. Len(r_backlog) : r_backlog[i] \in Clients
      BY <1>1 DEF R_TypeOK
    <3> QED BY <1>1, <1>2, <2>1, <2>3, <3>1 DEF R_Queue, R_Clients
  <2>6. R_Spaced'
    BY <1>4, <2>1, <2>2, <2>3
  <2> QED BY <2>2, <2>4, <2>5, <2>6 DEF R_Inv
<1>10. CASE R!ClientEnd(w)
  <2>1. /\ r_wpc[w][1] = "handle" /\ r_wpc' = [r_wpc EXCEPT ![w] = <<"del", 0>>] /\ r_wfd' = r_wfd
        /\ UNCHANGED <<r_client, r_owner, registry, r_epoll, crashed, r_batch>>
        /\ r_client[r_owner[r_wfd[w]]] \in R!Gone
    BY <1>10 DEF R!ClientEnd, R!CanHandle, R!At, R!Stay, R!Goto, R!Peer, R!clientVars
  <2>2. /\ r_wpc' \in [R!Workers -> Places \X (0 .. 3)]
        /\ r_wfd' \in [R!Workers -> Fds \cup {None}]
        /\ R_Alone' /\ R_Batch'
        /\ r_wpc'[w][1] = "del"
        /\ \A v \in R!Workers : v # w => r_wpc'[v] = r_wpc[v] /\ r_wfd'[v] = r_wfd[v]
    BY <1>3, <2>1
  <2>3. GoneFd(r_wfd[w]) /\ r_wfd[w] \in Fds
    BY <1>5, <2>1 DEF GoneFd
  <2>4. R_TypeOK'
    BY <1>1, <1>2, <2>1, <2>2 DEF R_TypeOK, Places
  <2>5. R_Queue' /\ R_Clients'
    BY <1>1, <1>2, <2>1 DEF R_Queue, R_Clients
  <2>6. R_Spaced'
    BY <1>4, <2>1, <2>2, <2>3
  <2> QED BY <2>2, <2>4, <2>5, <2>6 DEF R_Inv
<1>11. CASE R!CtlDel(w)
  <2> DEFINE fd == r_wfd[w]
  <2>1. /\ r_wpc[w][1] = "del" /\ r_wpc' = [r_wpc EXCEPT ![w] = <<"close", 0>>]
        /\ r_epoll' = [r_epoll EXCEPT ![w] = @ \ {fd}]
        /\ UNCHANGED <<r_client, r_owner, registry, r_wfd, r_batch, crashed>>
    BY <1>11 DEF R!CtlDel, R!At, R!Stay, R!Goto, R!clientVars
  <2>2. fd \in r_epoll[w] /\ fd \in Fds /\ fd \notin r_batch[w]
    BY <1>1, <2>1 DEF R_Batch, R_TypeOK
  <2>3. R_TypeOK'
    <3>1. r_epoll' \in [R!Workers -> SUBSET Fds]
      BY <1>1, <2>1 DEF R_TypeOK
    <3>2. r_wpc' \in [R!Workers -> {"wait", "dispatch", "handle", "del", "close", "clear"} \X (0 .. 3)]
      BY <1>1, <2>1 DEF R_TypeOK
    <3> QED BY <1>1, <1>2, <2>1, <3>1, <3>2 DEF R_TypeOK
  <2>4. \A v \in R!Workers : /\ r_wpc'[v] = IF v = w THEN <<"close", 0>> ELSE r_wpc[v]
                             /\ r_epoll'[v] = IF v = w THEN r_epoll[v] \ {fd} ELSE r_epoll[v]
    BY <1>1, <2>1 DEF R_TypeOK
  <2>5. r_wpc'[w][1] = "close" /\ \A v \in R!Workers : v # w => r_wpc'[v][1] = r_wpc[v][1]
    <3>1. r_wpc'[w] = <<"close", 0>> /\ \A v \in R!Workers : v # w => r_wpc'[v] = r_wpc[v]
      BY <2>4
    <3> QED BY <3>1
  <2>6. \A v \in R!Workers, gd \in Fds : RHas(v, gd)' => RHas(v, gd)
    BY <2>1, <2>2, <2>4, <2>5 DEF RHas
  <2>7. R_Alone'
    BY <1>1, <1>2, <2>1, <2>6, R_AloneKept
  <2>8. R_Batch'
    BY <1>1, <1>2, <2>1, <2>2, <2>4, <2>5 DEF R_Batch
  <2>9. R_Queue' /\ R_Clients'
    BY <1>1, <1>2, <2>1 DEF R_Queue, R_Clients
  <2>10. R_Spaced'
    <3>1. R!Removing
      BY <2>1 DEF R!Removing
    <3>2. \A v \in R!Workers : \A gd \in r_epoll'[v] : gd \in r_epoll[v]
      BY <2>4
    <3>3. \A gd \in Fds : GoneFd(gd)' = GoneFd(gd)
      BY <2>1 DEF GoneFd
    <3>4. r_load = "spaced" => \A v \in R!Workers : r_wpc'[v][1] = "clear" => r_owner[r_wfd[v]] = None
      BY <1>1, <2>5 DEF R_Spaced
    <3> QED BY <1>1, <1>2, <2>1, <3>1, <3>2, <3>3, <3>4 DEF R_Spaced
  <2> QED BY <2>3, <2>7, <2>8, <2>9, <2>10 DEF R_Inv
<1>12. CASE R!CloseFd(w)
  <2> DEFINE fd == r_wfd[w]
  <2>1. /\ r_wpc[w][1] = "close" /\ r_wpc' = [r_wpc EXCEPT ![w] = <<"clear", 1>>]
        /\ r_owner' = [r_owner EXCEPT ![fd] = None]
        /\ UNCHANGED <<r_client, r_epoll, registry, r_wfd, r_batch, crashed>>
    BY <1>12 DEF R!CloseFd, R!At, R!clientVars
  <2>2. /\ fd \in Fds /\ fd \notin r_epoll[w] /\ RHas(w, fd)
        /\ \A v \in R!Workers : v # w => ~RHas(v, fd)
    BY <1>1, <2>1 DEF R_Batch, R_Alone, RHas
  <2>3. R_TypeOK'
    <3>1. r_wpc' \in [R!Workers -> {"wait", "dispatch", "handle", "del", "close", "clear"} \X (0 .. 3)]
      BY <1>1, <2>1 DEF R_TypeOK
    <3>2. r_owner' \in [Fds -> Clients \cup {None, Self}]
      BY <1>1, <2>1 DEF R_TypeOK
    <3> QED BY <1>1, <1>2, <2>1, <3>1, <3>2 DEF R_TypeOK
  <2>4. \A v \in R!Workers : r_wpc'[v] = IF v = w THEN <<"clear", 1>> ELSE r_wpc[v]
    BY <1>1, <2>1 DEF R_TypeOK
  <2>5. r_wpc'[w][1] = "clear" /\ \A v \in R!Workers : v # w => r_wpc'[v][1] = r_wpc[v][1]
    BY <2>4
  <2>6. \A gd \in Fds : r_owner'[gd] = IF gd = fd THEN None ELSE r_owner[gd]
    BY <1>1, <2>1, <2>2 DEF R_TypeOK
  <2>7. \A v \in R!Workers, gd \in Fds : RHas(v, gd)' => RHas(v, gd) /\ gd # fd
    BY <2>1, <2>2, <2>5 DEF RHas
  <2>8. R_Alone'
    <3>1. r_afd # None => r_afd \in Fds /\ r_afd # fd
      BY <1>1, <2>2 DEF R_Alone
    <3> QED BY <1>1, <1>2, <2>6, <2>7, <3>1, R_AloneKept
  <2>9. R_Batch'
    BY <1>1, <1>2, <2>1, <2>5 DEF R_Batch
  <2>10. R_Queue' /\ R_Clients'
    <3>1. \A i \in 1 .. Len(r_backlog) : r_backlog[i] \in Clients
      BY <1>1 DEF R_TypeOK
    <3> QED BY <1>1, <1>2, <2>1, <2>6, <3>1 DEF R_Queue, R_Clients
  <2>11. R_Spaced'
    <3>1. R!Removing
      BY <2>1 DEF R!Removing
    <3>2. r_load = "spaced" => \A v \in R!Workers : r_wpc'[v][1] = "clear" => r_owner'[r_wfd[v]] = None
      <4>1. SUFFICES ASSUME r_load = "spaced", NEW v \in R!Workers, r_wpc'[v][1] = "clear"
                     PROVE  r_owner'[r_wfd[v]] = None
        OBVIOUS
      <4>2. CASE v = w
        BY <2>2, <2>6, <4>2
      <4>3. CASE v # w
        <5>1. r_wpc[v][1] = "clear"
          BY <2>5, <4>1, <4>3
        <5>2. r_wfd[v] \in Fds /\ r_owner[r_wfd[v]] = None
          BY <1>1, <4>1, <5>1 DEF R_Batch, R_Spaced
        <5> QED BY <2>6, <5>2
      <4> QED BY <4>2, <4>3
    <3> QED BY <1>1, <1>2, <2>1, <3>1, <3>2 DEF R_Spaced
  <2> QED BY <2>3, <2>8, <2>9, <2>10, <2>11 DEF R_Inv
<1>13. CASE R!ClearField(w)
  <2> DEFINE fd == r_wfd[w]
             k  == r_wpc[w][2]
  <2>1. /\ r_wpc[w][1] = "clear" /\ registry' = [registry EXCEPT ![fd] = @ \ {R!Fields[k]}]
        /\ \/ r_wpc' = [r_wpc EXCEPT ![w] = <<"wait", 0>>] /\ r_wfd' = [r_wfd EXCEPT ![w] = None]
           \/ k # 3 /\ r_wpc' = [r_wpc EXCEPT ![w] = <<"clear", k + 1>>] /\ r_wfd' = r_wfd
        /\ UNCHANGED <<r_client, r_owner, r_epoll, r_batch, crashed>>
    BY <1>13 DEF R!ClearField, R!At, R!Back, R!Goto, R!clientVars
  <2>2. /\ r_wpc \in [R!Workers -> {"wait", "dispatch", "handle", "del", "close", "clear"} \X (0 .. 3)]
        /\ r_wfd \in [R!Workers -> Fds \cup {None}] /\ r_epoll \in [R!Workers -> SUBSET Fds]
        /\ registry \in [Fds -> SUBSET R!AllFields]
    BY <1>1 DEF R_TypeOK
  <2>3. fd \in Fds /\ k \in 0 .. 3
    BY <1>1, <2>1, <2>2 DEF R_Batch
  <2> HIDE DEF k
  <2>4. PICK x \in {"wait", "clear"} \X (0 .. 3) : r_wpc' = [r_wpc EXCEPT ![w] = x]
    <3>1. CASE r_wpc' = [r_wpc EXCEPT ![w] = <<"wait", 0>>]
      <4>1. <<"wait", 0>> \in {"wait", "clear"} \X (0 .. 3)
        OBVIOUS
      <4> QED BY <3>1, <4>1
    <3>2. CASE k # 3 /\ r_wpc' = [r_wpc EXCEPT ![w] = <<"clear", k + 1>>]
      <4>1. <<"clear", k + 1>> \in {"wait", "clear"} \X (0 .. 3)
        BY <2>3, <3>2
      <4> QED BY <3>2, <4>1
    <3> QED BY <2>1, <3>1, <3>2
  <2>5. R_TypeOK'
    <3>1. r_wpc' \in [R!Workers -> {"wait", "dispatch", "handle", "del", "close", "clear"} \X (0 .. 3)]
      BY <2>2, <2>4
    <3>2. r_wfd' \in [R!Workers -> Fds \cup {None}]
      BY <2>1, <2>2
    <3>3. registry' \in [Fds -> SUBSET R!AllFields]
      BY <2>1, <2>2, <2>3
    <3> QED BY <1>1, <1>2, <2>1, <3>1, <3>2, <3>3 DEF R_TypeOK
  <2>6. /\ r_wpc'[w][1] \in {"wait", "clear"}
        /\ \A v \in R!Workers : v # w => r_wpc'[v] = r_wpc[v] /\ r_wfd'[v] = r_wfd[v]
    BY <2>1, <2>2, <2>4
  <2>7. r_wpc'[w][1] = "clear" => r_wfd'[w] = fd
    BY <2>1, <2>2
  <2>8. R_Alone'
    <3>1. \A v \in R!Workers, gd \in Fds : RHas(v, gd)' => RHas(v, gd)
      BY <2>1, <2>6 DEF RHas
    <3> QED BY <1>1, <1>2, <2>1, <3>1, R_AloneKept
  <2>9. R_Batch'
    BY <1>1, <1>2, <2>1, <2>3, <2>6, <2>7 DEF R_Batch
  <2>10. R_Queue' /\ R_Clients'
    BY <1>1, <1>2, <2>1 DEF R_Queue, R_Clients
  <2>11. R_Spaced'
    <3>1. SUFFICES ASSUME r_load = "spaced" PROVE R_Spaced'
      BY <1>2 DEF R_Spaced
    <3>2. R!Removing
      BY <2>1 DEF R!Removing
    <3>3. r_owner[fd] = None
      BY <1>1, <2>1, <3>1 DEF R_Spaced
    <3>4. \A v \in R!Workers : \A gd \in r_epoll[v] : gd \in Fds /\ gd # fd
      BY <1>1, <2>2, <3>3 DEF R_Alone, RHas
    <3>5. \A gd \in Fds : gd # fd => registry'[gd] = registry[gd]
      BY <2>1, <2>2
    <3>6. \A v \in R!Workers : \A gd \in r_epoll[v] : "app_data" \in registry'[gd]
      BY <1>1, <3>1, <3>4, <3>5 DEF R_Spaced
    <3>7. Len(r_backlog) = 0 /\ r_apc[1] = "accept" /\ ~crashed
      BY <1>1, <3>1, <3>2 DEF R_Spaced
    <3>8. \A v \in R!Workers : r_wpc'[v][1] = "clear" => r_owner[r_wfd'[v]] = None
      BY <1>1, <2>6, <2>7, <3>1, <3>3 DEF R_Spaced
    <3> QED BY <1>2, <2>1, <3>6, <3>7, <3>8 DEF R_Spaced
  <2> QED BY <2>5, <2>8, <2>9, <2>10, <2>11 DEF R_Inv
<1> QED BY <1>6, <1>7, <1>8, <1>9, <1>10, <1>11, <1>12, <1>13 DEF R!WorkerStep

LEMMA R_InvStep == R_Inv /\ [R!Next]_(R!vars) => R_Inv'
<1> SUFFICES ASSUME R_Inv, [R!Next]_(R!vars) PROVE R_Inv'
  OBVIOUS
<1>1. CASE UNCHANGED R!vars
  <2>1. /\ UNCHANGED <<r_load, r_client, r_backlog, r_owner, registry, r_epoll, r_apc, r_afd, r_rr_counter,
                       r_wpc, r_wfd, r_batch, crashed>>
        /\ R!Workers' = R!Workers
    BY <1>1 DEF R!vars, R!clientVars, R!acceptorVars, R!workerVars, R!Workers
  <2>2. R_TypeOK' /\ R_Alone' /\ R_Batch'
    BY <2>1 DEF R_Inv, R_TypeOK, R_Alone, R_Batch, RHas
  <2>3. R_Queue' /\ R_Clients' /\ R_Spaced'
    BY <2>1 DEF R_Inv, R_Queue, R_Clients, R_Spaced, R!Removing, GoneFd
  <2> QED BY <2>2, <2>3 DEF R_Inv
<1> QED BY <1>1, R_ClientSteps, R_AcceptorSteps, R_WorkerSteps DEF R!Next

\* A client whose request has been sent and not taken yet has it in the socket.
Waits(c) == r_client[c] = "sent" => c \in r_unread

\* clients[fd] says what its client has been given so far.
Right(fd) ==
    \/ r_ctx[fd] = "READ" /\ Waits(r_owner[fd])
    \/ r_ctx[fd] = "WRITE" /\ r_owner[fd] \notin r_unread /\ r_client[r_owner[fd]] \in {"sent"} \cup R!Gone

\* Contexts: a client has one descriptor; until a worker has that, the request is
\* in the socket and the acceptor starts the context anew.
R_Contexts ==
    /\ r_ctx \in [Fds -> {"STALE", "READ", "WRITE"}] /\ r_unread \in SUBSET Clients
    /\ \A c \in r_unread : r_client[c] \in {"sent"} \cup R!Gone
    /\ \A fd, gd \in Fds : r_owner[fd] \in Clients /\ r_owner[fd] = r_owner[gd] => fd = gd
    /\ \A i \in 1 .. Len(r_backlog) : Waits(r_backlog[i])
    /\ r_afd # None => Waits(r_owner[r_afd])
    /\ r_apc[1] \in {"set", "add"} => r_ctx[r_afd] = "READ"
    /\ \A w \in R!Workers, fd \in Fds : RHas(w, fd) => Right(fd)

\* Handlers: one that is being cleared belongs to a closed descriptor or to a
\* client in reused, so the acceptor's fields stay set for all others.
R_Handlers ==
    /\ reused \in SUBSET Clients
    /\ \A w \in R!Workers, fd \in Fds : RHas(w, fd) /\ r_owner[fd] \notin reused => registry[fd] = R!AllFields
    /\ r_apc[1] = "set" /\ r_owner[r_afd] \notin reused =>
          \A k \in 1 .. 3 : k < r_apc[2] => R!Fields[k] \in registry[r_afd]
    /\ r_apc[1] = "add" /\ r_owner[r_afd] \notin reused => registry[r_afd] = R!AllFields
    /\ \A w \in R!Workers : r_wpc[w][1] = "clear" => r_owner[r_wfd[w]] \in reused \cup {None}
    /\ crashed => \E w \in R!Workers : r_wpc[w][1] = "handle" /\ r_owner[r_wfd[w]] \in reused
    /\ r_load = "spaced" => reused = {}

LEMMA R_ContextsInit == R!Init => R_Contexts /\ R_Handlers
<1> SUFFICES ASSUME R!Init PROVE R_Contexts /\ R_Handlers
  OBVIOUS
<1> USE E_Facts, R_Facts
<1>1. \A w \in R!Workers : r_epoll[w] = {} /\ r_wpc[w] = <<"wait", 0>> /\ r_wpc[w][1] = "wait"
  BY DEF R!Init, R!Workers
<1>2. \A fd \in Fds : r_owner[fd] \notin Clients
  BY DEF R!Init
<1>3. /\ r_apc = <<"accept", 0>> /\ r_apc[1] = "accept" /\ r_afd = None /\ Len(r_backlog) = 0
      /\ crashed = FALSE /\ reused = {} /\ r_unread = {} /\ r_ctx = [fd \in Fds |-> "STALE"]
  BY DEF R!Init
<1>4. \A w \in R!Workers, fd \in Fds : ~RHas(w, fd)
  BY <1>1 DEF RHas
<1> QED BY <1>1, <1>2, <1>3, <1>4 DEF R_Contexts, R_Handlers

\* What no step of a worker does: take a descriptor, or clear one that is open.
LEMMA R_WorkerMoves ==
    ASSUME R_Inv, NEW w \in R!Workers, R!WorkerStep(w)
    PROVE  /\ R!Workers' = R!Workers /\ ~crashed
           /\ UNCHANGED <<r_load, r_backlog, r_apc, r_afd, reused>>
           /\ \A v \in R!Workers, fd \in Fds : RHas(v, fd)' => RHas(v, fd) /\ r_owner'[fd] = r_owner[fd]
           /\ \A v \in R!Workers : r_wpc'[v][1] = "clear" =>
                 \/ r_wpc[v][1] = "clear" /\ r_wfd'[v] = r_wfd[v]
                 \/ r_owner'[r_wfd'[v]] = None
           /\ \A fd \in Fds : \/ r_owner'[fd] = r_owner[fd]
                              \/ r_owner'[fd] = None /\ RHas(w, fd)
<1> USE E_Facts, R_Facts
<1>1. R_TypeOK /\ R_Alone /\ R_Batch
  BY DEF R_Inv
<1>2. /\ R!Workers' = R!Workers /\ ~crashed
      /\ UNCHANGED <<r_load, r_backlog, r_apc, r_afd, reused>>
  <2>1. DOMAIN r_epoll' = DOMAIN r_epoll /\ UNCHANGED <<r_load, r_backlog, r_apc, r_afd, reused>>
    BY DEF R!WorkerStep, R!NextEvent, R!Dispatch, R!HandleNull, R!ClientRead, R!ClientWrite, R!ClientEnd,
           R!CtlDel, R!CloseFd, R!ClearField, R!clientVars, R!acceptorVars
  <2> QED BY <2>1 DEF R!Workers, R!WorkerStep
<1>3. /\ r_wpc \in [R!Workers -> {"wait", "dispatch", "handle", "del", "close", "clear"} \X (0 .. 3)]
      /\ r_wfd \in [R!Workers -> Fds \cup {None}] /\ r_epoll \in [R!Workers -> SUBSET Fds]
      /\ r_owner \in [Fds -> Clients \cup {None, Self}]
  BY <1>1 DEF R_TypeOK
<1>4. CASE R!NextEvent(w) \/ R!Dispatch(w) \/ R!HandleNull(w) \/ R!ClientRead(w) \/ R!ClientWrite(w) \/ R!ClientEnd(w)
  <2>1. r_owner' = r_owner /\ r_epoll' = r_epoll
    BY <1>4 DEF R!NextEvent, R!Dispatch, R!HandleNull, R!ClientRead, R!ClientWrite, R!ClientEnd
  <2>2. \E l \in {"wait", "dispatch", "handle", "del"} :
           \/ r_wpc' = [r_wpc EXCEPT ![w] = <<l, 0>>]
           \/ r_wpc' = r_wpc /\ r_wpc[w][1] = l
    BY <1>4 DEF R!NextEvent, R!Dispatch, R!HandleNull, R!ClientRead, R!ClientWrite, R!ClientEnd, R!Goto,
                R!Stay, R!Back, R!At, R!workerVars
  <2>3. \A v \in R!Workers : v # w => r_wpc'[v] = r_wpc[v]
    BY <1>3, <2>2
  <2>4. r_wpc'[w][1] \in {"wait", "dispatch", "handle", "del"}
    BY <1>3, <2>2
  <2>5. \A v \in R!Workers : v # w => r_wfd'[v] = r_wfd[v]
    <3>1. r_wfd' = r_wfd \/ \E x : r_wfd' = [r_wfd EXCEPT ![w] = x]
      BY <1>4 DEF R!NextEvent, R!Dispatch, R!HandleNull, R!ClientRead, R!ClientWrite, R!ClientEnd, R!Stay,
                  R!Back, R!workerVars
    <3> QED BY <1>3, <3>1
  <2>6. \A v \in R!Workers, fd \in Fds : RHas(v, fd)' => RHas(v, fd)
    BY <2>1, <2>3, <2>4, <2>5 DEF RHas
  <2> QED BY <1>2, <2>1, <2>3, <2>4, <2>5, <2>6
<1>5. CASE R!CtlDel(w)
  <2>1. /\ r_wpc[w][1] = "del" /\ r_wpc' = [r_wpc EXCEPT ![w] = <<"close", 0>>]
        /\ r_epoll' = [r_epoll EXCEPT ![w] = @ \ {r_wfd[w]}] /\ r_owner' = r_owner /\ r_wfd' = r_wfd
    BY <1>5 DEF R!CtlDel, R!At, R!Stay, R!Goto
  <2>2. r_wfd[w] \in r_epoll[w]
    BY <1>1, <2>1 DEF R_Batch
  <2>3. r_wpc'[w][1] = "close" /\ \A v \in R!Workers : v # w => r_wpc'[v] = r_wpc[v]
    BY <1>3, <2>1
  <2>4. \A v \in R!Workers : r_epoll'[v] \subseteq r_epoll[v]
    BY <1>3, <2>1
  <2>5. \A v \in R!Workers, fd \in Fds : RHas(v, fd)' => RHas(v, fd)
    BY <2>1, <2>2, <2>3, <2>4 DEF RHas
  <2> QED BY <1>2, <2>1, <2>3, <2>5
<1>6. CASE R!CloseFd(w)
  <2>1. /\ r_wpc[w][1] = "close" /\ r_wpc' = [r_wpc EXCEPT ![w] = <<"clear", 1>>]
        /\ r_owner' = [r_owner EXCEPT ![r_wfd[w]] = None] /\ r_wfd' = r_wfd /\ r_epoll' = r_epoll
    BY <1>6 DEF R!CloseFd, R!At
  <2>2. /\ r_wfd[w] \in Fds /\ RHas(w, r_wfd[w]) /\ r_wfd[w] \notin r_epoll[w]
        /\ \A v \in R!Workers : v # w => ~RHas(v, r_wfd[w])
    BY <1>1, <2>1 DEF R_Batch, R_Alone, RHas
  <2>3. r_wpc'[w][1] = "clear" /\ \A v \in R!Workers : v # w => r_wpc'[v] = r_wpc[v]
    BY <1>3, <2>1
  <2>4. \A fd \in Fds : r_owner'[fd] = IF fd = r_wfd[w] THEN None ELSE r_owner[fd]
    BY <1>3, <2>1
  <2>5. \A v \in R!Workers, fd \in Fds : RHas(v, fd)' => RHas(v, fd) /\ fd # r_wfd[w]
    BY <2>1, <2>2, <2>3 DEF RHas
  <2> QED BY <1>2, <2>1, <2>2, <2>3, <2>4, <2>5
<1>7. CASE R!ClearField(w)
  <2>1. /\ r_wpc[w][1] = "clear" /\ r_owner' = r_owner /\ r_epoll' = r_epoll
        /\ \/ r_wpc' = [r_wpc EXCEPT ![w] = <<"wait", 0>>] /\ r_wfd' = [r_wfd EXCEPT ![w] = None]
           \/ r_wpc' = [r_wpc EXCEPT ![w] = <<"clear", r_wpc[w][2] + 1>>] /\ r_wfd' = r_wfd
    BY <1>7 DEF R!ClearField, R!At, R!Back, R!Goto
  <2>2. \A v \in R!Workers : v # w => r_wpc'[v] = r_wpc[v] /\ r_wfd'[v] = r_wfd[v]
    BY <1>3, <2>1
  <2>3. r_wpc'[w][1] = "wait" \/ (r_wpc'[w][1] = "clear" /\ r_wfd' = r_wfd)
    <3>1. \/ r_wpc'[w] = <<"wait", 0>>
          \/ r_wpc'[w] = <<"clear", r_wpc[w][2] + 1>> /\ r_wfd' = r_wfd
      BY <1>3, <2>1
    <3> QED BY <3>1
  <2>4. \A v \in R!Workers, fd \in Fds : RHas(v, fd)' => RHas(v, fd)
    BY <2>1, <2>2, <2>3 DEF RHas
  <2> QED BY <1>2, <2>1, <2>2, <2>3, <2>4
<1> QED BY <1>4, <1>5, <1>6, <1>7 DEF R!WorkerStep

LEMMA R_HandlersStep == ASSUME R_Inv, R_Contexts, R_Handlers, R!Next PROVE R_Handlers'
<1> USE E_Facts, R_Facts
<1>1. R_TypeOK /\ R_Alone /\ R_Batch /\ R_Queue /\ R_Spaced
  BY DEF R_Inv
<1>2. /\ registry \in [Fds -> SUBSET R!AllFields] /\ r_owner \in [Fds -> Clients \cup {None, Self}]
      /\ r_apc \in {"accept", "init", "set", "add"} \X (0 .. 3)
      /\ r_backlog \in Seq(Clients) /\ Len(r_backlog) \in Nat
  BY <1>1 DEF R_TypeOK
<1>3. ASSUME NEW c \in Clients, R!Connect(c) \/ R!SendRequest(c) \/ \E how \in R!Gone : R!Leave(c, how)
      PROVE  R_Handlers'
  <2>1. /\ UNCHANGED <<r_load, r_owner, registry, r_epoll, r_apc, r_afd, r_wpc, r_wfd, crashed, reused>>
        /\ R!Workers' = R!Workers
    BY <1>3 DEF R!Connect, R!SendRequest, R!Leave, R!acceptorVars, R!workerVars, R!Workers
  <2> QED BY <2>1 DEF R_Handlers, RHas
<1>4. CASE R!AcceptorStep /\ R!Accept
  <2> DEFINE fd == Min(R!FreeFds)
             c  == Head(r_backlog)
  <2>1. /\ r_apc[1] = "accept" /\ r_apc' = <<"init", 0>> /\ r_apc'[1] = "init" /\ r_afd' = R!Min(R!FreeFds)
        /\ r_backlog # <<>> /\ R!FreeFds # {} /\ ~crashed
        /\ r_owner' = [r_owner EXCEPT ![R!Min(R!FreeFds)] = c]
        /\ UNCHANGED <<r_load, registry, r_epoll, r_wpc, r_wfd, crashed>> /\ R!Workers' = R!Workers
        /\ reused' = IF \E w \in R!Workers : r_wpc[w][1] = "clear" /\ r_wfd[w] = r_afd'
                     THEN reused \cup {c} ELSE reused
    BY <1>4 DEF R!AcceptorStep, R!Accept, R!clientVars, R!workerVars, R!Workers
  <2>2. R!Min(R!FreeFds) = fd
    BY DEF R!Min, Min
  <2>3. fd \in Fds /\ r_owner[fd] = None
    <3>1. R!FreeFds \subseteq Fds /\ R!FreeFds \subseteq Nat
      BY DEF R!FreeFds
    <3>2. Min(R!FreeFds) \in R!FreeFds
      BY <2>1, <3>1, LeastFd
    <3> QED BY <3>2 DEF R!FreeFds
  <2>4. c \in Clients /\ c = r_backlog[1] /\ Len(r_backlog) # 0
    BY <1>2, <2>1
  <2>5. r_afd' = fd /\ \A gd \in Fds : r_owner'[gd] = IF gd = fd THEN c ELSE r_owner[gd]
    BY <1>2, <2>1, <2>2, <2>3
  <2> HIDE DEF fd, c
  <2>6. /\ reused \subseteq reused' /\ reused' \subseteq reused \cup {c}
        /\ (\E w \in R!Workers : r_wpc[w][1] = "clear" /\ r_wfd[w] = fd) => c \in reused'
    BY <2>1, <2>5
  <2>7. \A w \in R!Workers, gd \in Fds : RHas(w, gd)' => RHas(w, gd) /\ gd # fd
    BY <1>1, <2>1, <2>3 DEF R_Alone, RHas
  <2>8. r_load = "spaced" => reused' = {}
    <3>1. SUFFICES ASSUME r_load = "spaced" PROVE reused' = {}
      OBVIOUS
    <3>2. ~R!Removing
      BY <1>1, <2>4, <3>1 DEF R_Spaced
    <3>3. \A w \in R!Workers : r_wpc[w][1] # "clear"
      BY <3>2 DEF R!Removing
    <3> QED BY <2>1, <3>1, <3>3 DEF R_Handlers
  <2>9. \A w \in R!Workers : r_wpc[w][1] = "clear" => r_owner'[r_wfd[w]] \in reused' \cup {None}
    <3>1. ASSUME NEW w \in R!Workers, r_wpc[w][1] = "clear" PROVE r_owner'[r_wfd[w]] \in reused' \cup {None}
      <4>1. r_wfd[w] \in Fds /\ r_owner[r_wfd[w]] \in reused \cup {None}
        BY <1>1, <3>1 DEF R_Batch, R_Handlers
      <4> QED BY <2>5, <2>6, <3>1, <4>1
    <3> QED BY <3>1
  <2>10. \A w \in R!Workers, gd \in Fds : RHas(w, gd)' /\ r_owner'[gd] \notin reused' => registry[gd] = R!AllFields
    BY <2>5, <2>6, <2>7 DEF R_Handlers
  <2>11. reused' \in SUBSET Clients
    BY <2>4, <2>6 DEF R_Handlers
  <2> QED BY <2>1, <2>8, <2>9, <2>10, <2>11 DEF R_Handlers
<1>5. CASE R!AcceptorStep /\ (R!AcceptTooHigh \/ R!InitClientCtx)
  <2>1. /\ UNCHANGED <<r_load, r_owner, registry, r_epoll, r_afd, r_wpc, r_wfd, crashed, reused>>
        /\ R!Workers' = R!Workers
        /\ (r_apc[1] = "accept" /\ r_apc' = r_apc) \/ r_apc' = <<"set", 1>>
    BY <1>5 DEF R!AcceptTooHigh, R!InitClientCtx, R!clientVars, R!acceptorVars, R!workerVars, R!Workers
  <2>2. r_apc'[1] # "add" /\ (r_apc'[1] = "set" => r_apc'[2] = 1)
    BY <2>1
  <2>3. \A w \in R!Workers, fd \in Fds : RHas(w, fd)' = RHas(w, fd)
    BY <2>1 DEF RHas
  <2> QED BY <2>1, <2>2, <2>3 DEF R_Handlers
<1>6. CASE R!AcceptorStep /\ R!SetField
  <2>1. /\ r_apc[1] = "set" /\ registry' = [registry EXCEPT ![r_afd] = @ \cup {R!Fields[r_apc[2]]}]
        /\ r_apc' = IF r_apc[2] = 3 THEN <<"add", 0>> ELSE <<"set", r_apc[2] + 1>>
        /\ UNCHANGED <<r_load, r_owner, r_epoll, r_afd, r_wpc, r_wfd, crashed, reused>>
        /\ R!Workers' = R!Workers /\ ~crashed
    BY <1>6 DEF R!AcceptorStep, R!SetField, R!clientVars, R!workerVars, R!Workers
  <2>2. r_afd \in Fds /\ r_apc[2] \in 1 .. 3 /\ \A w \in R!Workers : ~RHas(w, r_afd)
    BY <1>1, <2>1 DEF R_Alone, R_TypeOK
  <2>3. /\ registry'[r_afd] = registry[r_afd] \cup {R!Fields[r_apc[2]]} /\ registry'[r_afd] \subseteq R!AllFields
        /\ \A fd \in Fds : fd # r_afd => registry'[fd] = registry[fd]
    <3>1. R!Fields[r_apc[2]] \in R!AllFields
      BY <2>2
    <3> QED BY <1>2, <2>1, <2>2, <3>1
  <2>4. r_owner[r_afd] \notin reused => \A k \in 1 .. r_apc[2] : R!Fields[k] \in registry'[r_afd]
    BY <2>1, <2>2, <2>3 DEF R_Handlers
  <2>5. r_apc'[1] = "set" => r_apc'[2] = r_apc[2] + 1
    BY <2>1, <2>2
  <2>6. r_apc'[1] = "add" => r_apc[2] = 3
    BY <2>1, <2>2
  <2>7. r_apc'[1] = "add" /\ r_owner[r_afd] \notin reused => registry'[r_afd] = R!AllFields
    <3>1. SUFFICES ASSUME r_apc'[1] = "add", r_owner[r_afd] \notin reused PROVE registry'[r_afd] = R!AllFields
      OBVIOUS
    <3>2. R!Fields[1] \in registry'[r_afd] /\ R!Fields[2] \in registry'[r_afd] /\ R!Fields[3] \in registry'[r_afd]
      BY <2>4, <2>6, <3>1
    <3> QED BY <2>3, <3>2
  <2>8. \A w \in R!Workers, fd \in Fds : RHas(w, fd)' => RHas(w, fd) /\ fd # r_afd
    BY <2>1, <2>2 DEF RHas
  <2>9. \A w \in R!Workers, fd \in Fds : RHas(w, fd)' /\ r_owner[fd] \notin reused => registry'[fd] = R!AllFields
    BY <2>3, <2>8 DEF R_Handlers
  <2>10. r_apc'[1] = "set" /\ r_owner[r_afd] \notin reused =>
            \A k \in 1 .. 3 : k < r_apc'[2] => R!Fields[k] \in registry'[r_afd]
    BY <2>2, <2>4, <2>5
  <2> QED BY <2>1, <2>7, <2>9, <2>10 DEF R_Handlers
<1>7. CASE R!AcceptorStep /\ R!AddToWorker
  <2> DEFINE t == (r_rr_counter - 1) % R!num_cores
  <2>1. /\ r_apc[1] = "add" /\ r_apc' = <<"accept", 0>> /\ r_apc'[1] = "accept" /\ ~crashed
        /\ r_epoll' = [r_epoll EXCEPT ![t] = @ \cup {r_afd}]
        /\ UNCHANGED <<r_load, r_owner, registry, r_wpc, r_wfd, crashed, reused>> /\ R!Workers' = R!Workers
    BY <1>7 DEF R!AcceptorStep, R!AddToWorker, R!clientVars, R!workerVars, R!Workers
  <2> HIDE DEF t
  <2>2. r_epoll \in [R!Workers -> SUBSET Fds]
    BY <1>1 DEF R_TypeOK
  <2>3. \A v \in R!Workers, fd \in Fds : RHas(v, fd)' => RHas(v, fd) \/ fd = r_afd
    BY <2>1, <2>2 DEF RHas
  <2>4. \A v \in R!Workers, fd \in Fds : RHas(v, fd)' /\ r_owner[fd] \notin reused => registry[fd] = R!AllFields
    BY <2>1, <2>3 DEF R_Handlers
  <2> QED BY <2>1, <2>4 DEF R_Handlers
<1>8. ASSUME NEW w \in R!Workers, R!WorkerStep(w) PROVE R_Handlers'
  <2>1. /\ R!Workers' = R!Workers /\ ~crashed
        /\ UNCHANGED <<r_load, r_backlog, r_apc, r_afd, reused>>
        /\ \A v \in R!Workers, fd \in Fds : RHas(v, fd)' => RHas(v, fd) /\ r_owner'[fd] = r_owner[fd]
        /\ \A v \in R!Workers : r_wpc'[v][1] = "clear" =>
              \/ r_wpc[v][1] = "clear" /\ r_wfd'[v] = r_wfd[v]
              \/ r_owner'[r_wfd'[v]] = None
        /\ \A fd \in Fds : r_owner'[fd] = r_owner[fd] \/ (r_owner'[fd] = None /\ RHas(w, fd))
    BY <1>8, R_WorkerMoves
  <2>2. \A v \in R!Workers : r_wpc'[v][1] = "clear" => r_owner'[r_wfd'[v]] \in reused' \cup {None}
    <3>1. ASSUME NEW v \in R!Workers, r_wpc'[v][1] = "clear", r_wpc[v][1] = "clear", r_wfd'[v] = r_wfd[v]
          PROVE  r_owner'[r_wfd'[v]] \in reused \cup {None}
      <4>1. r_wfd[v] \in Fds /\ r_owner[r_wfd[v]] \in reused \cup {None}
        BY <1>1, <3>1 DEF R_Batch, R_Handlers
      <4> QED BY <2>1, <3>1, <4>1
    <3> QED BY <2>1, <3>1
  <2>3. r_apc[1] \in {"set", "add"} => r_afd \in Fds /\ r_owner'[r_afd] = r_owner[r_afd]
    BY <1>1, <2>1 DEF R_Alone
  <2>4. ASSUME NEW fd \in Fds, r_owner[fd] \notin reused, r_owner[fd] \in Clients PROVE registry'[fd] = registry[fd]
    <3>1. CASE R!ClearField(w)
      <4>1. r_wpc[w][1] = "clear" /\ registry' = [registry EXCEPT ![r_wfd[w]] = @ \ {R!Fields[r_wpc[w][2]]}]
        BY <3>1 DEF R!ClearField, R!At
      <4>2. r_wfd[w] # fd
        BY <2>4, <4>1 DEF R_Handlers
      <4> QED BY <1>2, <4>1, <4>2
    <3>2. CASE ~R!ClearField(w)
      BY <1>8, <3>2 DEF R!WorkerStep, R!NextEvent, R!Dispatch, R!HandleNull, R!ClientRead, R!ClientWrite,
                        R!ClientEnd, R!CtlDel, R!CloseFd
    <3> QED BY <3>1, <3>2
  <2>5. \A v \in R!Workers, fd \in Fds : RHas(v, fd)' /\ r_owner'[fd] \notin reused => registry'[fd] = R!AllFields
    BY <1>1, <2>1, <2>4 DEF R_Alone, R_Handlers
  <2>6. /\ r_apc[1] = "set" /\ r_owner'[r_afd] \notin reused =>
              \A k \in 1 .. 3 : k < r_apc[2] => R!Fields[k] \in registry'[r_afd]
        /\ r_apc[1] = "add" /\ r_owner'[r_afd] \notin reused => registry'[r_afd] = R!AllFields
    <3>1. r_apc[1] \in {"set", "add"} /\ r_owner[r_afd] \notin reused => registry'[r_afd] = registry[r_afd]
      BY <1>1, <2>3, <2>4 DEF R_Alone
    <3> QED BY <2>3, <3>1 DEF R_Handlers
  <2>7. crashed' => \E v \in R!Workers : r_wpc'[v][1] = "handle" /\ r_owner'[r_wfd'[v]] \in reused
    <3>1. CASE R!HandleNull(w)
      <4>1. /\ r_wpc[w][1] = "handle" /\ "app_data" \notin registry[r_wfd[w]]
            /\ UNCHANGED <<r_wpc, r_wfd, r_owner>>
        BY <3>1 DEF R!HandleNull, R!At, R!workerVars
      <4>2. r_wfd[w] \in Fds /\ RHas(w, r_wfd[w])
        BY <1>1, <4>1 DEF R_Batch, R_TypeOK, RHas
      <4>3. registry[r_wfd[w]] # R!AllFields
        BY <4>1
      <4>4. r_owner[r_wfd[w]] \in reused
        BY <4>2, <4>3 DEF R_Handlers
      <4> QED BY <4>1, <4>4
    <3>2. CASE ~R!HandleNull(w)
      <4>1. crashed' = crashed
        BY <1>8, <3>2 DEF R!WorkerStep, R!NextEvent, R!Dispatch, R!ClientRead, R!ClientWrite, R!ClientEnd,
                          R!CtlDel, R!CloseFd, R!ClearField
      <4> QED BY <2>1, <4>1
    <3> QED BY <3>1, <3>2
  <2> QED BY <2>1, <2>2, <2>5, <2>6, <2>7 DEF R_Handlers
<1> QED BY <1>3, <1>4, <1>5, <1>6, <1>7, <1>8 DEF R!Next, R!AcceptorStep

LEMMA R_ContextsStep == ASSUME R_Inv, R_Contexts, R!Next PROVE R_Contexts'
<1> USE E_Facts, R_Facts
<1>1. R_TypeOK /\ R_Alone /\ R_Batch /\ R_Queue
  BY DEF R_Inv
<1>2. /\ r_owner \in [Fds -> Clients \cup {None, Self}]
      /\ r_client \in [Clients -> {"new", "open", "sent", "answered", "left", "reset"}]
      /\ r_backlog \in Seq(Clients) /\ Len(r_backlog) \in Nat
      /\ \A i \in 1 .. Len(r_backlog) : r_backlog[i] \in Clients
  BY <1>1 DEF R_TypeOK
<1>3. /\ r_ctx \in [Fds -> {"STALE", "READ", "WRITE"}] /\ r_unread \in SUBSET Clients
      /\ \A c \in r_unread : r_client[c] \in {"sent"} \cup R!Gone
      /\ \A fd, gd \in Fds : r_owner[fd] \in Clients /\ r_owner[fd] = r_owner[gd] => fd = gd
      /\ \A w \in R!Workers, fd \in Fds : RHas(w, fd) => Right(fd) /\ r_owner[fd] \in Clients
      /\ r_afd # None => r_owner[r_afd] \in Clients /\ Waits(r_owner[r_afd])
  BY <1>1 DEF R_Contexts, R_Alone
<1>4. ASSUME NEW c \in Clients, R!Connect(c) PROVE R_Contexts'
  <2>1. /\ r_client[c] = "new" /\ r_client' = [r_client EXCEPT ![c] = "open"] /\ r_backlog' = Append(r_backlog, c)
        /\ UNCHANGED <<r_unread, r_owner, r_ctx, r_epoll, r_apc, r_afd, r_wpc, r_wfd>> /\ R!Workers' = R!Workers
    BY <1>4 DEF R!Connect, R!acceptorVars, R!workerVars, R!Workers
  <2>2. \A d \in Clients : r_client'[d] = IF d = c THEN "open" ELSE r_client[d]
    BY <1>2, <2>1
  <2>3. c \notin r_unread /\ \A d \in Clients : Waits(d) => Waits(d)'
    BY <1>3, <2>1, <2>2 DEF Waits
  <2>4. Waits(c)'
    BY <2>2 DEF Waits
  <2>5. \A i \in 1 .. Len(r_backlog') : Waits(r_backlog[i])'
    <3>1. ASSUME NEW i \in 1 .. Len(r_backlog') PROVE Waits(r_backlog[i])'
      <4>1. CASE i \in 1 .. Len(r_backlog)
        <5>1. r_backlog'[i] = r_backlog[i] /\ r_backlog[i] \in Clients /\ Waits(r_backlog[i])
          BY <1>2, <2>1, <4>1 DEF R_Contexts
        <5> QED BY <2>1, <2>2, <5>1 DEF Waits
      <4>2. CASE i \notin 1 .. Len(r_backlog)
        <5>1. r_backlog'[i] = c
          BY <1>2, <2>1, <4>2
        <5> QED BY <2>2, <5>1 DEF Waits
      <4> QED BY <4>1, <4>2
    <3> QED BY <3>1
  <2>6. \A w \in R!Workers, fd \in Fds : RHas(w, fd)' => Right(fd)'
    BY <1>3, <2>1, <2>2 DEF RHas, Right, Waits
  <2>7. r_afd' # None => Waits(r_owner[r_afd])'
    BY <1>3, <2>1, <2>2 DEF Waits
  <2>8. \A d \in r_unread : r_client'[d] \in {"sent"} \cup R!Gone
    BY <1>3, <2>2, <2>3
  <2> QED BY <1>3, <2>1, <2>5, <2>6, <2>7, <2>8 DEF R_Contexts
<1>5. ASSUME NEW c \in Clients, R!SendRequest(c) PROVE R_Contexts'
  <2>1. /\ r_client[c] = "open" /\ r_client' = [r_client EXCEPT ![c] = "sent"] /\ r_unread' = r_unread \cup {c}
        /\ UNCHANGED <<r_backlog, r_owner, r_ctx, r_epoll, r_apc, r_afd, r_wpc, r_wfd>> /\ R!Workers' = R!Workers
    BY <1>5 DEF R!SendRequest, R!acceptorVars, R!workerVars, R!Workers
  <2>2. \A d \in Clients : r_client'[d] = IF d = c THEN "sent" ELSE r_client[d]
    BY <1>2, <2>1
  <2>3. \A i \in 1 .. Len(r_backlog) : Waits(r_backlog[i])'
    BY <1>2, <2>1, <2>2 DEF Waits, R_Contexts
  <2>4. \A w \in R!Workers, fd \in Fds : RHas(w, fd)' => Right(fd)'
    BY <1>3, <2>1, <2>2 DEF RHas, Right, Waits
  <2>5. r_afd' # None => Waits(r_owner[r_afd])'
    BY <1>3, <2>1, <2>2 DEF Waits
  <2>6. r_unread' \in SUBSET Clients /\ \A d \in r_unread' : r_client'[d] \in {"sent"} \cup R!Gone
    BY <1>3, <2>1, <2>2
  <2> QED BY <1>3, <2>1, <2>3, <2>4, <2>5, <2>6 DEF R_Contexts
<1>6. ASSUME NEW c \in Clients, NEW how \in R!Gone, R!Leave(c, how) PROVE R_Contexts'
  <2>1. /\ r_client' = [r_client EXCEPT ![c] = how]
        /\ UNCHANGED <<r_unread, r_backlog, r_owner, r_ctx, r_epoll, r_apc, r_afd, r_wpc, r_wfd>>
        /\ R!Workers' = R!Workers
    BY <1>6 DEF R!Leave, R!acceptorVars, R!workerVars, R!Workers
  <2>2. \A d \in Clients : r_client'[d] = IF d = c THEN how ELSE r_client[d]
    BY <1>2, <2>1
  <2>3. \A i \in 1 .. Len(r_backlog) : Waits(r_backlog[i])'
    BY <1>2, <2>1, <2>2 DEF Waits, R_Contexts
  <2>4. \A w \in R!Workers, fd \in Fds : RHas(w, fd)' => Right(fd)'
    BY <1>3, <2>1, <2>2 DEF RHas, Right, Waits
  <2>5. r_afd' # None => Waits(r_owner[r_afd])'
    BY <1>3, <2>1, <2>2 DEF Waits
  <2>6. \A d \in r_unread' : r_client'[d] \in {"sent"} \cup R!Gone
    BY <1>3, <2>1, <2>2
  <2> QED BY <1>3, <2>1, <2>3, <2>4, <2>5, <2>6 DEF R_Contexts
<1>7. CASE R!Accept
  <2> DEFINE fd == Min(R!FreeFds)
             c  == Head(r_backlog)
  <2>1. /\ r_apc[1] = "accept" /\ r_apc' = <<"init", 0>> /\ r_apc'[1] = "init" /\ r_afd' = R!Min(R!FreeFds)
        /\ r_backlog # <<>> /\ R!FreeFds # {}
        /\ r_owner' = [r_owner EXCEPT ![R!Min(R!FreeFds)] = c] /\ r_backlog' = Tail(r_backlog)
        /\ UNCHANGED <<r_client, r_unread, r_ctx, r_epoll, r_wpc, r_wfd>> /\ R!Workers' = R!Workers
    BY <1>7 DEF R!Accept, R!clientVars, R!workerVars, R!Workers
  <2>2. R!Min(R!FreeFds) = fd
    BY DEF R!Min, Min
  <2>3. fd \in Fds /\ r_owner[fd] = None
    <3>1. R!FreeFds \subseteq Fds /\ R!FreeFds \subseteq Nat
      BY DEF R!FreeFds
    <3>2. Min(R!FreeFds) \in R!FreeFds
      BY <2>1, <3>1, LeastFd
    <3> QED BY <3>2 DEF R!FreeFds
  <2>4. /\ c \in Clients /\ c = r_backlog[1] /\ Len(r_backlog) # 0 /\ Len(r_backlog') = Len(r_backlog) - 1
        /\ \A i \in 1 .. Len(r_backlog') : r_backlog'[i] = r_backlog[i + 1]
    BY <1>2, <2>1
  <2>5. r_afd' = fd /\ \A gd \in Fds : r_owner'[gd] = IF gd = fd THEN c ELSE r_owner[gd]
    BY <1>2, <2>1, <2>2, <2>3
  <2> HIDE DEF fd, c
  <2>6. Waits(c) /\ \A gd \in Fds : r_owner[gd] # c
    BY <1>1, <1>2, <2>4 DEF R_Contexts, R_Queue
  <2>7. \A i \in 1 .. Len(r_backlog') : Waits(r_backlog[i])'
    <3>1. ASSUME NEW i \in 1 .. Len(r_backlog') PROVE Waits(r_backlog[i])'
      <4>1. i + 1 \in 1 .. Len(r_backlog) /\ r_backlog'[i] = r_backlog[i + 1]
        BY <1>2, <2>4
      <4>2. Waits(r_backlog'[i])
        BY <4>1 DEF R_Contexts
      <4> QED BY <2>1, <4>2 DEF Waits
    <3> QED BY <3>1
  <2>8. \A w \in R!Workers, gd \in Fds : RHas(w, gd)' => RHas(w, gd) /\ gd # fd
    BY <1>3, <2>1, <2>3 DEF RHas
  <2>9. \A w \in R!Workers, gd \in Fds : RHas(w, gd)' => Right(gd)'
    <3>1. ASSUME NEW w \in R!Workers, NEW gd \in Fds, RHas(w, gd)' PROVE Right(gd)'
      <4>1. Right(gd) /\ r_owner'[gd] = r_owner[gd]
        BY <1>3, <2>5, <2>8, <3>1
      <4> QED BY <2>1, <4>1 DEF Right, Waits
    <3> QED BY <3>1
  <2>10. Waits(r_owner[r_afd])'
    <3>1. r_owner'[r_afd'] = c
      BY <2>3, <2>5
    <3> QED BY <2>1, <2>6, <3>1 DEF Waits
  <2>11. \A gd, hd \in Fds : r_owner'[gd] \in Clients /\ r_owner'[gd] = r_owner'[hd] => gd = hd
    BY <1>3, <2>5, <2>6
  <2> QED BY <1>3, <2>1, <2>7, <2>9, <2>10, <2>11 DEF R_Contexts
<1>8. CASE R!AcceptTooHigh
  <2> DEFINE c == Head(r_backlog)
  <2>1. /\ r_backlog # <<>> /\ r_client' = [r_client EXCEPT ![c] = "reset"] /\ r_backlog' = Tail(r_backlog)
        /\ UNCHANGED <<r_unread, r_owner, r_ctx, r_epoll, r_apc, r_afd, r_wpc, r_wfd>> /\ R!Workers' = R!Workers
    BY <1>8 DEF R!AcceptTooHigh, R!acceptorVars, R!workerVars, R!Workers
  <2>2. /\ c \in Clients /\ Len(r_backlog) # 0 /\ Len(r_backlog') = Len(r_backlog) - 1
        /\ \A i \in 1 .. Len(r_backlog') : r_backlog'[i] = r_backlog[i + 1]
    BY <1>2, <2>1
  <2> HIDE DEF c
  <2>3. \A d \in Clients : r_client'[d] = IF d = c THEN "reset" ELSE r_client[d]
    BY <1>2, <2>1
  <2>4. \A i \in 1 .. Len(r_backlog') : Waits(r_backlog[i])'
    <3>1. ASSUME NEW i \in 1 .. Len(r_backlog') PROVE Waits(r_backlog[i])'
      <4>1. i + 1 \in 1 .. Len(r_backlog) /\ r_backlog'[i] = r_backlog[i + 1]
        BY <1>2, <2>2
      <4>2. Waits(r_backlog'[i]) /\ r_backlog'[i] \in Clients
        BY <1>2, <4>1 DEF R_Contexts
      <4> QED BY <2>1, <2>3, <4>2 DEF Waits
    <3> QED BY <3>1
  <2>5. \A w \in R!Workers, fd \in Fds : RHas(w, fd)' => Right(fd)'
    BY <1>3, <2>1, <2>3 DEF RHas, Right, Waits
  <2>6. r_afd' # None => Waits(r_owner[r_afd])'
    BY <1>3, <2>1, <2>3 DEF Waits
  <2>7. \A d \in r_unread' : r_client'[d] \in {"sent"} \cup R!Gone
    BY <1>3, <2>1, <2>3
  <2> QED BY <1>3, <2>1, <2>4, <2>5, <2>6, <2>7 DEF R_Contexts
<1>9. CASE R!InitClientCtx
  <2>1. /\ r_apc[1] = "init" /\ r_apc' = <<"set", 1>> /\ r_ctx' = [r_ctx EXCEPT ![r_afd] = "READ"]
        /\ UNCHANGED <<r_client, r_unread, r_backlog, r_owner, r_epoll, r_afd, r_wpc, r_wfd>>
        /\ R!Workers' = R!Workers
    BY <1>9 DEF R!InitClientCtx, R!clientVars, R!workerVars, R!Workers
  <2>2. r_afd \in Fds /\ \A w \in R!Workers : ~RHas(w, r_afd)
    BY <1>1, <2>1 DEF R_Alone
  <2>3. \A fd \in Fds : r_ctx'[fd] = IF fd = r_afd THEN "READ" ELSE r_ctx[fd]
    BY <1>3, <2>1
  <2>4. r_ctx' \in [Fds -> {"STALE", "READ", "WRITE"}]
    BY <1>3, <2>1
  <2>5. \A w \in R!Workers, fd \in Fds : RHas(w, fd)' => Right(fd)'
    BY <1>3, <2>1, <2>2, <2>3 DEF RHas, Right, Waits
  <2> QED BY <1>3, <2>1, <2>2, <2>3, <2>4, <2>5 DEF R_Contexts, Waits
<1>10. CASE R!SetField
  <2>1. /\ r_apc[1] = "set" /\ r_afd' = r_afd
        /\ UNCHANGED <<r_client, r_unread, r_backlog, r_owner, r_ctx, r_epoll, r_wpc, r_wfd>>
        /\ R!Workers' = R!Workers
    BY <1>10 DEF R!SetField, R!clientVars, R!workerVars, R!Workers
  <2>2. \A w \in R!Workers, fd \in Fds : RHas(w, fd)' => Right(fd)'
    BY <1>3, <2>1 DEF RHas, Right, Waits
  <2> QED BY <1>3, <2>1, <2>2 DEF R_Contexts, Waits
<1>11. CASE R!AddToWorker
  <2> DEFINE t == (r_rr_counter - 1) % R!num_cores
  <2>1. /\ r_apc[1] = "add" /\ r_apc' = <<"accept", 0>> /\ r_afd' = None
        /\ r_epoll' = [r_epoll EXCEPT ![t] = @ \cup {r_afd}]
        /\ UNCHANGED <<r_client, r_unread, r_backlog, r_owner, r_ctx, r_wpc, r_wfd>> /\ R!Workers' = R!Workers
    BY <1>11 DEF R!AddToWorker, R!clientVars, R!workerVars, R!Workers
  <2> HIDE DEF t
  <2>2. r_epoll \in [R!Workers -> SUBSET Fds] /\ r_afd # None
    BY <1>1, <2>1 DEF R_TypeOK, R_Alone
  <2>3. Right(r_afd)
    BY <1>3, <2>1, <2>2 DEF R_Contexts, Right
  <2>4. \A v \in R!Workers, fd \in Fds : RHas(v, fd)' => RHas(v, fd) \/ fd = r_afd
    BY <2>1, <2>2 DEF RHas
  <2>5. \A v \in R!Workers, fd \in Fds : RHas(v, fd)' => Right(fd)'
    <3>1. ASSUME NEW v \in R!Workers, NEW fd \in Fds, RHas(v, fd)' PROVE Right(fd)'
      <4>1. Right(fd)
        BY <1>3, <2>3, <2>4, <3>1
      <4> QED BY <2>1, <4>1 DEF Right, Waits
    <3> QED BY <3>1
  <2>6. \A i \in 1 .. Len(r_backlog) : Waits(r_backlog[i])'
    BY <2>1 DEF R_Contexts, Waits
  <2> QED BY <1>3, <2>1, <2>5, <2>6 DEF R_Contexts
<1>12. ASSUME NEW w \in R!Workers, R!WorkerStep(w) PROVE R_Contexts'
  <2>1. /\ R!Workers' = R!Workers /\ UNCHANGED <<r_backlog, r_apc, r_afd>>
        /\ \A v \in R!Workers, fd \in Fds : RHas(v, fd)' => RHas(v, fd) /\ r_owner'[fd] = r_owner[fd]
        /\ \A fd \in Fds : r_owner'[fd] = r_owner[fd] \/ (r_owner'[fd] = None /\ RHas(w, fd))
    BY <1>12, R_WorkerMoves
  <2>2. r_afd # None => r_afd \in Fds /\ r_owner'[r_afd] = r_owner[r_afd]
    BY <1>1, <2>1 DEF R_Alone
  <2>3. \A fd, gd \in Fds : r_owner'[fd] \in Clients /\ r_owner'[fd] = r_owner'[gd] => fd = gd
    BY <1>3, <2>1
  <2>4. CASE UNCHANGED <<r_client, r_unread, r_ctx>>
    <3>1. \A v \in R!Workers, fd \in Fds : RHas(v, fd)' => Right(fd)'
      <4>1. ASSUME NEW v \in R!Workers, NEW fd \in Fds, RHas(v, fd)' PROVE Right(fd)'
        <5>1. Right(fd) /\ r_owner'[fd] = r_owner[fd]
          BY <1>3, <2>1, <4>1
        <5> QED BY <2>4, <5>1 DEF Right, Waits
      <4> QED BY <4>1
    <3>2. r_afd' # None => Waits(r_owner[r_afd])'
      BY <1>3, <2>1, <2>2, <2>4 DEF Waits
    <3>3. \A i \in 1 .. Len(r_backlog) : Waits(r_backlog[i])'
      BY <2>1, <2>4 DEF R_Contexts, Waits
    <3> QED BY <1>3, <2>1, <2>3, <2>4, <3>1, <3>2, <3>3 DEF R_Contexts
  <2>5. CASE R!ClientRead(w) \/ R!ClientWrite(w)
    <3>1. r_wpc[w][1] = "handle" /\ r_owner' = r_owner
      BY <2>5 DEF R!ClientRead, R!ClientWrite, R!CanHandle, R!At
    <3>2. PICK fd \in Fds, c \in Clients : fd = r_wfd[w] /\ c = r_owner[fd] /\ RHas(w, fd)
      BY <1>1, <1>3, <3>1 DEF R_Batch, R_TypeOK, RHas
    <3>3. /\ \/ /\ c \in r_unread /\ r_unread' = r_unread \ {c} /\ r_client' = r_client
                /\ r_ctx' = [r_ctx EXCEPT ![fd] = "WRITE"]
             \/ /\ r_ctx[fd] = "WRITE" /\ r_unread' = r_unread
                /\ r_client' = [r_client EXCEPT ![c] = IF @ = "sent" THEN "answered" ELSE @]
                /\ r_ctx' = [r_ctx EXCEPT ![fd] = "READ"]
      BY <2>5, <3>2 DEF R!ClientRead, R!ClientWrite
    <3>4. c \notin r_unread' /\ \A d \in Clients : d # c => r_client'[d] = r_client[d] /\ (d \in r_unread' <=> d \in r_unread)
      <4>1. r_ctx[fd] = "WRITE" => c \notin r_unread
        BY <1>3, <3>2 DEF Right
      <4> QED BY <1>2, <3>3, <4>1
    <3>5. r_unread' \in SUBSET Clients /\ \A d \in r_unread' : r_client'[d] \in {"sent"} \cup R!Gone
      BY <1>3, <3>3, <3>4
    <3>6. Right(fd)'
      <4>1. CASE c \in r_unread /\ r_client' = r_client /\ r_ctx' = [r_ctx EXCEPT ![fd] = "WRITE"]
        BY <1>3, <3>1, <3>2, <3>4, <4>1 DEF Right
      <4>2. CASE /\ r_client' = [r_client EXCEPT ![c] = IF @ = "sent" THEN "answered" ELSE @]
                 /\ r_ctx' = [r_ctx EXCEPT ![fd] = "READ"]
        <5>1. r_client'[c] # "sent" /\ r_ctx'[fd] = "READ"
          BY <1>2, <1>3, <3>2, <4>2
        <5> QED BY <3>1, <3>2, <5>1 DEF Right, Waits
      <4> QED BY <3>3, <4>1, <4>2
    <3>8. \A v \in R!Workers, gd \in Fds : RHas(v, gd)' => Right(gd)'
      <4>1. ASSUME NEW v \in R!Workers, NEW gd \in Fds, RHas(v, gd)', gd # fd PROVE Right(gd)'
        <5>1. Right(gd) /\ r_owner[gd] \in Clients /\ r_owner[gd] # c
          BY <1>3, <2>1, <3>2, <4>1
        <5>2. r_ctx'[gd] = r_ctx[gd]
          BY <1>3, <3>3, <4>1
        <5> QED BY <3>1, <3>4, <5>1, <5>2 DEF Right, Waits
      <4> QED BY <3>6, <4>1
    <3>9. \A i \in 1 .. Len(r_backlog) : Waits(r_backlog[i])'
      <4>1. ASSUME NEW i \in 1 .. Len(r_backlog) PROVE Waits(r_backlog[i])'
        <5>1. r_backlog[i] \in Clients /\ r_backlog[i] # c /\ Waits(r_backlog[i])
          BY <1>1, <1>2, <3>2 DEF R_Queue, R_Contexts
        <5> QED BY <2>1, <3>4, <5>1 DEF Waits
      <4> QED BY <4>1
    <3>10. r_afd' # None => Waits(r_owner[r_afd])' /\ r_afd # fd
      <4>1. SUFFICES ASSUME r_afd # None PROVE Waits(r_owner[r_afd])' /\ r_afd # fd
        BY <2>1, <3>1 DEF Waits
      <4>2. r_afd # fd /\ r_afd \in Fds
        BY <1>1, <3>2, <4>1 DEF R_Alone
      <4>3. r_owner[r_afd] \in Clients /\ r_owner[r_afd] # c /\ Waits(r_owner[r_afd])
        BY <1>3, <3>2, <4>1, <4>2
      <4> QED BY <3>1, <3>4, <2>1, <4>2, <4>3 DEF Waits
    <3>11. r_apc[1] \in {"set", "add"} => r_ctx'[r_afd] = "READ"
      <4>1. r_apc[1] \in {"set", "add"} => r_afd \in Fds /\ r_afd # fd /\ r_ctx[r_afd] = "READ"
        BY <1>1, <2>1, <3>10 DEF R_Alone, R_Contexts
      <4> QED BY <1>3, <3>3, <4>1
    <3>12. r_ctx' \in [Fds -> {"STALE", "READ", "WRITE"}]
      BY <1>3, <3>3
    <3> QED BY <2>1, <2>3, <3>5, <3>8, <3>9, <3>10, <3>11, <3>12 DEF R_Contexts
  <2>6. CASE ~(R!ClientRead(w) \/ R!ClientWrite(w))
    <3>1. UNCHANGED <<r_client, r_unread, r_ctx>>
      BY <1>12, <2>6 DEF R!WorkerStep, R!NextEvent, R!Dispatch, R!HandleNull, R!ClientEnd, R!CtlDel, R!CloseFd,
                         R!ClearField, R!clientVars
    <3> QED BY <2>4, <3>1
  <2> QED BY <2>5, <2>6
<1> QED BY <1>4, <1>5, <1>6, <1>7, <1>8, <1>9, <1>10, <1>11, <1>12 DEF R!Next, R!AcceptorStep

R_All == R_Inv /\ R_Contexts /\ R_Handlers

LEMMA R_AllInit == R!Init => R_All
BY R_InvInit, R_ContextsInit DEF R_All

LEMMA R_AllStep == R_All /\ [R!Next]_(R!vars) => R_All'
<1> SUFFICES ASSUME R_All, [R!Next]_(R!vars) PROVE R_All'
  OBVIOUS
<1>1. R_Inv'
  BY R_InvStep DEF R_All
<1>2. CASE UNCHANGED R!vars
  <2>1. /\ UNCHANGED <<r_load, r_client, r_unread, r_backlog, r_owner, registry, r_ctx, r_epoll, r_apc, r_afd,
                       r_wpc, r_wfd, crashed, reused>>
        /\ R!Workers' = R!Workers
    BY <1>2 DEF R!vars, R!clientVars, R!acceptorVars, R!workerVars, R!Workers
  <2>2. R_Contexts'
    BY <2>1 DEF R_All, R_Contexts, RHas, Right, Waits
  <2>3. R_Handlers'
    BY <2>1 DEF R_All, R_Handlers, RHas
  <2> QED BY <1>1, <2>2, <2>3 DEF R_All
<1>3. CASE R!Next
  BY <1>1, <1>3, R_ContextsStep, R_HandlersStep DEF R_All
<1> QED BY <1>2, <1>3

LEMMA R_Handler == R_All => R!HandlerOfThisClient
<1> SUFFICES ASSUME R_All PROVE R!HandlerOfThisClient
  OBVIOUS
<1> USE E_Facts, R_Facts
<1>1. \A w \in R!Workers, fd \in Fds : R!Uses(w, fd) => RHas(w, fd)
  BY DEF R_All, R_Inv, R_Batch, R!Uses, RHas
<1>2. ASSUME NEW w \in R!Workers, NEW fd \in Fds, R!Uses(w, fd)
      PROVE  (r_owner[fd] \notin reused => registry[fd] = R!AllFields) /\ Right(fd)
  BY <1>1, <1>2 DEF R_All, R_Contexts, R_Handlers
<1>3. /\ crashed => \E w \in R!Workers : R!At(w, "handle") /\ r_owner[r_wfd[w]] \in reused
      /\ r_load = "spaced" => reused = {}
  BY DEF R_All, R_Handlers, R!At
<1> QED BY <1>2, <1>3 DEF R!HandlerOfThisClient, Right, Waits

LEMMA R_OneUser == R_Inv => R!OneUserPerFd
<1> SUFFICES ASSUME R_Inv PROVE R!OneUserPerFd
  OBVIOUS
<1>1. \A w \in R!Workers, fd \in Fds : R!Uses(w, fd) => RHas(w, fd)
  BY DEF R_Inv, R_Batch, R!Uses, RHas
<1> QED BY <1>1, E_Facts, R_Facts DEF R_Inv, R_Alone, R!OneUserPerFd

-----------------------------------------------------------------------------
(* What the two servers guarantee *)

\* No descriptor and no entry of clients[] or reactor_registry[] has two users,
\* for any number of clients, workers and descriptors, although a descriptor is
\* reused as soon as it is closed and nothing is locked: between epoll_ctl(ADD)
\* and close() it is one worker's, and the acceptor fills in only descriptors
\* that are nobody's (dumb_epoll_workers.c:299-303, 386-396, dumb_reactor.c:83-85,
\* 234-250).
THEOREM OneUserAtATime == Spec /\ R!Spec => []OneUser
<1>1. E_Inv /\ R_Inv => OneUser
  BY E_OneUser, R_OneUser DEF OneUser
<1> QED BY <1>1, E_InvInit, E_InvStep, R_InvInit, R_InvStep, PTL DEF Spec, R!Spec

\* A handler is called with the context of the client at the other end and never
\* with the last one's, in both servers and for any number of clients, workers and
\* descriptors.  In the reactor this holds whatever the load: close() comes before
\* the handler is cleared, and a client accepted in between is the only one whose
\* fields may be NULL (dumb_epoll_workers.c:64-70, 285-303, dumb_reactor.c:83-92,
\* 144, 234-276).
THEOREM ContextsAreRight == Spec /\ R!Spec => []RightContext
<1>1. E_Inv /\ R_All => RightContext
  BY E_RightContext, R_Handler DEF RightContext
<1> QED BY <1>1, E_InvInit, E_InvStep, R_AllInit, R_AllStep, PTL DEF Spec, R!Spec

\* The gauge of every worker of dumb_epoll_workers.c is, modulo the width of
\* atomic_ullong, the connections it has registered, one more while it removes
\* one and one less while the acceptor has not counted its last one
\* (dumb_epoll_workers.c:302, 396-398).
THEOREM WorkerGauges == Spec => []GaugeExact
BY E_InvInit, E_InvStep, GaugeInit, GaugeStep, PTL DEF Spec
==============================================================================
