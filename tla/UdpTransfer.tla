----------------------------- MODULE UdpTransfer -----------------------------
(***************************************************************************)
(* The stop-and-wait file transfer of lab 8: l8-1_client.c sends a file in *)
(* numbered parts over UDP, l8-1_server.c prints them and echoes each as   *)
(* its confirmation.  Datagrams may be lost, duplicated and reordered, the *)
(* client retries on a SIGALRM timeout, and the server keeps one entry of  *)
(* a fixed table per address until the last part arrives.                  *)
(***************************************************************************)
EXTENDS Integers

CONSTANTS Clients,    \* addresses of client sockets
          NParts,     \* NParts[c]: parts in c's file; the last one is short
          MAXADDR,    \* entries of the connection table (5 in the code)
          MaxTries,   \* the constant 5 of the client's retry condition
          PromptRecv, \* TRUE: the 0.5 s timer never expires before recv()
                      \* has blocked; FALSE: the kernel may run it any time
          NoAddr      \* the uninitialised addr of an unused entry

ASSUME UdpAssumption ==
    /\ NParts \in [Clients -> Nat \ {0}]
    /\ MAXADDR \in Nat \ {0}
    /\ MaxTries \in Nat
    /\ PromptRecv \in BOOLEAN
    /\ NoAddr \notin Clients

VARIABLES
    toServer,   \* data datagrams <<c, k>> in flight: part k of c's file
    toClient,   \* confirmations <<c, k>> in flight
    con,        \* the server's table: struct connections con[MAXADDR]
    printed,    \* printed[c]: parts of c's file the server has printed
    reprinted,  \* reprinted[c]: the parts it has printed more than once
    pc,         \* where each client is
    chunkNo,    \* chunkNo[c]: number of the part being sent
    counter,    \* counter[c]: times it has been sent
    recvbuf,    \* recvbuf[c]: part number of the last reply, 0 if none
    timer       \* timer[c]: the interval timer is armed

netVars    == <<toServer, toClient>>
serverVars == <<con, printed, reprinted>>
clientVars == <<pc, chunkNo, counter, recvbuf, timer>>
vars       == <<netVars, serverVars, clientVars>>

Slots == 0 .. MAXADDR - 1
EntryType == [free : BOOLEAN, chunkNo : Nat, addr : Clients \cup {NoAddr}]
PCs   == {"read", "send", "arm", "armed", "recv", "check", "done", "gaveup"}

TypeOK ==
    /\ toServer \subseteq Clients \X Nat
    /\ toClient \subseteq Clients \X Nat
    /\ con \in [Slots -> EntryType]
    /\ printed \in [Clients -> SUBSET Nat]
    /\ reprinted \in [Clients -> SUBSET Nat]
    /\ pc \in [Clients -> PCs]
    /\ chunkNo \in [Clients -> Nat]
    /\ counter \in [Clients -> Nat]
    /\ recvbuf \in [Clients -> Nat]
    /\ timer \in [Clients -> BOOLEAN]

Init ==
    /\ toServer = {}
    /\ toClient = {}
    /\ con = [i \in Slots |-> [free |-> TRUE, chunkNo |-> 0, addr |-> NoAddr]]
    /\ printed = [c \in Clients |-> {}]
    /\ reprinted = [c \in Clients |-> {}]
    /\ pc = [c \in Clients |-> "read"]
    /\ chunkNo = [c \in Clients |-> 0]
    /\ counter = [c \in Clients |-> 0]
    /\ recvbuf = [c \in Clients |-> 0]
    /\ timer = [c \in Clients |-> FALSE]

-----------------------------------------------------------------------------
(* The client: doClient and sendAndConfirm. *)

\* Mutant of ReadPart: the number is decremented instead of incremented.
ReadPartDown(c) ==
    /\ pc[c] = "read"
    /\ chunkNo' = [chunkNo EXCEPT ![c] = @ - 1]
    /\ counter' = [counter EXCEPT ![c] = 0]
    /\ recvbuf' = [recvbuf EXCEPT ![c] = 0]
    /\ pc' = [pc EXCEPT ![c] = "send"]
    /\ UNCHANGED <<timer, netVars, serverVars>>

\* Read the next part of the file, number it and clear both buffers.
ReadPart(c) ==
    /\ pc[c] = "read"
    /\ chunkNo' = [chunkNo EXCEPT ![c] = @ + 1]
    /\ counter' = [counter EXCEPT ![c] = 0]
    /\ recvbuf' = [recvbuf EXCEPT ![c] = 0]
    /\ pc' = [pc EXCEPT ![c] = "send"]
    /\ UNCHANGED <<timer, netVars, serverVars>>

SendPart(c) ==
    /\ pc[c] = "send"
    /\ counter' = [counter EXCEPT ![c] = @ + 1]
    /\ toServer' = toServer \cup {<<c, chunkNo[c]>>}
    /\ pc' = [pc EXCEPT ![c] = "arm"]
    /\ UNCHANGED <<chunkNo, recvbuf, timer, toClient, serverVars>>

\* setitimer() and last_signal = 0; recv() is not yet blocked.
ArmTimer(c) ==
    /\ pc[c] = "arm"
    /\ timer' = [timer EXCEPT ![c] = TRUE]
    /\ pc' = [pc EXCEPT ![c] = "armed"]
    /\ UNCHANGED <<chunkNo, counter, recvbuf, netVars, serverVars>>

EnterRecv(c) ==
    /\ pc[c] = "armed"
    /\ pc' = [pc EXCEPT ![c] = "recv"]
    /\ UNCHANGED <<chunkNo, counter, recvbuf, timer, netVars, serverVars>>

\* Mutant of Alarm: the handler is installed with SA_RESTART.
AlarmRestarts(c) ==
    /\ timer[c]
    /\ PromptRecv => pc[c] # "armed"
    /\ timer' = [timer EXCEPT ![c] = FALSE]
    /\ UNCHANGED <<pc, chunkNo, counter, recvbuf, netVars, serverVars>>

\* SIGALRM: it ends a blocked recv() with EINTR and last_signal set, so the
\* wait loop breaks.  Anywhere else the handler runs and nothing notices.
Alarm(c) ==
    /\ timer[c]
    /\ PromptRecv => pc[c] # "armed"
    /\ timer' = [timer EXCEPT ![c] = FALSE]
    /\ pc' = [pc EXCEPT ![c] = IF @ = "recv" THEN "check" ELSE @]
    /\ UNCHANGED <<chunkNo, counter, recvbuf, netVars, serverVars>>

\* recv() returns any datagram sent to the socket, a late confirmation too.
\* The timer stays armed.  A duplicate of the datagram may stay in flight.
RecvReply(c, k) ==
    /\ pc[c] = "recv"
    /\ <<c, k>> \in toClient
    /\ toClient' \in {toClient, toClient \ {<<c, k>>}}
    /\ recvbuf' = [recvbuf EXCEPT ![c] = k]
    /\ pc' = [pc EXCEPT ![c] = "check"]
    /\ UNCHANGED <<chunkNo, counter, timer, toServer, serverVars>>

\* Mutant of CheckReply: any reply counts as the confirmation.
CheckAnyReply(c) ==
    /\ pc[c] = "check"
    /\ pc' = [pc EXCEPT ![c] =
                IF recvbuf[c] = 0
                THEN IF counter[c] <= MaxTries THEN "send" ELSE "gaveup"
                ELSE IF chunkNo[c] < NParts[c] THEN "read" ELSE "done"]
    /\ UNCHANGED <<chunkNo, counter, recvbuf, timer, netVars, serverVars>>

\* The conditions of the retry loop and of the loop over the file.
CheckReply(c) ==
    /\ pc[c] = "check"
    /\ pc' = [pc EXCEPT ![c] =
                IF recvbuf[c] # chunkNo[c]
                THEN IF counter[c] <= MaxTries THEN "send" ELSE "gaveup"
                ELSE IF chunkNo[c] < NParts[c] THEN "read" ELSE "done"]
    /\ UNCHANGED <<chunkNo, counter, recvbuf, timer, netVars, serverVars>>

-----------------------------------------------------------------------------
(* The server: doServer. *)

Busy(i, c) == ~con[i].free /\ con[i].addr = c

\* Mutant of findIndex: a free entry is preferred to the one c has.
findFreeFirst(c, i) ==
    \/ con[i].free /\ \A j \in Slots : con[j].free => j <= i
    \/ /\ \A j \in Slots : ~con[j].free
       /\ Busy(i, c) /\ \A j \in Slots : Busy(j, c) => i <= j

\* findIndex returns entry i for address c: the entry c already has, else the
\* free one with the largest index.  No i qualifies when it returns -1.
findIndex(c, i) ==
    \/ Busy(i, c) /\ \A j \in Slots : Busy(j, c) => i <= j
    \/ /\ \A j \in Slots : ~Busy(j, c)
       /\ con[i].free /\ \A j \in Slots : con[j].free => j <= i

\* The entry findIndex leaves behind: a free one is claimed and restarted.
Entry(c, i) ==
    IF con[i].free THEN [free |-> FALSE, chunkNo |-> 0, addr |-> c] ELSE con[i]

\* A part beyond the expected one is dropped without a confirmation.
SkipPart(c, k, i) ==
    /\ k > Entry(c, i).chunkNo + 1
    /\ con' = [con EXCEPT ![i] = Entry(c, i)]
    /\ UNCHANGED <<printed, reprinted, toClient>>

\* Mutant of PrintPart: con[index].chunkNo++ runs twice.
PrintCountsTwice(c, k, i) ==
    /\ k = Entry(c, i).chunkNo + 1
    /\ con' = [con EXCEPT ![i] = [free |-> k = NParts[c], chunkNo |-> k + 1, addr |-> c]]
    /\ printed' = [printed EXCEPT ![c] = @ \cup {k}]
    /\ reprinted' = [reprinted EXCEPT ![c] = IF k \in printed[c] THEN @ \cup {k} ELSE @]
    /\ toClient' = toClient \cup {<<c, k>>}

\* The expected part is printed; the last one frees the entry.
PrintPart(c, k, i) ==
    /\ k = Entry(c, i).chunkNo + 1
    /\ con' = [con EXCEPT ![i] = [free |-> k = NParts[c], chunkNo |-> k, addr |-> c]]
    /\ printed' = [printed EXCEPT ![c] = @ \cup {k}]
    /\ reprinted' = [reprinted EXCEPT ![c] = IF k \in printed[c] THEN @ \cup {k} ELSE @]
    /\ toClient' = toClient \cup {<<c, k>>}

\* A part the entry already counts is confirmed again and not printed.
ConfirmAgain(c, k, i) ==
    /\ k <= Entry(c, i).chunkNo
    /\ con' = [con EXCEPT ![i] = Entry(c, i)]
    /\ toClient' = toClient \cup {<<c, k>>}
    /\ UNCHANGED <<printed, reprinted>>

\* One turn of the server loop for datagram <<c, k>>.
ServerReceive(c, k) ==
    /\ <<c, k>> \in toServer
    /\ toServer' \in {toServer, toServer \ {<<c, k>>}}
    /\ \/ \E i \in Slots : /\ findIndex(c, i)
                           /\ \/ SkipPart(c, k, i)
                              \/ PrintPart(c, k, i)
                              \/ ConfirmAgain(c, k, i)
       \/ /\ \A i \in Slots : ~findIndex(c, i)
          /\ UNCHANGED <<con, printed, reprinted, toClient>>
    /\ UNCHANGED clientVars

-----------------------------------------------------------------------------
\* The network drops a datagram.
Lose ==
    /\ \/ \E m \in toServer : toServer' = toServer \ {m} /\ UNCHANGED toClient
       \/ \E m \in toClient : toClient' = toClient \ {m} /\ UNCHANGED toServer
    /\ UNCHANGED <<serverVars, clientVars>>

ClientStep(c) ==
    \/ ReadPart(c) \/ SendPart(c) \/ ArmTimer(c) \/ EnterRecv(c)
    \/ CheckReply(c)

Next ==
    \/ \E c \in Clients : ClientStep(c) \/ Alarm(c)
    \/ \E m \in toClient : RecvReply(m[1], m[2])
    \/ \E m \in toServer : ServerReceive(m[1], m[2])
    \/ Lose

Spec == Init /\ [][Next]_vars

\* A runnable client runs, a running timer expires; nothing is assumed of the
\* network or of the server.
FairSpec == Spec /\ \A c \in Clients : WF_vars(ClientStep(c)) /\ WF_vars(Alarm(c))

-----------------------------------------------------------------------------
(* Properties. *)

\* Parts the client has moved past: it read a matching confirmation of each.
Confirmed(c) == IF pc[c] \in {"read", "done"} THEN chunkNo[c] ELSE chunkNo[c] - 1

\* A client never moves past a part the server has not printed, whatever the
\* network delivers late or twice (client.c:64, server.c:85-103).
ConfirmedIsPrinted ==
    \A c \in Clients : 1 .. Confirmed(c) \subseteq printed[c]

\* findIndex never gives one address two live entries, so a sender has one
\* part counter (server.c:42-63).
OneEntryPerAddress ==
    \A i, j \in Slots : \A c \in Clients : Busy(i, c) /\ Busy(j, c) => i = j

\* Every client ends, with or without a reachable server (client.c:60-69).
ClientTerminates == \A c \in Clients : <>(pc[c] \in {"done", "gaveup"})

\* Seen through printed and Confirmed, the protocol is the abstract transfer:
\* parts arrive in order and at most one ahead of the confirmed ones.
FT == INSTANCE FileTransfer WITH
        delivered <- printed, confirmed <- [c \in Clients |-> Confirmed(c)]
ImplementsFileTransfer == FT!Spec

(* What the lab text says and the code does not do. *)

\* "Server can not print the same part of the file more than once."
\* (l8/_index.en.md:76)
PrintedOnce == \A c \in Clients : reprinted[c] = {}

\* "If confirmation is missing (wait 0,5 sec.) resend the packet again."
\* (_index.en.md:76): a client blocked in recv() does not stay there.
WaitEnds == \A c \in Clients : pc[c] = "recv" ~> pc[c] # "recv"
=============================================================================
