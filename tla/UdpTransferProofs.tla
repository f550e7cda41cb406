-------------------------- MODULE UdpTransferProofs --------------------------
(***************************************************************************)
(* The transfer of lab 8 for any number of clients, table size, file       *)
(* lengths and retry limit: it is type correct, a client only moves past   *)
(* printed parts, and it implements FileTransfer.                          *)
(***************************************************************************)
EXTENDS UdpTransfer, TLAPS

-----------------------------------------------------------------------------
\* The strengthening that makes ConfirmedIsPrinted inductive: where a part
\* number can be, and what its being there says of the server's output.

\* A data datagram carries a part its client has read.
DataInv == \A m \in toServer : m[2] \in 1 .. chunkNo[m[1]]

\* A confirmation in flight, or in a client's buffer, is of a printed part.
AckInv == /\ \A m \in toClient : m[2] \in printed[m[1]]
          /\ \A c \in Clients : recvbuf[c] = 0 \/ recvbuf[c] \in printed[c]

\* A live entry counts printed parts of its address only.
EntryInv == \A i \in Slots : ~con[i].free =>
              /\ con[i].addr \in Clients
              /\ 1 .. con[i].chunkNo \subseteq printed[con[i].addr]

\* A client outside its file loop body has read a part, none past the end.
ChunkInv == \A c \in Clients :
              /\ pc[c] # "read" => chunkNo[c] \in 1 .. NParts[c]
              /\ pc[c] = "read" => chunkNo[c] \in 0 .. NParts[c] - 1

IInv == TypeOK /\ DataInv /\ AckInv /\ EntryInv /\ ChunkInv /\ ConfirmedIsPrinted

-----------------------------------------------------------------------------
\* One step keeps every variable's type.
LEMMA TypeStep == TypeOK /\ [Next]_vars => TypeOK'
<1> SUFFICES ASSUME TypeOK, [Next]_vars PROVE TypeOK'
  OBVIOUS
<1> USE UdpAssumption
<1>1. ASSUME NEW c \in Clients, ClientStep(c) \/ Alarm(c) PROVE TypeOK'
  <2>1. CASE ReadPart(c)
    BY <2>1 DEF TypeOK, ReadPart, PCs, netVars, serverVars
  <2>2. CASE SendPart(c)
    BY <2>2 DEF TypeOK, SendPart, PCs, serverVars
  <2>3. CASE ArmTimer(c)
    BY <2>3 DEF TypeOK, ArmTimer, PCs, netVars, serverVars
  <2>4. CASE EnterRecv(c)
    BY <2>4 DEF TypeOK, EnterRecv, PCs, netVars, serverVars
  <2>5. CASE CheckReply(c)
    BY <2>5 DEF TypeOK, CheckReply, PCs, netVars, serverVars
  <2>6. CASE Alarm(c)
    BY <2>6 DEF TypeOK, Alarm, PCs, netVars, serverVars
  <2> QED BY <1>1, <2>1, <2>2, <2>3, <2>4, <2>5, <2>6 DEF ClientStep
<1>2. ASSUME NEW m \in toClient, RecvReply(m[1], m[2]) PROVE TypeOK'
  BY <1>2 DEF TypeOK, RecvReply, PCs, serverVars
<1>3. ASSUME NEW m \in toServer, ServerReceive(m[1], m[2]) PROVE TypeOK'
  <2>1. PICK c \in Clients, k \in Nat : m = <<c, k>>
    BY DEF TypeOK
  <2>2. ServerReceive(c, k)
    BY <1>3, <2>1
  <2>3. UNCHANGED clientVars /\ toServer' \subseteq toServer
    BY <2>2 DEF ServerReceive
  <2>4. CASE UNCHANGED <<con, printed, reprinted, toClient>>
    BY <2>3, <2>4 DEF TypeOK, clientVars
  <2>5. ASSUME NEW i \in Slots, SkipPart(c, k, i) \/ PrintPart(c, k, i) \/ ConfirmAgain(c, k, i)
        PROVE  TypeOK'
    <3>1. Entry(c, i) \in EntryType
      BY DEF Entry, TypeOK, EntryType
    <3>2. [free |-> k = NParts[c], chunkNo |-> k, addr |-> c] \in EntryType
      BY DEF EntryType
    <3>3. con' \in [Slots -> EntryType]
      BY <2>5, <3>1, <3>2 DEF SkipPart, PrintPart, ConfirmAgain, TypeOK
    <3>4. printed' \in [Clients -> SUBSET Nat] /\ reprinted' \in [Clients -> SUBSET Nat]
      BY <2>5 DEF SkipPart, PrintPart, ConfirmAgain, TypeOK
    <3>5. toClient' \subseteq Clients \X Nat
      BY <2>5 DEF SkipPart, PrintPart, ConfirmAgain, TypeOK
    <3> QED BY <2>3, <3>3, <3>4, <3>5 DEF TypeOK, clientVars
  <2> QED BY <2>2, <2>4, <2>5 DEF ServerReceive
<1>4. ASSUME Lose PROVE TypeOK'
  BY <1>4 DEF TypeOK, Lose, serverVars, clientVars
<1>5. CASE UNCHANGED vars
  BY <1>5 DEF TypeOK, vars, netVars, serverVars, clientVars
<1> QED BY <1>1, <1>2, <1>3, <1>4, <1>5 DEF Next

\* Every variable keeps its type through every step of the code.
THEOREM TypeCorrect == Spec => []TypeOK
<1>1. Init => TypeOK
  BY UdpAssumption DEF Init, TypeOK, PCs, Slots, EntryType
<1> QED BY <1>1, TypeStep, PTL DEF Spec

-----------------------------------------------------------------------------
\* The server's output only grows, and the state it keeps for a datagram
\* stays justified by that output.
LEMMA ServerStep ==
  ASSUME NEW c \in Clients, NEW k \in Nat, IInv, ServerReceive(c, k)
  PROVE  /\ UNCHANGED clientVars /\ toServer' \subseteq toServer
         /\ \/ printed' = printed
            \/ k \in 1 .. chunkNo[c] /\ printed' = [printed EXCEPT ![c] = @ \cup {k}]
         /\ \A m \in toClient' : m[2] \in printed'[m[1]]
         /\ EntryInv'
<1> USE DEF IInv, TypeOK
<1>1. k \in 1 .. chunkNo[c] /\ UNCHANGED clientVars /\ toServer' \subseteq toServer
  BY DEF ServerReceive, DataInv
<1>2. CASE UNCHANGED <<con, printed, reprinted, toClient>>
  BY <1>1, <1>2 DEF AckInv, EntryInv
<1>3. ASSUME NEW i \in Slots, findIndex(c, i),
             SkipPart(c, k, i) \/ PrintPart(c, k, i) \/ ConfirmAgain(c, k, i)
      PROVE  /\ printed' = printed \/ printed' = [printed EXCEPT ![c] = @ \cup {k}]
             /\ \A m \in toClient' : m[2] \in printed'[m[1]]
             /\ EntryInv'
  <2> DEFINE e == Entry(c, i)
  <2>1. /\ e.free = FALSE /\ e.addr = c /\ e.chunkNo \in Nat
        /\ 1 .. e.chunkNo \subseteq printed[c]
    BY <1>3 DEF findIndex, Busy, Entry, EntryInv, EntryType
  <2> HIDE DEF e
  <2>2. CASE SkipPart(c, k, i)
    <3>1. con' = [con EXCEPT ![i] = e] /\ printed' = printed /\ toClient' = toClient
      BY <2>2 DEF SkipPart, e
    <3> QED BY <2>1, <3>1 DEF AckInv, EntryInv
  <2>3. CASE ConfirmAgain(c, k, i)
    <3>1. /\ k <= e.chunkNo /\ con' = [con EXCEPT ![i] = e] /\ printed' = printed
          /\ toClient' = toClient \cup {<<c, k>>}
      BY <2>3 DEF ConfirmAgain, e
    <3>2. k \in printed[c]
      BY <1>1, <2>1, <3>1
    <3> QED BY <2>1, <3>1, <3>2 DEF AckInv, EntryInv
  <2>4. CASE PrintPart(c, k, i)
    <3>1. /\ k = e.chunkNo + 1 /\ printed' = [printed EXCEPT ![c] = @ \cup {k}]
          /\ toClient' = toClient \cup {<<c, k>>}
          /\ con' = [con EXCEPT ![i] = [free |-> k = NParts[c], chunkNo |-> k, addr |-> c]]
      BY <2>4 DEF PrintPart, e
    <3>2. \A d \in Clients : printed[d] \subseteq printed'[d]
      BY <3>1
    <3>3. 1 .. k \subseteq printed'[c] /\ k \in printed'[c]
      BY <2>1, <3>1
    <3>4. con'[i].addr = c /\ con'[i].chunkNo = k /\ \A j \in Slots : j # i => con'[j] = con[j]
      BY <3>1
    <3>5. EntryInv'
      BY <3>2, <3>3, <3>4 DEF EntryInv
    <3>6. \A m \in toClient' : m[2] \in printed'[m[1]]
      BY <3>1, <3>2, <3>3 DEF AckInv
    <3> QED BY <3>1, <3>5, <3>6
  <2> QED BY <1>3, <2>2, <2>3, <2>4
<1> QED BY <1>1, <1>2, <1>3 DEF ServerReceive
\* IInv holds initially and every step of the code keeps it.
LEMMA IInvInit == Init => IInv
BY UdpAssumption DEF Init, IInv, TypeOK, PCs, Slots, EntryType, DataInv, AckInv,
     EntryInv, ChunkInv, ConfirmedIsPrinted, Confirmed

LEMMA IInvStep == IInv /\ [Next]_vars => IInv'
<1> SUFFICES ASSUME IInv, [Next]_vars PROVE IInv'
  OBVIOUS
<1> USE UdpAssumption DEF IInv, TypeOK, PCs
<1>0. TypeOK'
  BY TypeStep
<1>1. ASSUME NEW c \in Clients, ClientStep(c) \/ Alarm(c) PROVE IInv'
  <2>1. CASE ReadPart(c)
    BY <1>0, <2>1 DEF ReadPart, netVars, serverVars, DataInv, AckInv, EntryInv,
         ChunkInv, ConfirmedIsPrinted, Confirmed
  <2>2. CASE SendPart(c)
    BY <1>0, <2>2 DEF SendPart, serverVars, DataInv, AckInv, EntryInv,
         ChunkInv, ConfirmedIsPrinted, Confirmed
  <2>3. CASE ArmTimer(c) \/ EnterRecv(c) \/ Alarm(c)
    BY <1>0, <2>3 DEF ArmTimer, EnterRecv, Alarm, netVars, serverVars, DataInv,
         AckInv, EntryInv, ChunkInv, ConfirmedIsPrinted, Confirmed
  <2>4. CASE CheckReply(c)
    <3>1. UNCHANGED <<chunkNo, recvbuf, netVars, serverVars>>
      BY <2>4 DEF CheckReply
    <3>2. DataInv' /\ AckInv' /\ EntryInv'
      BY <3>1 DEF netVars, serverVars, DataInv, AckInv, EntryInv
    <3>3. chunkNo[c] \in 1 .. NParts[c]
      BY <2>4 DEF CheckReply, ChunkInv
    <3>4. ChunkInv'
      BY <2>4, <3>3 DEF CheckReply, ChunkInv
    <3>5. pc'[c] \in {"read", "done"} => chunkNo[c] \in printed[c]
      BY <2>4, <3>3 DEF CheckReply, AckInv
    <3>6. 1 .. Confirmed(c)' \subseteq printed'[c]
      BY <2>4, <3>1, <3>3, <3>5 DEF CheckReply, ConfirmedIsPrinted, Confirmed, serverVars
    <3>7. ASSUME NEW d \in Clients, d # c PROVE 1 .. Confirmed(d)' \subseteq printed'[d]
      BY <2>4, <3>1, <3>7 DEF CheckReply, ConfirmedIsPrinted, Confirmed, serverVars
    <3> QED BY <1>0, <3>2, <3>4, <3>6, <3>7 DEF ConfirmedIsPrinted
  <2> QED BY <1>1, <2>1, <2>2, <2>3, <2>4 DEF ClientStep
<1>2. ASSUME NEW m \in toClient, RecvReply(m[1], m[2]) PROVE IInv'
  <2>1. PICK c \in Clients, k \in Nat : m = <<c, k>> /\ k \in printed[c]
    BY DEF AckInv
  <2>2. RecvReply(c, k)
    BY <1>2, <2>1
  <2> QED BY <1>0, <2>1, <2>2 DEF RecvReply, serverVars, DataInv, AckInv, EntryInv,
         ChunkInv, ConfirmedIsPrinted, Confirmed
<1>3. ASSUME NEW m \in toServer, ServerReceive(m[1], m[2]) PROVE IInv'
  <2>1. PICK c \in Clients, k \in Nat : m = <<c, k>>
    OBVIOUS
  <2>2. ServerReceive(c, k)
    BY <1>3, <2>1
  <2>3. /\ UNCHANGED clientVars /\ toServer' \subseteq toServer /\ EntryInv'
        /\ \A d \in Clients : printed[d] \subseteq printed'[d]
        /\ \A a \in toClient' : a[2] \in printed'[a[1]]
    BY <2>2, ServerStep
  <2> QED BY <1>0, <2>3 DEF clientVars, DataInv, AckInv, ChunkInv, ConfirmedIsPrinted,
         Confirmed
<1>4. CASE Lose
  BY <1>0, <1>4 DEF Lose, serverVars, clientVars, DataInv, AckInv, EntryInv, ChunkInv,
       ConfirmedIsPrinted, Confirmed
<1>5. CASE UNCHANGED vars
  BY <1>0, <1>5 DEF vars, netVars, serverVars, clientVars, DataInv, AckInv, EntryInv,
       ChunkInv, ConfirmedIsPrinted, Confirmed
<1> QED BY <1>1, <1>2, <1>3, <1>4, <1>5 DEF Next

\* No client moves past a part the server has not printed (client.c:64,
\* server.c:85-103), for every loss, duplication and reordering.
THEOREM ConfirmedPrinted == Spec => []ConfirmedIsPrinted
<1>1. IInv => ConfirmedIsPrinted
  BY DEF IInv
<1> QED BY <1>1, IInvInit, IInvStep, PTL DEF Spec
-----------------------------------------------------------------------------
\* The connection table never holds two live entries of one address, for any
\* table size (findIndex, server.c:42-63).
THEOREM EntriesUnique == Spec => []OneEntryPerAddress
<1>1. Init => OneEntryPerAddress
  BY DEF Init, OneEntryPerAddress, Busy
<1>2. TypeOK /\ OneEntryPerAddress /\ [Next]_vars => OneEntryPerAddress'
  <2> SUFFICES ASSUME TypeOK, OneEntryPerAddress, [Next]_vars PROVE OneEntryPerAddress'
    OBVIOUS
  <2>1. CASE UNCHANGED con
    BY <2>1 DEF OneEntryPerAddress, Busy
  <2>2. ASSUME NEW m \in toServer, ServerReceive(m[1], m[2]), con' # con
        PROVE  OneEntryPerAddress'
    <3>1. PICK c \in Clients, k \in Nat : m = <<c, k>>
      BY DEF TypeOK
    <3>2. PICK i \in Slots : /\ findIndex(c, i)
                             /\ SkipPart(c, k, i) \/ PrintPart(c, k, i) \/ ConfirmAgain(c, k, i)
      BY <2>2, <3>1 DEF ServerReceive
    <3>3. \A j \in Slots : j # i => con'[j] = con[j]
      BY <3>2 DEF SkipPart, PrintPart, ConfirmAgain, TypeOK
    <3>4. con'[i].addr = c
      BY <3>2 DEF SkipPart, PrintPart, ConfirmAgain, TypeOK, Entry, findIndex, Busy
    <3>5. \A j \in Slots : Busy(j, c) => j = i
      BY <3>2 DEF findIndex, OneEntryPerAddress, Busy
    <3> QED BY <3>3, <3>4, <3>5 DEF OneEntryPerAddress, Busy
  <2>3. Next => con' = con \/ \E m \in toServer : ServerReceive(m[1], m[2])
    BY DEF Next, ClientStep, ReadPart, SendPart, ArmTimer, EnterRecv, CheckReply,
         Alarm, RecvReply, Lose, serverVars
  <2> QED BY <2>1, <2>2, <2>3 DEF vars, serverVars
<1> QED BY <1>1, <1>2, TypeCorrect, PTL DEF Spec

-----------------------------------------------------------------------------
\* Parts reach the server in order and at most one ahead of the confirmed
\* ones: the datagram protocol implements the abstract transfer.
THEOREM TransferRefinement == Spec => ImplementsFileTransfer
<1>1. Init => FT!Init
  BY DEF Init, FT!Init, Confirmed
<1>2. IInv /\ [Next]_vars => [FT!Next]_<<printed, [c \in Clients |-> Confirmed(c)]>>
  <2> SUFFICES ASSUME IInv, Next
               PROVE  FT!Next \/ UNCHANGED <<printed, [c \in Clients |-> Confirmed(c)]>>
    BY DEF vars, serverVars, clientVars, Confirmed
  <2> USE DEF IInv, TypeOK
  <2>1. ASSUME NEW c \in Clients, NEW k \in Nat, ServerReceive(c, k)
        PROVE  FT!Next \/ UNCHANGED <<printed, [d \in Clients |-> Confirmed(d)]>>
    <3>1. [d \in Clients |-> Confirmed(d)]' = [d \in Clients |-> Confirmed(d)]
      BY <2>1, ServerStep DEF clientVars, Confirmed
    <3>2. CASE printed' = printed
      BY <3>1, <3>2
    <3>3. CASE k \in 1 .. chunkNo[c] /\ printed' = [printed EXCEPT ![c] = @ \cup {k}]
      <4>1. CASE k <= Confirmed(c)
        <5>1. k \in printed[c]
          BY <3>3, <4>1 DEF ConfirmedIsPrinted, Confirmed
        <5>2. printed' = printed
          BY <3>3, <5>1
        <5> QED BY <3>1, <5>2
      <4>2. CASE ~(k <= Confirmed(c))
        <5>1. k = Confirmed(c) + 1 /\ chunkNo[c] <= NParts[c]
          BY <3>3, <4>2, UdpAssumption DEF Confirmed, ChunkInv
        <5>2. Confirmed(c) < NParts[c]
          <6>1. Confirmed(c) \in Int /\ NParts[c] \in Int /\ chunkNo[c] \in Int
            BY UdpAssumption DEF Confirmed
          <6> QED BY <3>3, <5>1, <6>1
        <5>3. FT!Deliver(c)
          BY <3>1, <3>3, <5>1, <5>2 DEF FT!Deliver
        <5> QED BY <5>3 DEF FT!Next
      <4> QED BY <4>1, <4>2
    <3> QED BY <2>1, <3>2, <3>3, ServerStep
  <2>2. ASSUME NEW c \in Clients, CheckReply(c)
        PROVE  FT!Next \/ UNCHANGED <<printed, [d \in Clients |-> Confirmed(d)]>>
    <3>1. printed' = printed /\ chunkNo' = chunkNo
      BY <2>2 DEF CheckReply, serverVars
    <3>2. \A d \in Clients : d # c => Confirmed(d)' = Confirmed(d)
      BY <2>2, <3>1 DEF CheckReply, Confirmed
    <3>3. CASE recvbuf[c] = chunkNo[c]
      <4>1. Confirmed(c) = chunkNo[c] - 1 /\ Confirmed(c)' = chunkNo[c] /\ chunkNo[c] \in printed[c]
        BY <2>2, <3>1, <3>3, UdpAssumption DEF CheckReply, Confirmed, AckInv, ChunkInv
      <4>2. Confirmed(c)' = Confirmed(c) + 1 /\ Confirmed(c) + 1 = chunkNo[c]
        BY <4>1
      <4>3. [d \in Clients |-> Confirmed(d)'] = [[d \in Clients |-> Confirmed(d)] EXCEPT ![c] = @ + 1]
        <5>1. \A d \in Clients : Confirmed(d)' = [[e \in Clients |-> Confirmed(e)] EXCEPT ![c] = @ + 1][d]
          BY <3>2, <4>2
        <5> QED BY <5>1
      <4>4. FT!Confirm(c)
        BY <3>1, <4>1, <4>2, <4>3 DEF FT!Confirm
      <4> QED BY <4>4 DEF FT!Next
    <3>4. CASE recvbuf[c] # chunkNo[c]
      <4>1. Confirmed(c)' = Confirmed(c)
        BY <2>2, <3>1, <3>4 DEF CheckReply, Confirmed
      <4> QED BY <3>1, <3>2, <4>1
    <3> QED BY <3>3, <3>4
  <2>3. ASSUME NEW c \in Clients,
               ReadPart(c) \/ SendPart(c) \/ ArmTimer(c) \/ EnterRecv(c) \/ Alarm(c)
        PROVE  UNCHANGED <<printed, [d \in Clients |-> Confirmed(d)]>>
    BY <2>3 DEF ReadPart, SendPart, ArmTimer, EnterRecv, Alarm, serverVars, Confirmed, PCs
  <2>4. ASSUME NEW m \in toClient, RecvReply(m[1], m[2])
        PROVE  UNCHANGED <<printed, [d \in Clients |-> Confirmed(d)]>>
    BY <2>4 DEF RecvReply, serverVars, Confirmed
  <2>5. CASE Lose
    BY <2>5 DEF Lose, serverVars, clientVars, Confirmed
  <2>6. ASSUME NEW m \in toServer, ServerReceive(m[1], m[2])
        PROVE  FT!Next \/ UNCHANGED <<printed, [d \in Clients |-> Confirmed(d)]>>
    <3>1. PICK c \in Clients, k \in Nat : m = <<c, k>>
      OBVIOUS
    <3> QED BY <2>1, <2>6, <3>1
  <2> QED BY <2>2, <2>3, <2>4, <2>5, <2>6 DEF Next, ClientStep
<1> QED BY <1>1, <1>2, IInvInit, IInvStep, PTL DEF Spec, ImplementsFileTransfer, FT!Spec
=============================================================================
