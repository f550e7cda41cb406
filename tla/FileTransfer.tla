---------------------------- MODULE FileTransfer ----------------------------
(***************************************************************************)
(* What lab 8 asks of the UDP file transfer, without sockets, timers or    *)
(* slots: every part of a file reaches the server in order, and a client   *)
(* moves to the next part only after the current one has been delivered.   *)
(***************************************************************************)
EXTENDS Naturals

CONSTANTS Clients,   \* the processes that send a file
          NParts     \* NParts[c]: the number of parts of c's file

VARIABLES delivered, \* delivered[c]: the parts of c's file the server holds
          confirmed  \* confirmed[c]: how many parts c knows to be delivered

Init == /\ delivered = [c \in Clients |-> {}]
        /\ confirmed = [c \in Clients |-> 0]

\* The part after the last confirmed one is the only one that can be new.
Deliver(c) ==
    /\ confirmed[c] < NParts[c]
    /\ delivered' = [delivered EXCEPT ![c] = @ \cup {confirmed[c] + 1}]
    /\ UNCHANGED confirmed

Confirm(c) ==
    /\ confirmed[c] + 1 \in delivered[c]
    /\ confirmed' = [confirmed EXCEPT ![c] = @ + 1]
    /\ UNCHANGED delivered

Next == \E c \in Clients : Deliver(c) \/ Confirm(c)

Spec == Init /\ [][Next]_<<delivered, confirmed>>
=============================================================================
