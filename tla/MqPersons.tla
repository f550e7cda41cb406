------------------------------ MODULE MqPersons ------------------------------
(***************************************************************************)
(* l5_5-2.c of the message queue laboratory: processes that write to each  *)
(* other's queues and are notified of messages by a new thread             *)
(* (SIGEV_THREAD).  Of the messages only their number matters.             *)
(***************************************************************************)
EXTENDS Integers, FiniteSets

CONSTANTS Persons, ROUNDS, MAX_MSG_COUNT

PersonConstants == ROUNDS \in Nat /\ MAX_MSG_COUNT \in Nat \ {0}

VARIABLES
    unread,     \* messages in a person's queue
    notify,     \* its owner is registered for a notification
    readers,    \* readers[p]: its calls of handle_messages(), by where they are
    ppc, left,  \* the main threads, and the messages they have yet to write
    group       \* the process group is alive

vars == <<unread, notify, readers, ppc, left, group>>

Init ==
    /\ unread = [p \in Persons |-> 0] /\ notify = [p \in Persons |-> FALSE]
    /\ readers = [p \in Persons |-> [register |-> 1, drain |-> 0]]
    /\ ppc = [p \in Persons |-> "handle_messages"] /\ left = [p \in Persons |-> ROUNDS]
    /\ group = TRUE

Alive(p) == group /\ ppc[p] # "gone"
Becomes(p, from, to) == readers' = [readers EXCEPT ![p][from] = @ - 1, ![p][to] = @ + 1]

\* mq_notify() fails with EBUSY where a registration is left: ERR.
register_notification(p) ==
    /\ Alive(p) /\ readers[p].register > 0
    /\ notify' = [notify EXCEPT ![p] = TRUE] /\ group' = ~notify[p]
    /\ Becomes(p, "register", "drain")
    /\ UNCHANGED <<unread, ppc, left>>

Read(p) ==
    /\ Alive(p) /\ readers[p].drain > 0 /\ unread[p] > 0
    /\ unread' = [unread EXCEPT ![p] = @ - 1]
    /\ UNCHANGED <<notify, readers, ppc, left, group>>

\* EAGAIN: handle_messages() returns, in main or in a thread, which ends.
Drained(p) ==
    /\ Alive(p) /\ readers[p].drain > 0 /\ unread[p] = 0
    /\ readers' = [readers EXCEPT ![p].drain = @ - 1]
    /\ \/ ppc[p] = "handle_messages" /\ ppc' = [ppc EXCEPT ![p] = "send"]
       \/ /\ ppc[p] # "handle_messages" \/ readers[p].drain > 1
          /\ UNCHANGED ppc
    /\ UNCHANGED <<unread, notify, left, group>>

\* A message in an empty queue starts a thread and uses up the registration.
Notification(p) ==
    IF unread[p] = 0 /\ notify[p]
    THEN /\ readers' = [readers EXCEPT ![p].register = @ + 1]
         /\ notify' = [notify EXCEPT ![p] = FALSE]
    ELSE UNCHANGED <<notify, readers>>

\* To anybody, oneself and those who left included; a full queue is fatal for all.
send_message(p, receiver) ==
    /\ Alive(p) /\ ppc[p] = "send" /\ left[p] > 0
    /\ IF unread[receiver] < MAX_MSG_COUNT
       THEN /\ unread' = [unread EXCEPT ![receiver] = @ + 1]
            /\ Notification(receiver)
            /\ left' = [left EXCEPT ![p] = @ - 1] /\ UNCHANGED group
       ELSE group' = FALSE /\ UNCHANGED <<unread, notify, readers, left>>
    /\ UNCHANGED ppc

\* exit() ends the threads too, and the kernel drops the registration.
Leave(p) ==
    /\ Alive(p) /\ ppc[p] = "send" /\ left[p] = 0
    /\ ppc' = [ppc EXCEPT ![p] = "gone"] /\ notify' = [notify EXCEPT ![p] = FALSE]
    /\ readers' = [readers EXCEPT ![p] = [register |-> 0, drain |-> 0]]
    /\ UNCHANGED <<unread, left, group>>

PersonStep(p) == \/ register_notification(p) \/ Read(p) \/ Drained(p) \/ Leave(p)
                 \/ \E receiver \in Persons : send_message(p, receiver)
Next == \E p \in Persons : PersonStep(p)
Spec == Init /\ [][Next]_vars

-----------------------------------------------------------------------------
\* Who is there will read what is in its queue, also what came before the first
\* registration or between a drained queue and the next; at most one
\* registration is pending or about to be made, so that none fails; and the
\* persons are killed only because the queue of one of them is full, alive or
\* gone (l5_5-2.c:45-77, 99-104, 117).
SomebodyReads ==
    IF group THEN \A p \in Persons : Alive(p) =>
                     /\ unread[p] > 0 => readers[p].register + readers[p].drain > 0
                     /\ readers[p].register = IF notify[p] THEN 0 ELSE 1
             ELSE \E p \in Persons : unread[p] = MAX_MSG_COUNT

AllLeft == group => \A p \in Persons : ~Alive(p)
=============================================================================
