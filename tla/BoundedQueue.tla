---------------------------- MODULE BoundedQueue ----------------------------
(***************************************************************************)
(* What both bounded buffers of the synchronisation patterns lecture       *)
(* promise, stated on what they print: items are consumed in the order     *)
(* they were produced, none is lost or consumed twice, and at most         *)
(* BUFFER_SIZE are produced and not yet consumed.                          *)
(***************************************************************************)
EXTENDS Naturals, Sequences

CONSTANTS Items,        \* what producers produce
          BUFFER_SIZE   \* capacity

VARIABLES produced,     \* the items of the "produced" lines, in order
          consumed      \* the items of the "consumed" lines, in order

Init == produced = <<>> /\ consumed = <<>>

Put == /\ Len(produced) < Len(consumed) + BUFFER_SIZE
       /\ \E x \in Items : produced' = Append(produced, x)
       /\ UNCHANGED consumed

Get == /\ Len(consumed) < Len(produced)
       /\ consumed' = Append(consumed, produced[Len(consumed) + 1])
       /\ UNCHANGED produced

Next == Put \/ Get

Spec == Init /\ [][Next]_<<produced, consumed>>
=============================================================================
