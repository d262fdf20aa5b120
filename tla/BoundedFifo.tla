----------------------------- MODULE BoundedFifo -----------------------------
(***************************************************************************)
(* What the driver event queue promises: messages come out one at a time,  *)
(* each of them once, in the order in which they went in; a full queue     *)
(* refuses a message and forgets nothing it accepted.                      *)
(***************************************************************************)
EXTENDS Naturals, Sequences

CONSTANTS Msgs, NoMsg, Capacity

VARIABLES
    q,        \* the messages accepted and not yet taken
    current   \* the message the consumer is handling, or NoMsg

Init == q = <<>> /\ current = NoMsg

Put(m) ==
    /\ Len(q) < Capacity
    /\ q' = Append(q, m)
    /\ UNCHANGED current

Take ==
    /\ q # <<>>
    /\ current = NoMsg
    /\ current' = Head(q)
    /\ q' = Tail(q)

Done ==
    /\ current # NoMsg
    /\ current' = NoMsg
    /\ UNCHANGED q

Next == (\E m \in Msgs : Put(m)) \/ Take \/ Done

Spec == Init /\ [][Next]_<<q, current>>
==============================================================================
