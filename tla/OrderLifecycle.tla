--------------------------- MODULE OrderLifecycle ----------------------------
(* What the order component promises to everything that reads orders.status:  *)
(* an order appears as created, and its stored status then only ever moves    *)
(* along the state machine's table.                                           *)
EXTENDS OrderStateMachine

CONSTANT Orders

VARIABLE order

Init == order = [o \in Orders |-> "absent"]

Create(o) ==
    /\ order[o] = "absent"
    /\ order' = [order EXCEPT ![o] = "created"]

Move(o) ==
    \E to \in OrderStatus :
        /\ CanTransition(order[o], to)
        /\ order' = [order EXCEPT ![o] = to]

Next == \E o \in Orders : Create(o) \/ Move(o)

Spec == Init /\ [][Next]_order
==============================================================================
