-------------------------- MODULE OrderStateMachine --------------------------
(* The table of legal order status changes (modules/order/order-state-machine). *)

OrderStatus ==
    {"created", "payment_pending", "payment_authorized", "paid", "payment_failed",
     "packing", "shipped", "delivered", "completed", "cancelled", "refunded",
     "disputed", "chargeback"}

Transitions ==
    [s \in OrderStatus |->
        CASE s = "created" -> {"payment_pending", "cancelled"}
          [] s = "payment_pending" ->
                {"payment_authorized", "paid", "payment_failed", "cancelled"}
          [] s = "payment_authorized" -> {"paid", "payment_failed", "cancelled"}
          [] s = "paid" -> {"packing", "refunded", "disputed", "chargeback"}
          [] s = "packing" -> {"shipped", "cancelled"}
          [] s = "shipped" -> {"delivered"}
          [] s = "delivered" -> {"completed", "refunded", "disputed"}
          [] s = "completed" -> {"refunded", "disputed", "chargeback"}
          [] s = "payment_failed" -> {"payment_pending", "cancelled"}
          [] s = "disputed" -> {"refunded", "chargeback", "completed"}
          [] OTHER -> {}]

CanTransition(from, to) == from \in OrderStatus /\ to \in Transitions[from]
==============================================================================
