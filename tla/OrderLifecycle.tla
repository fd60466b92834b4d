--------------------------- MODULE OrderLifecycle ---------------------------
(***************************************************************************)
(* What the shop promises about one order, whatever the payment methods,   *)
(* the discounts and the PasarGuard panel do: it is placed, it is either   *)
(* canceled unpaid or paid, and only a paid order is fulfilled.  Checkout  *)
(* implements this specification, with repayment; Fulfillment and          *)
(* Catalogue take their steps of a status from it.  CheckoutSessions does  *)
(* not implement it and is not compared with it: a cancellation decided    *)
(* from a stale copy cancels a paid order.                                 *)
(*                                                                         *)
(* AllowRepay says whether an order that fulfillment has already settled   *)
(* may become "paid" once more.  The documentation says no (README.md:24,  *)
(* docs/operations.md:122); verify_payment, which never looks at the       *)
(* order's status, says yes (services/payments.py:82-137).                 *)
(***************************************************************************)
CONSTANTS Orders,       \* orders a run can place
          AllowRepay    \* TRUE: fulfilled orders may return to "paid"

VARIABLE status         \* the status column of each order

Unpaid == {"pending", "awaiting_payment"}
Settled == {"paid", "provisioning", "completed", "failed"}

Init == status = [o \in Orders |-> "absent"]

Become(o, s) == status' = [status EXCEPT ![o] = s]

Place(o) == status[o] = "absent" /\ Become(o, "awaiting_payment")
Pay(o) == status[o] \in Unpaid /\ Become(o, "paid")
Cancel(o) == status[o] \in Unpaid /\ Become(o, "canceled")
Deliver(o) == status[o] \in Settled /\ Become(o, "completed")
Fail(o) == status[o] \in Settled \ {"completed"} /\ Become(o, "failed")
Repay(o) == AllowRepay /\ status[o] \in Settled /\ Become(o, "paid")

Next == \E o \in Orders : \/ Place(o)
                          \/ Pay(o)
                          \/ Cancel(o)
                          \/ Deliver(o)
                          \/ Fail(o)
                          \/ Repay(o)

Spec == Init /\ [][Next]_status
=============================================================================
