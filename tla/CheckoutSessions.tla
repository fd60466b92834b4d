-------------------------- MODULE CheckoutSessions --------------------------
(***************************************************************************)
(* The handlers of Checkout run by concurrent database sessions.           *)
(*                                                                         *)
(* Most handlers load the order without a lock (to check its owner, or to  *)
(* show it), then call a service that selects the same row FOR UPDATE.     *)
(* The lock waits for other sessions, but SQLAlchemy's identity map keeps  *)
(* the attributes it loaded first, so the service decides from the copy    *)
(* taken before it waited.  A session here loads (one step) and finishes   *)
(* (one step, the service and its COMMIT, all under the order's row lock), *)
(* and any other session may run in between.                               *)
(*                                                                         *)
(* A session ends without effect at any point: an exception, a deadlock    *)
(* that PostgreSQL resolves against it, a crash of the process.            *)
(***************************************************************************)
EXTENDS CheckoutProperties

CONSTANT Sessions   \* requests and Telegram updates handled at the same time

VARIABLE sess       \* what each session has loaded and locked

sessionVars == <<vars, sess>>

Idle == [stage |-> "idle"]

\* An order loaded without a lock (routers/payments.py:173-177, customer.py:
\* 366-370, discounts.py:192-196, admin.py:827 and 893, and the web
\* order actions of admin_panel.py; fulfillment.py:43).
Loaded(o) == [stage |-> "loaded", order |-> o, row |-> Row(o)]

\* payment_callback holds the payment's row lock while it asks the gateway; it
\* has loaded the order without a lock.
Verifying(p) == [stage |-> "verifying", payment |-> p, row |-> Row(payment[p].order)]

\* wallet_pay locks the order first; get_or_create_wallet then loads the
\* wallet before SELECT ... FOR UPDATE waits for it.
Paying(o) == [stage |-> "paying", order |-> o, row |-> Row(o),
              balance |-> balance[Owner[o]]]
Crediting(c) == [stage |-> "crediting", customer |-> c, balance |-> balance[c]]

SessionsInit == Init /\ sess = [s \in Sessions |-> Idle]

\* A payment's row or an order's row locked by a session other than s.
PaymentLocked(s, p) == \E t \in Sessions \ {s} :
    sess[t].stage = "verifying" /\ sess[t].payment = p
OrderLocked(s, o) == \E t \in Sessions \ {s} :
    sess[t].stage = "paying" /\ sess[t].order = o
NoneLocked(s, ids) == \A p \in ids : ~PaymentLocked(s, p)

Start(s, work) ==
    /\ sess[s] = Idle
    /\ sess' = [sess EXCEPT ![s] = work]
    /\ UNCHANGED vars

End(s) == sess' = [sess EXCEPT ![s] = Idle]

-----------------------------------------------------------------------------
(* First steps *)

LoadOrder(s, o) == status[o] # "absent" /\ Start(s, Loaded(o))

LockPayment(s, p) ==
    /\ payment[p].status = "pending" /\ payment[p].via \in Gateways
    /\ ~PaymentLocked(s, p)
    /\ Start(s, Verifying(p))

LockOrderReadWallet(s, o) ==
    /\ status[o] \in Unpaid
    /\ ~OrderLocked(s, o)
    /\ Start(s, Paying(o))

ReadWallet(s, c) == Start(s, Crediting(c))

-----------------------------------------------------------------------------
(* Last steps *)

\* The service of a handler that loaded the order: it waits for the row locks
\* it takes and works on the copy.
FinishOrder(s) ==
    LET o == sess[s].order
        row == sess[s].row
        pending == PaymentsOf(o, "pending")
    IN  /\ sess[s].stage = "loaded"
        /\ ~OrderLocked(s, o)
        /\ \/ \E g \in Gateways : StartGatewayPayment(o, row, g)
           \/ \E m \in ManualMethods : SubmitReceipt(o, row, m)
           \/ ApproveManualOrder(o, row)
           \/ RejectPendingManualPayment(o, row)
           \/ NoneLocked(s, pending) /\ CancelUnpaidOrder(o, row)
           \/ /\ NoneLocked(s, pending)
              /\ \E c \in Codes : ApplyDiscountCode(o, row, c)
           \/ \E outcome \in {"completed", "failed"} :
                FulfillPaidOrder(o, row, outcome)
        /\ End(s)

FinishCallback(s) ==
    LET p == sess[s].payment IN
    /\ sess[s].stage = "verifying"
    /\ \/ /\ ~OrderLocked(s, payment[p].order)
          /\ CallbackPaid(p, sess[s].row)
       \/ CallbackNotPaid(p)
    /\ End(s)

FinishWalletPayment(s) ==
    /\ sess[s].stage = "paying"
    /\ NoneLocked(s, PaymentsOf(sess[s].order, "pending"))
    /\ PayOrderWithWallet(sess[s].order, sess[s].row, sess[s].balance)
    /\ End(s)

FinishCredit(s) ==
    /\ sess[s].stage = "crediting"
    /\ \E k \in Keys, a \in Amounts :
         CreditWallet(sess[s].customer, k, a, sess[s].balance)
    /\ End(s)

\* The session rolls back.  A callback may have made the gateway settle the
\* payment before that.
Abort(s) ==
    /\ sess[s] # Idle
    /\ End(s)
    /\ \/ UNCHANGED vars
       \/ /\ sess[s].stage = "verifying"
          /\ captured' = captured \cup {sess[s].payment}
          /\ UNCHANGED <<status, discountVars, payment, walletVars>>

\* Handlers that load nothing before they lock: checkout, the Telegram
\* approval, and the clean-up, which skips locked orders.
Unraced ==
    /\ \/ \E o \in Orders : PlaceOrder(o)
       \/ \E o \in Orders :
            /\ \A s \in Sessions : ~OrderLocked(s, o)
            /\ ApproveManualOrder(o, Row(o))
       \/ \E S \in SUBSET Orders :
            /\ \A s \in Sessions, o \in S : ~OrderLocked(s, o)
            /\ ReleaseStaleDiscounts(S)
    /\ UNCHANGED sess

SessionsNext ==
    \/ Unraced
    \/ \E s \in Sessions :
         \/ \E o \in Orders : LoadOrder(s, o) \/ LockOrderReadWallet(s, o)
         \/ \E p \in PaymentIds : LockPayment(s, p)
         \/ \E c \in Customers : ReadWallet(s, c)
         \/ FinishOrder(s)
         \/ FinishCallback(s)
         \/ FinishWalletPayment(s)
         \/ FinishCredit(s)
         \/ Abort(s)

SessionsSpec == SessionsInit /\ [][SessionsNext]_sessionVars

-----------------------------------------------------------------------------
(* What the locks still guarantee *)

\* A paid order has a verified payment, and a spent code belongs to an order
\* that was paid, although the decision may have been taken from a copy of the
\* order that was out of date.
PaidHasItsPayment == \A o \in Orders :
    status[o] \in Settled \/ redemption[o].status = "redeemed" => Verified(o) # {}
=============================================================================
