----------------------------- MODULE LockOrder -----------------------------
(***************************************************************************)
(* The row locks of the handlers that change orders, payments, discounts,  *)
(* wallets, accounts and subscriptions, and who waits for whom.            *)
(*                                                                         *)
(* A handler locks rows with SELECT ... FOR UPDATE or by an UPDATE that it *)
(* flushes, one after the other, and keeps them until its transaction      *)
(* ends; between two locks it runs Python, or waits for a gateway or a     *)
(* panel.  Each handler below is its sequence of stages, a stage being the *)
(* rows it may lock there.  A handler may leave out any stage but the      *)
(* first: the row is absent, or an early return comes before it.           *)
(*                                                                         *)
(* PostgreSQL breaks a cycle of waits by failing one of its transactions,  *)
(* which the customer sees as an error and, for a payment callback, may    *)
(* come after the gateway has settled the payment.  So it matters which    *)
(* handlers can wait for each other at all.                                *)
(***************************************************************************)
EXTENDS Naturals, Sequences

CONSTANTS
    Sessions,
    NewOrders,     \* orders of kind NEW, each with an account of its own
    Changes,       \* renewal and top-up orders
    Payments,
    Codes,         \* discount codes
    Wallets,
    Services,      \* a service is an account and its subscription
    OrderOf,       \* the order of each payment
    WalletOf       \* the wallet of each order's customer

Orders == NewOrders \cup Changes

ASSUME LockOrderAssumption ==
    /\ NewOrders \cap Changes = {}
    /\ OrderOf \in [Payments -> Orders]
    /\ WalletOf \in [Orders -> Wallets]

VARIABLES
    work,    \* the handler each session runs
    stage,   \* the stage of the last lock it asked for
    held,    \* the rows it has locked
    wants    \* the row it waits for, if any

vars == <<work, stage, held, wants>>

-----------------------------------------------------------------------------
(* Rows, and the handlers as sequences of rows *)

Order(o) == <<"order", o>>
Payment(p) == <<"payment", p>>
Redemption(o) == <<"redemption", o>>
Code(c) == <<"code", c>>
Wallet(w) == <<"wallet", w>>
Account(v) == <<"account", v>>
Subscription(v) == <<"subscription", v>>

OrderRows == {Order(o) : o \in Orders}
RedemptionRows == {Redemption(o) : o \in Orders}
PaymentRows == {Payment(p) : p \in Payments}
CodeRows == {Code(c) : c \in Codes}
PaymentsOf(o) == {Payment(p) : p \in {q \in Payments : OrderOf[q] = o}}

Rows == OrderRows \cup RedemptionRows \cup PaymentRows \cup CodeRows
        \cup {Wallet(w) : w \in Wallets}
        \cup {Account(v) : v \in Services} \cup {Subscription(v) : v \in Services}

Work(kind, stages) == [kind |-> kind, stages |-> stages]
None == Work("none", << >>)

\* The callback locks the payment; verify_payment then locks the order.
Callback(p) == Work("callback",
    <<{Payment(p)}, {Order(OrderOf[p])}, {Redemption(OrderOf[p])}>>)

\* create_pending_payment; the payment it returns is updated.
StartPayment(p) == Work("start", <<{Order(OrderOf[p])}, {Payment(p)}>>)

ApproveOrder(p) == Work("approve",
    <<{Order(OrderOf[p])}, {Payment(p)}, {Redemption(OrderOf[p])}>>)

RejectPayment(p) == Work("reject", <<{Order(OrderOf[p])}, {Payment(p)}>>)

\* Faulty: the payments are locked before the order, as the callback does.
CancelPaymentsFirst(o, c) == Work("cancel",
    <<PaymentsOf(o), {Order(o)}, {Redemption(o)}, {Code(c)}>>)

CancelOrder(o, c) == Work("cancel",
    <<{Order(o)}, {Redemption(o)}, {Code(c)}, PaymentsOf(o)>>)

\* The reservation, and the settlement when nothing is left to pay.
ApplyDiscount(o, c) == Work("discount",
    <<{Order(o)}, {Redemption(o)}, {Code(c)}, PaymentsOf(o)>>)

PayWithWallet(o) == Work("wallet",
    <<{Order(o)}, {Wallet(WalletOf[o])}, {Redemption(o)}, PaymentsOf(o)>>)

CreditWallet(w) == Work("credit", <<{Wallet(w)}>>)

EditDiscount(c) == Work("edit", <<{Code(c)}>>)

\* The account is the order's own, or the one whose admin id collides.
Provision(o, v) == Work("provision",
    <<{Order(o)}, {Account(v)}, {Subscription(v)}>>)

Reissue(o, v) == Work("reissue", <<{Order(o)}, {Account(v)}>>)

\* A renewal or a top-up locks the subscription first.
ChangeService(o, v) == Work("change",
    <<{Order(o)}, {Subscription(v)}, {Account(v)}>>)

\* The clean-up skips locked rows in its first statement, then waits for codes.
CleanUp == Work("cleanup", <<OrderRows \cup RedemptionRows, CodeRows>>)

Handlers ==
    {Callback(p) : p \in Payments} \cup {StartPayment(p) : p \in Payments}
    \cup {ApproveOrder(p) : p \in Payments} \cup {RejectPayment(p) : p \in Payments}
    \cup {CancelOrder(x[1], x[2]) : x \in Orders \X Codes}
    \cup {ApplyDiscount(x[1], x[2]) : x \in Orders \X Codes}
    \cup {PayWithWallet(o) : o \in Orders} \cup {CreditWallet(w) : w \in Wallets}
    \cup {EditDiscount(c) : c \in Codes}
    \cup {Provision(x[1], x[2]) : x \in NewOrders \X Services}
    \cup {Reissue(x[1], x[2]) : x \in NewOrders \X Services}
    \cup {ChangeService(x[1], x[2]) : x \in Changes \X Services}

-----------------------------------------------------------------------------
(* Steps *)

Locked(l) == \E s \in Sessions : l \in held[s]

Init ==
    /\ work = [s \in Sessions |-> None]
    /\ stage = [s \in Sessions |-> 0]
    /\ held = [s \in Sessions |-> {}]
    /\ wants = [s \in Sessions |-> {}]

\* The first row is asked for at once.
Begin(s) ==
    /\ work[s] = None
    /\ \E h \in Handlers : \E l \in h.stages[1] :
         /\ work' = [work EXCEPT ![s] = h]
         /\ wants' = [wants EXCEPT ![s] = {l}]
    /\ stage' = [stage EXCEPT ![s] = 1]
    /\ UNCHANGED held

\* Faulty: the clean-up's statement does not skip locked rows.
TakeAnyRows(s) ==
    /\ work[s] = None
    /\ work' = [work EXCEPT ![s] = CleanUp]
    /\ stage' = [stage EXCEPT ![s] = 2]
    /\ \E S \in SUBSET CleanUp.stages[1] : held' = [held EXCEPT ![s] = S]
    /\ UNCHANGED wants

\* FOR UPDATE SKIP LOCKED on the join locks the rows of both tables that are
\* free; of a pair that it skips, one row may stay locked.
TakeFreeRows(s) ==
    /\ work[s] = None
    /\ work' = [work EXCEPT ![s] = CleanUp]
    /\ stage' = [stage EXCEPT ![s] = 2]
    /\ \E S \in SUBSET {l \in CleanUp.stages[1] : ~Locked(l)} :
         held' = [held EXCEPT ![s] = S]
    /\ UNCHANGED wants

\* The handler goes on to a row of this stage or a later one.
Ask(s) ==
    /\ work[s] # None
    /\ wants[s] = {}
    /\ \E j \in stage[s]..Len(work[s].stages) :
         \E l \in work[s].stages[j] \ held[s] :
           /\ wants' = [wants EXCEPT ![s] = {l}]
           /\ stage' = [stage EXCEPT ![s] = j]
    /\ UNCHANGED <<work, held>>

Grant(s) ==
    /\ wants[s] # {}
    /\ \A l \in wants[s] : ~Locked(l)
    /\ held' = [held EXCEPT ![s] = @ \cup wants[s]]
    /\ wants' = [wants EXCEPT ![s] = {}]
    /\ UNCHANGED <<work, stage>>

\* COMMIT or ROLLBACK; of a session that waits, as the victim of the deadlock
\* detector, or because its process or its connection dies.
End(s) ==
    /\ work[s] # None
    /\ work' = [work EXCEPT ![s] = None]
    /\ stage' = [stage EXCEPT ![s] = 0]
    /\ held' = [held EXCEPT ![s] = {}]
    /\ wants' = [wants EXCEPT ![s] = {}]

Next == \E s \in Sessions :
    Begin(s) \/ TakeFreeRows(s) \/ Ask(s) \/ Grant(s) \/ End(s)

Spec == Init /\ [][Next]_vars

-----------------------------------------------------------------------------
(* Properties *)

Waits(s, t) == s # t /\ wants[s] \cap held[t] # {}

\* Each of C waits for another of C: nobody in C can go on.
Stuck(C) == C # {} /\ \A s \in C : \E t \in C : Waits(s, t)

Runs(C, kind) == {s \in C : work[s].kind = kind}

\* Sessions run one of the handlers, wait for at most one row, and no row is
\* locked twice, although the clean-up takes its rows without waiting
\* (services/discounts.py:187-204).
TypeOK ==
    /\ work \in [Sessions -> Handlers \cup {None, CleanUp}]
    /\ stage \in [Sessions -> 0..4]
    /\ held \in [Sessions -> SUBSET Rows]
    /\ wants \in [Sessions -> SUBSET Rows]
    /\ \A s \in Sessions : \A l, m \in wants[s] : l = m
    /\ \A s, t \in Sessions : s # t => held[s] \cap held[t] = {}

\* Handlers block each other for good only where their lock orders differ: a
\* payment callback, which locks the payment before the order, is among them
\* (payment_callbacks.py:77, payments.py:90-97); or a renewal or top-up, which
\* locks the subscription before the account, meets the provisioning of that
\* service (subscriptions.py:146-158, provisioning.py:355-367); or two
\* clean-ups, of two processes, want codes the other has taken
\* (discounts.py:206-212).
CyclesExplained == \A C \in SUBSET Sessions :
    Stuck(C) => \/ Runs(C, "callback") # {}
                \/ Runs(C, "change") # {} /\ Runs(C, "provision") # {}
                \/ \E s, t \in Runs(C, "cleanup") : s # t
=============================================================================
