----------------------------- MODULE Catalogue -----------------------------
(***************************************************************************)
(* What is on sale, edited while it is being sold: the plans, the discount *)
(* codes and the block flag of customers, which staff change at any time   *)
(* (admin_panel.py, routers/admin.py), and the orders customers place from *)
(* them (routers/customer.py, routers/services.py).                        *)
(*                                                                         *)
(* An order copies the terms of its plan when it is placed, a redemption   *)
(* the amount of its code; nothing is looked up again later.  The handlers *)
(* that place an order and edit a code read a row without a lock and write *)
(* afterwards, so each is two steps of a session.  Everything else is one  *)
(* step: the discount services lock the rows they count, and an edit of a  *)
(* plan or a customer writes whatever columns differ from the copy it      *)
(* read, which one step that writes any columns covers.                    *)
(*                                                                         *)
(* How an order is paid is left to Checkout, and stale copies of orders to *)
(* CheckoutSessions; here the status moves as OrderLifecycle says.         *)
(***************************************************************************)
EXTENDS Naturals, FiniteSets

CONSTANTS
    Orders,      \* orders by idempotency key: a message's button and a plan
    Plans,
    Codes,       \* discount codes
    Customers,
    Sessions,    \* requests and updates handled at the same time
    PlanOf,      \* the plan in the key of each order
    Owner,       \* the customer in the key of each order
    Kind,        \* "fixed" or "percent", per code; no edit changes it
    Prices,      \* bound: price_amount of plans
    Quotas,      \* bound: quota_bytes of plans, 0 is unlimited
    Values,      \* bound: value_amount or value_percent of codes
    Limits       \* bound: max_uses of codes

ASSUME CatalogueAssumption ==
    /\ IsFiniteSet(Orders)
    /\ PlanOf \in [Orders -> Plans]
    /\ Owner \in [Orders -> Customers]
    /\ Kind \in [Codes -> {"fixed", "percent"}]
    /\ Prices \subseteq Nat /\ Quotas \subseteq Nat
    /\ Values \subseteq Nat \ {0} /\ Limits \subseteq Nat \ {0}

VARIABLES
    plan,        \* the plans table
    offered,     \* history: what plans have offered while they were active
    code,        \* the discount_codes table but for used_count
    used,        \* discount_codes.used_count
    blocked,     \* customers.is_blocked
    status,      \* orders.status
    price,       \* orders.price_amount
    discount,    \* orders.discount_amount
    quota,       \* orders.quota_bytes
    redemption,  \* the discount_redemptions table, unique per order
    delivered,   \* history: quotas set on the panel for an order
    sess         \* what each session has read

vars == <<plan, offered, code, used, blocked, status, price, discount, quota,
          redemption, delivered, sess>>
planVars == <<plan, offered>>
orderVars == <<status, price, discount, quota, redemption, delivered>>

Lifecycle == INSTANCE OrderLifecycle WITH AllowRepay <- FALSE

-----------------------------------------------------------------------------
(* Rows *)

NoPlan == [state |-> "none", price |-> 0, quota |-> 0]
Listed == {"active", "inactive"}   \* the row exists
PlanRow == [state : Listed, price : Prices, quota : Quotas]

\* `open` is is_active and not yet at expires_at.  A limit of 0 is no limit,
\* and a value of 0 one that an edit has set to null.
NoCode == [open |-> FALSE, value |-> 0, limit |-> 0]
CodeRow == [open : BOOLEAN, value : Values \cup {0}, limit : Limits \cup {0}]

NoRedemption == [status |-> "none", code |-> "none", amount |-> 0]

Idle == [stage |-> "idle"]
Ordering(o) == [stage |-> "ordering", order |-> o,
                price |-> plan[PlanOf[o]].price, quota |-> plan[PlanOf[o]].quota]
Editing(c) == [stage |-> "editing", code |-> c, row |-> code[c], used |-> used[c]]

Offers(pl, row) ==
    IF row.state = "active" THEN {<<pl, row.price, row.quota>>} ELSE {}

\* The unit of work writes a column only if the session changed its copy.
Flush(stored, seen, new) == IF new = seen THEN stored ELSE new

Init ==
    /\ plan = [pl \in Plans |-> NoPlan]
    /\ offered = {}
    /\ code = [c \in Codes |-> NoCode]
    /\ used = [c \in Codes |-> 0]
    /\ blocked = {}
    /\ Lifecycle!Init
    /\ price = [o \in Orders |-> 0]
    /\ discount = [o \in Orders |-> 0]
    /\ quota = [o \in Orders |-> 0]
    /\ redemption = [o \in Orders |-> NoRedemption]
    /\ delivered = {}
    /\ sess = [s \in Sessions |-> Idle]

-----------------------------------------------------------------------------
(* Staff: plans and customers *)

WritePlan(pl, row) ==
    /\ plan' = [plan EXCEPT ![pl] = row]
    /\ offered' = offered \cup Offers(pl, row)
    /\ UNCHANGED <<code, used, blocked, orderVars, sess>>

CreatePlan(pl) ==
    /\ plan[pl].state = "none"
    /\ \E row \in PlanRow : WritePlan(pl, row)

\* The Telegram form asks for name, quota and price; its plan is active.
CreatePlanByForm(pl) ==
    /\ plan[pl].state = "none"
    /\ \E row \in PlanRow : row.state = "active" /\ WritePlan(pl, row)

\* The web edit changes any columns.
EditPlan(pl) ==
    /\ plan[pl].state \in Listed
    /\ \E row \in PlanRow : WritePlan(pl, row)

\* The opposite of is_active as it was read, so either.
TogglePlan(pl) ==
    /\ plan[pl].state \in Listed
    /\ \E state \in Listed : WritePlan(pl, [plan[pl] EXCEPT !.state = state])

\* Faulty: the orders of a plan do not keep it.
DeleteUsedPlan(pl) ==
    /\ plan[pl].state \in Listed
    /\ WritePlan(pl, [NoPlan EXCEPT !.state = "deleted"])

\* An order that arrives after the check makes the foreign key refuse.
DeletePlan(pl) ==
    /\ plan[pl].state \in Listed
    /\ \A o \in Orders : PlanOf[o] = pl => status[o] = "absent"
    /\ WritePlan(pl, [NoPlan EXCEPT !.state = "deleted"])

SetCustomerBlocked(cu, b) ==
    /\ blocked' = IF b THEN blocked \cup {cu} ELSE blocked \ {cu}
    /\ UNCHANGED <<planVars, code, used, orderVars, sess>>

-----------------------------------------------------------------------------
(* Staff: discount codes *)

CreateDiscount(c) ==
    /\ code[c] = NoCode
    /\ \E row \in CodeRow : row.value > 0 /\ code' = [code EXCEPT ![c] = row]
    /\ UNCHANGED <<planVars, used, blocked, orderVars, sess>>

LoadDiscount(s, c) ==
    /\ sess[s] = Idle
    /\ code[c] # NoCode
    /\ sess' = [sess EXCEPT ![s] = Editing(c)]
    /\ UNCHANGED <<planVars, code, used, blocked, orderVars>>

Merged(stored, seen, new) ==
    [open  |-> Flush(stored.open, seen.open, new.open),
     value |-> Flush(stored.value, seen.value, new.value),
     limit |-> Flush(stored.limit, seen.limit, new.limit)]

\* Faulty: the commit writes the whole row back.
UpdateWholeDiscount(s) ==
    LET c == sess[s].code
        seen == sess[s].row
    IN  /\ sess[s].stage = "editing"
        /\ \E new \in CodeRow :
             /\ new.limit \notin {0, seen.limit} => new.limit >= sess[s].used
             /\ code' = [code EXCEPT ![c] = Merged(@, seen, new)]
        /\ used' = [used EXCEPT ![c] = sess[s].used]
        /\ sess' = [sess EXCEPT ![s] = Idle]
        /\ UNCHANGED <<planVars, blocked, orderVars>>

\* The new limit is compared with the copy of used_count.
UpdateDiscount(s) ==
    LET c == sess[s].code
        seen == sess[s].row
    IN  /\ sess[s].stage = "editing"
        /\ \E new \in CodeRow :
             /\ new.limit \notin {0, seen.limit} => new.limit >= sess[s].used
             /\ code' = [code EXCEPT ![c] = Merged(@, seen, new)]
        /\ sess' = [sess EXCEPT ![s] = Idle]
        /\ UNCHANGED <<planVars, used, blocked, orderVars>>

Close(c) ==
    /\ code[c].open
    /\ code' = [code EXCEPT ![c].open = FALSE]
    /\ UNCHANGED <<planVars, used, blocked, orderVars, sess>>

ArchiveDiscount(c) == Close(c)
CodeExpires(c) == Close(c)

-----------------------------------------------------------------------------
(* Customers *)

\* CustomerAccessMiddleware drops what a blocked customer sends.
Admitted(cu) == cu \notin blocked

LoadPlan(s, o) ==
    /\ sess[s] = Idle
    /\ Admitted(Owner[o])
    /\ plan[PlanOf[o]].state = "active"
    /\ sess' = [sess EXCEPT ![s] = Ordering(o)]
    /\ UNCHANGED <<planVars, code, used, blocked, orderVars>>

\* get_or_create_checkout_order and create_lifecycle_order.  The key is unique,
\* so a second order for it is the first; the foreign key needs the plan.
PlaceOrder(s) ==
    LET o == sess[s].order IN
    /\ sess[s].stage = "ordering"
    /\ IF status[o] = "absent"
       THEN /\ plan[PlanOf[o]].state \in Listed
            /\ Lifecycle!Place(o)
            /\ price' = [price EXCEPT ![o] = sess[s].price]
            /\ quota' = [quota EXCEPT ![o] = sess[s].quota]
       ELSE UNCHANGED <<status, price, quota>>
    /\ sess' = [sess EXCEPT ![s] = Idle]
    /\ UNCHANGED <<planVars, code, used, blocked, discount, redemption, delivered>>

\* A session rolls back: an error, a check that fails, a crash.
Abort(s) ==
    /\ sess[s] # Idle
    /\ sess' = [sess EXCEPT ![s] = Idle]
    /\ UNCHANGED <<planVars, code, used, blocked, orderVars>>

Least(m, n) == IF m <= n THEN m ELSE n

CalculateDiscountAmount(c, amount) ==
    Least(amount, IF Kind[c] = "fixed" THEN code[c].value
                  ELSE (amount * code[c].value) \div 100)

\* The code's row is locked, so its limit and used_count are current.  An order
\* with nothing left to pay is settled at once.
ApplyDiscountCode(o, c) ==
    LET amount == CalculateDiscountAmount(c, price[o])
        settles == amount = price[o]
    IN  /\ Admitted(Owner[o])
        /\ status[o] \in Lifecycle!Unpaid
        /\ redemption[o] = NoRedemption
        /\ code[c].open
        /\ code[c].limit > 0 => used[c] < code[c].limit
        /\ amount > 0
        /\ used' = [used EXCEPT ![c] = @ + 1]
        /\ price' = [price EXCEPT ![o] = @ - amount]
        /\ discount' = [discount EXCEPT ![o] = amount]
        /\ redemption' = [redemption EXCEPT
              ![o] = [status |-> IF settles THEN "redeemed" ELSE "reserved",
                      code |-> c, amount |-> amount]]
        /\ IF settles THEN Lifecycle!Pay(o) ELSE UNCHANGED status
        /\ UNCHANGED <<planVars, code, blocked, quota, delivered, sess>>

-----------------------------------------------------------------------------
(* The rest of an order's life *)

\* Faulty: the code is asked again what it takes off.
ReleaseRecomputed(o) ==
    LET c == redemption[o].code IN
    /\ redemption[o].status = "reserved"
    /\ used' = [used EXCEPT ![c] = IF @ > 0 THEN @ - 1 ELSE 0]
    /\ price' = [price EXCEPT
          ![o] = @ + CalculateDiscountAmount(c, price[o] + discount[o])]
    /\ discount' = [discount EXCEPT ![o] = 0]
    /\ redemption' = [redemption EXCEPT ![o] = [@ EXCEPT !.status = "released"]]

ReleaseDiscount(o) ==
    LET c == redemption[o].code IN
    /\ redemption[o].status = "reserved"
    /\ used' = [used EXCEPT ![c] = IF @ > 0 THEN @ - 1 ELSE 0]
    /\ price' = [price EXCEPT ![o] = @ + redemption[o].amount]
    /\ discount' = [discount EXCEPT ![o] = 0]
    /\ redemption' = [redemption EXCEPT ![o] = [@ EXCEPT !.status = "released"]]

CancelOrder(o) ==
    /\ Lifecycle!Cancel(o)
    /\ \/ ReleaseDiscount(o)
       \/ /\ redemption[o].status # "reserved"
          /\ UNCHANGED <<used, price, discount, redemption>>
    /\ UNCHANGED <<planVars, code, blocked, quota, delivered, sess>>

\* One reservation of a run of the clean-up, which looks at old orders.
ReleaseStale(o) ==
    /\ status[o] \in Lifecycle!Unpaid \cup {"canceled"}
    /\ ReleaseDiscount(o)
    /\ UNCHANGED <<planVars, code, blocked, status, quota, delivered, sess>>

\* A payment, whatever its method, redeems the reservation of its order; a
\* released one makes it fail.
PayOrder(o) ==
    /\ Lifecycle!Pay(o)
    /\ redemption[o].status # "released"
    /\ redemption' = [redemption EXCEPT
          ![o] = IF @.status = "reserved" THEN [@ EXCEPT !.status = "redeemed"]
                 ELSE @]
    /\ UNCHANGED <<planVars, code, used, blocked, price, discount, quota,
                   delivered, sess>>

\* Provisioning sets the order's quota, a renewal too; a top-up adds it.
Deliver(o) ==
    /\ Lifecycle!Deliver(o)
    /\ delivered' = delivered \cup {<<o, quota[o]>>}
    /\ UNCHANGED <<planVars, code, used, blocked, price, discount, quota,
                   redemption, sess>>

GiveUp(o) ==
    /\ Lifecycle!Fail(o)
    /\ UNCHANGED <<planVars, code, used, blocked, price, discount, quota,
                   redemption, delivered, sess>>

Next ==
    \/ \E pl \in Plans :
         \/ CreatePlan(pl)
         \/ CreatePlanByForm(pl)
         \/ EditPlan(pl)
         \/ TogglePlan(pl)
         \/ DeletePlan(pl)
    \/ \E cu \in Customers, b \in BOOLEAN : SetCustomerBlocked(cu, b)
    \/ \E c \in Codes : CreateDiscount(c) \/ ArchiveDiscount(c) \/ CodeExpires(c)
    \/ \E s \in Sessions :
         \/ \E c \in Codes : LoadDiscount(s, c)
         \/ UpdateDiscount(s)
         \/ \E o \in Orders : LoadPlan(s, o)
         \/ PlaceOrder(s)
         \/ Abort(s)
    \/ \E o \in Orders :
         \/ \E c \in Codes : ApplyDiscountCode(o, c)
         \/ CancelOrder(o)
         \/ ReleaseStale(o)
         \/ PayOrder(o)
         \/ Deliver(o)
         \/ GiveUp(o)

Spec == Init /\ [][Next]_vars

-----------------------------------------------------------------------------
(* Properties *)

Placed == {o \in Orders : status[o] # "absent"}
Holding(c) == {o \in Orders : /\ redemption[o].status \in {"reserved", "redeemed"}
                              /\ redemption[o].code = c}

\* Every row and every session's copy has its type, an order's plan is in the
\* table (delete_plan, admin_panel.py:994), and only placed orders have terms.
TypeOK ==
    /\ plan \in [Plans -> PlanRow \cup {NoPlan, [NoPlan EXCEPT !.state = "deleted"]}]
    /\ \A o \in Placed : plan[PlanOf[o]].state \in Listed
    /\ offered \subseteq Plans \X Prices \X Quotas
    /\ code \in [Codes -> CodeRow]
    /\ used \in [Codes -> Nat]
    /\ blocked \subseteq Customers
    /\ status \in [Orders -> {"absent", "awaiting_payment", "paid", "canceled",
                              "completed", "failed"}]
    /\ price \in [Orders -> Nat] /\ discount \in [Orders -> Nat]
    /\ quota \in [Orders -> Nat]
    /\ \A o \in Orders : redemption[o] # NoRedemption => o \in Placed
    /\ redemption \in [Orders -> {NoRedemption} \cup
          [status : {"reserved", "redeemed", "released"}, code : Codes, amount : Nat]]
    /\ delivered \subseteq Placed \X Nat
    /\ sess \in [Sessions -> {Idle}
          \cup [stage : {"ordering"}, order : Orders, price : Prices, quota : Quotas]
          \cup [stage : {"editing"}, code : Codes, row : CodeRow, used : Nat]]

\* An order asks for a price and promises a quota that its plan offered
\* together, at one moment, and what is delivered for it is the quota of such
\* an offer at that price, however the plan and the code are edited between
\* the customer's tap, the order, the release of its discount and delivery
\* (routers/customer.py:190-245, services/discounts.py:138-174).
SoldAsOffered ==
    /\ \A o \in Placed : <<PlanOf[o], price[o] + discount[o], quota[o]>> \in offered
    /\ \A d \in delivered :
         <<PlanOf[d[1]], price[d[1]] + discount[d[1]], d[2]>> \in offered

\* used_count is the number of orders that hold the code or have spent it,
\* although staff save a code's row from a copy read before customers used it
\* (update_discount, admin_panel.py:2081-2131).
UsesSurviveEdits == \A c \in Codes : used[c] = Cardinality(Holding(c))
=============================================================================
