-------------------------- MODULE CatalogueProofs --------------------------
(***************************************************************************)
(* Proofs about Catalogue, for any plans, codes, orders, customers and     *)
(* sessions and any edits: an order is sold as its plan was offered, and   *)
(* the uses of a code are counted whoever edits it meanwhile.              *)
(***************************************************************************)
EXTENDS Catalogue, FiniteSetTheorems, TLAPS

-----------------------------------------------------------------------------
(* The inductive invariant *)

\* What a session is about to write was on offer when it was read.
CopiesOffered == \A s \in Sessions :
    sess[s].stage = "ordering" =>
        <<PlanOf[sess[s].order], sess[s].price, sess[s].quota>> \in offered

\* An order's discount is the amount of the redemption it holds.
AmountOf(r) == IF r.status \in {"reserved", "redeemed"} THEN r.amount ELSE 0
AmountsAgree == \A o \in Orders : discount[o] = AmountOf(redemption[o])

IInv == TypeOK /\ CopiesOffered /\ AmountsAgree /\ SoldAsOffered /\ UsesSurviveEdits

USE DEF NoRedemption, Idle

\* A step that leaves the orders and the used counts alone and forgets no
\* offer keeps the three facts about orders.
LEMMA OrdersUntouched ==
  ASSUME IInv, UNCHANGED <<used, orderVars>>, offered \subseteq offered'
  PROVE  AmountsAgree' /\ SoldAsOffered' /\ UsesSurviveEdits'
<1>1. AmountsAgree'
  BY DEF IInv, AmountsAgree, orderVars
<1>2. SoldAsOffered'
  BY DEF IInv, SoldAsOffered, Placed, orderVars
<1>3. UsesSurviveEdits'
  BY DEF IInv, UsesSurviveEdits, Holding, orderVars
<1>. QED BY <1>1, <1>2, <1>3

\* A step that touches no session keeps the copies.
LEMMA CopiesUntouched ==
  ASSUME IInv, UNCHANGED sess, offered \subseteq offered'
  PROVE  CopiesOffered'
BY DEF IInv, CopiesOffered

-----------------------------------------------------------------------------
(* Staff *)

LEMMA WritePlanInv ==
  ASSUME IInv, NEW pl \in Plans,
         NEW row \in PlanRow \cup {[NoPlan EXCEPT !.state = "deleted"]},
         WritePlan(pl, row),
         row \in PlanRow \/ \A o \in Orders : PlanOf[o] = pl => status[o] = "absent"
  PROVE  IInv'
<1>1. offered \subseteq offered'
  BY DEF WritePlan
<1>2. offered' \subseteq Plans \X Prices \X Quotas
  <2>1. CASE row.state = "active"
    <3>1. row \in PlanRow
      BY <2>1 DEF NoPlan
    <3>. QED BY <2>1, <3>1 DEF IInv, TypeOK, WritePlan, Offers, PlanRow
  <2>2. CASE row.state # "active"
    BY <2>2 DEF IInv, TypeOK, WritePlan, Offers
  <2>. QED BY <2>1, <2>2
<1>3. plan' \in [Plans -> PlanRow \cup {NoPlan, [NoPlan EXCEPT !.state = "deleted"]}]
  BY DEF IInv, TypeOK, WritePlan
<1>4. \A o \in Placed' : plan'[PlanOf[o]].state \in Listed
  <2>. SUFFICES ASSUME NEW o \in Placed' PROVE plan'[PlanOf[o]].state \in Listed
    OBVIOUS
  <2>1. o \in Placed /\ plan[PlanOf[o]].state \in Listed /\ PlanOf[o] \in Plans
    BY CatalogueAssumption DEF IInv, TypeOK, WritePlan, orderVars, Placed
  <2>2. CASE PlanOf[o] = pl
    <3>1. row \in PlanRow
      BY <2>1, <2>2 DEF Placed
    <3>2. plan'[pl] = row
      BY DEF IInv, TypeOK, WritePlan
    <3>. QED BY <2>2, <3>1, <3>2 DEF PlanRow
  <2>3. CASE PlanOf[o] # pl
    <3>1. plan'[PlanOf[o]] = plan[PlanOf[o]]
      BY <2>1, <2>3 DEF IInv, TypeOK, WritePlan
    <3>. QED BY <2>1, <3>1
  <2>. QED BY <2>2, <2>3
<1>5. TypeOK'
  BY <1>2, <1>3, <1>4 DEF IInv, TypeOK, WritePlan, orderVars, Placed
<1>. QED BY <1>1, <1>5, OrdersUntouched, CopiesUntouched DEF IInv, WritePlan

LEMMA PlanInv ==
  ASSUME IInv, NEW pl \in Plans,
         \/ CreatePlan(pl) \/ CreatePlanByForm(pl) \/ EditPlan(pl)
         \/ TogglePlan(pl) \/ DeletePlan(pl)
  PROVE  IInv'
<1>1. CASE CreatePlan(pl)
  BY <1>1, WritePlanInv DEF CreatePlan
<1>2. CASE EditPlan(pl)
  BY <1>2, WritePlanInv DEF EditPlan
<1>3. CASE DeletePlan(pl)
  BY <1>3, WritePlanInv DEF DeletePlan
<1>4. CASE CreatePlanByForm(pl)
  BY <1>4, WritePlanInv DEF CreatePlanByForm
<1>5. CASE TogglePlan(pl)
  <2>1. PICK state \in Listed : WritePlan(pl, [plan[pl] EXCEPT !.state = state])
    BY <1>5 DEF TogglePlan
  <2>2. plan[pl] \in PlanRow
    BY <1>5 DEF IInv, TypeOK, TogglePlan, NoPlan, Listed
  <2>3. [plan[pl] EXCEPT !.state = state] \in PlanRow
    BY <2>2 DEF PlanRow
  <2>. QED BY <2>1, <2>3, WritePlanInv
<1>. QED BY <1>1, <1>2, <1>3, <1>4, <1>5

LEMMA BlockInv ==
  ASSUME IInv, NEW cu \in Customers, NEW b \in BOOLEAN, SetCustomerBlocked(cu, b)
  PROVE  IInv'
<1>1. TypeOK'
  BY DEF IInv, TypeOK, SetCustomerBlocked, planVars, orderVars, Placed
<1>. QED BY <1>1, OrdersUntouched, CopiesUntouched
         DEF IInv, SetCustomerBlocked, planVars

\* A step that changes the codes' rows and sessions other than to order.
LEMMA CodesInv ==
  ASSUME IInv, UNCHANGED <<planVars, used, blocked, orderVars>>,
         code' \in [Codes -> CodeRow],
         \/ sess' = sess
         \/ \E s \in Sessions : sess' = [sess EXCEPT ![s] = Idle]
  PROVE  IInv'
<1>1. sess' \in [Sessions -> {Idle}
          \cup [stage : {"ordering"}, order : Orders, price : Prices, quota : Quotas]
          \cup [stage : {"editing"}, code : Codes, row : CodeRow, used : Nat]]
  BY DEF IInv, TypeOK
<1>2. TypeOK'
  BY <1>1 DEF IInv, TypeOK, planVars, orderVars, Placed
<1>3. CopiesOffered'
  BY DEF IInv, TypeOK, CopiesOffered, planVars
<1>. QED BY <1>2, <1>3, OrdersUntouched DEF IInv, planVars

LEMMA CodeInv ==
  ASSUME IInv, NEW c \in Codes,
         CreateDiscount(c) \/ ArchiveDiscount(c) \/ CodeExpires(c)
  PROVE  IInv'
<1>1. CASE CreateDiscount(c)
  <2>1. code' \in [Codes -> CodeRow]
    BY <1>1 DEF IInv, TypeOK, CreateDiscount
  <2>. QED BY <1>1, <2>1, CodesInv DEF CreateDiscount
<1>2. CASE Close(c)
  <2>1. code[c] \in CodeRow
    BY DEF IInv, TypeOK
  <2>2. [code[c] EXCEPT !.open = FALSE] \in CodeRow
    BY <2>1 DEF CodeRow
  <2>3. code' \in [Codes -> CodeRow]
    BY <1>2, <2>2, Zenon DEF IInv, TypeOK, Close
  <2>. QED BY <1>2, <2>3, CodesInv DEF Close
<1>. QED BY <1>1, <1>2 DEF ArchiveDiscount, CodeExpires

LEMMA UpdateInv ==
  ASSUME IInv, NEW s \in Sessions, UpdateDiscount(s) PROVE IInv'
<1>. PICK new \in CodeRow :
        code' = [code EXCEPT ![sess[s].code] = Merged(@, sess[s].row, new)]
  BY DEF UpdateDiscount
<1>1. sess[s].code \in Codes /\ code[sess[s].code] \in CodeRow
  BY DEF IInv, TypeOK, UpdateDiscount
<1>2. Merged(code[sess[s].code], sess[s].row, new) \in CodeRow
  BY <1>1 DEF Merged, Flush, CodeRow
<1>3. code' \in [Codes -> CodeRow]
  BY <1>1, <1>2 DEF IInv, TypeOK
<1>. QED BY <1>3, CodesInv DEF UpdateDiscount

LEMMA LoadDiscountInv ==
  ASSUME IInv, NEW s \in Sessions, NEW c \in Codes, LoadDiscount(s, c) PROVE IInv'
<1>1. Editing(c) \in [stage : {"editing"}, code : Codes, row : CodeRow, used : Nat]
  BY DEF IInv, TypeOK, Editing
<1>2. TypeOK'
  BY <1>1 DEF IInv, TypeOK, LoadDiscount, planVars, orderVars, Placed
<1>3. CopiesOffered'
  BY <1>1 DEF IInv, TypeOK, CopiesOffered, LoadDiscount, planVars
<1>. QED BY <1>2, <1>3, OrdersUntouched DEF IInv, LoadDiscount, planVars

LEMMA AbortInv ==
  ASSUME IInv, NEW s \in Sessions, Abort(s) PROVE IInv'
<1>1. code' \in [Codes -> CodeRow]
  BY DEF IInv, TypeOK, Abort
<1>. QED BY <1>1, CodesInv DEF Abort

-----------------------------------------------------------------------------
(* Placing an order *)

\* That an active plan's terms are on offer is invariant too.
ActiveOffered == \A pl \in Plans :
    plan[pl].state = "active" => <<pl, plan[pl].price, plan[pl].quota>> \in offered

LEMMA ActiveOfferedInv ==
  ASSUME TypeOK, ActiveOffered, [Next]_vars PROVE ActiveOffered'
<1>1. ASSUME NEW pl \in Plans, NEW row, WritePlan(pl, row) PROVE ActiveOffered'
  <2>. SUFFICES ASSUME NEW q \in Plans, plan'[q].state = "active"
                PROVE  <<q, plan'[q].price, plan'[q].quota>> \in offered'
    BY DEF ActiveOffered
  <2>1. CASE q = pl
    <3>1. plan'[pl] = row
      BY <1>1 DEF TypeOK, WritePlan
    <3>2. <<pl, row.price, row.quota>> \in Offers(pl, row)
      BY <2>1, <3>1 DEF Offers
    <3>. QED BY <1>1, <2>1, <3>1, <3>2 DEF WritePlan
  <2>2. CASE q # pl
    BY <1>1, <2>2 DEF TypeOK, WritePlan, ActiveOffered
  <2>. QED BY <2>1, <2>2
<1>2. CASE UNCHANGED planVars
  BY <1>2 DEF ActiveOffered, planVars
<1>3. ASSUME NEW pl \in Plans,
             \/ CreatePlan(pl) \/ CreatePlanByForm(pl) \/ EditPlan(pl)
             \/ TogglePlan(pl) \/ DeletePlan(pl)
      PROVE  ActiveOffered'
  BY <1>1, <1>3 DEF CreatePlan, CreatePlanByForm, EditPlan, TogglePlan, DeletePlan
<1>4. CASE Next
  BY <1>2, <1>3, <1>4 DEF Next, planVars, SetCustomerBlocked, CreateDiscount,
     ArchiveDiscount, CodeExpires, Close, LoadDiscount, UpdateDiscount, LoadPlan,
     PlaceOrder, Abort, ApplyDiscountCode, CancelOrder, ReleaseStale, PayOrder,
     Deliver, GiveUp
<1>5. CASE UNCHANGED vars
  BY <1>2, <1>5 DEF vars, planVars
<1>. QED BY <1>4, <1>5

LEMMA LoadPlanInv ==
  ASSUME IInv, ActiveOffered, NEW s \in Sessions, NEW o \in Orders, LoadPlan(s, o)
  PROVE  IInv'
<1>1. PlanOf[o] \in Plans /\ plan[PlanOf[o]] \in PlanRow
  BY CatalogueAssumption DEF IInv, TypeOK, LoadPlan, NoPlan
<1>2. <<PlanOf[o], plan[PlanOf[o]].price, plan[PlanOf[o]].quota>> \in offered
  BY <1>1 DEF ActiveOffered, LoadPlan
<1>3. Ordering(o) \in [stage : {"ordering"}, order : Orders, price : Prices,
                       quota : Quotas]
  BY <1>1 DEF Ordering, PlanRow
<1>4. TypeOK'
  BY <1>3 DEF IInv, TypeOK, LoadPlan, planVars, orderVars, Placed
<1>5. CopiesOffered'
  <2>. SUFFICES ASSUME NEW t \in Sessions, sess'[t].stage = "ordering"
                PROVE  <<PlanOf[sess'[t].order], sess'[t].price, sess'[t].quota>>
                         \in offered'
    BY DEF CopiesOffered
  <2>1. CASE t = s
    <3>1. sess'[t] = Ordering(o)
      BY <2>1 DEF IInv, TypeOK, LoadPlan
    <3>. QED BY <1>2, <3>1 DEF Ordering, LoadPlan, planVars
  <2>2. CASE t # s
    BY <2>2 DEF IInv, TypeOK, CopiesOffered, LoadPlan, planVars
  <2>. QED BY <2>1, <2>2
<1>. QED BY <1>4, <1>5, OrdersUntouched DEF IInv, LoadPlan, planVars

LEMMA PlaceOrderInv ==
  ASSUME IInv, NEW s \in Sessions, PlaceOrder(s) PROVE IInv'
<1>. DEFINE o == sess[s].order
<1>1. /\ o \in Orders
      /\ sess[s].price \in Prices /\ sess[s].quota \in Quotas
      /\ <<PlanOf[o], sess[s].price, sess[s].quota>> \in offered
  BY DEF IInv, TypeOK, CopiesOffered, PlaceOrder
<1>2. CASE status[o] # "absent"
  <2>1. UNCHANGED orderVars
    BY <1>2 DEF PlaceOrder, orderVars
  <2>2. code' \in [Codes -> CodeRow]
    BY DEF IInv, TypeOK, PlaceOrder
  <2>. QED BY <2>1, <2>2, CodesInv DEF PlaceOrder
<1>3. CASE status[o] = "absent"
  <2>1. /\ status' = [status EXCEPT ![o] = "awaiting_payment"]
        /\ price' = [price EXCEPT ![o] = sess[s].price]
        /\ quota' = [quota EXCEPT ![o] = sess[s].quota]
        /\ plan[PlanOf[o]].state \in Listed
        /\ sess' = [sess EXCEPT ![s] = Idle]
        /\ UNCHANGED <<planVars, code, used, blocked, discount, redemption, delivered>>
    BY <1>3 DEF PlaceOrder, Lifecycle!Place, Lifecycle!Become
  <2>2. sess[s].price \in Nat /\ sess[s].quota \in Nat
    BY <1>1, CatalogueAssumption
  <2>3. redemption[o] = NoRedemption /\ discount[o] = 0
    BY <1>1, <1>3 DEF IInv, TypeOK, Placed, AmountsAgree, AmountOf
  <2>4. Placed' = Placed \cup {o}
    BY <1>1, <2>1 DEF IInv, TypeOK, Placed
  <2>5. TypeOK'
    BY <1>1, <2>1, <2>2, <2>4 DEF IInv, TypeOK, planVars
  <2>6. CopiesOffered'
    BY <2>1 DEF IInv, TypeOK, CopiesOffered, planVars
  <2>7. AmountsAgree' /\ UsesSurviveEdits'
    BY <2>1 DEF IInv, AmountsAgree, UsesSurviveEdits, Holding
  <2>8. \A q \in Placed' : <<PlanOf[q], price'[q] + discount'[q], quota'[q]>> \in offered'
    <3>. SUFFICES ASSUME NEW q \in Placed'
                  PROVE  <<PlanOf[q], price'[q] + discount'[q], quota'[q]>> \in offered'
      OBVIOUS
    <3>1. CASE q = o
      <4>1. price'[o] = sess[s].price /\ quota'[o] = sess[s].quota /\ discount'[o] = 0
        BY <1>1, <2>1, <2>3 DEF IInv, TypeOK
      <4>2. price'[o] + discount'[o] = sess[s].price
        BY <2>2, <4>1
      <4>. QED BY <1>1, <2>1, <3>1, <4>1, <4>2 DEF planVars
    <3>2. CASE q # o
      <4>1. q \in Placed /\ q \in Orders
        BY <2>4, <3>2 DEF Placed
      <4>2. price'[q] = price[q] /\ quota'[q] = quota[q] /\ discount'[q] = discount[q]
        BY <2>1, <3>2, <4>1 DEF IInv, TypeOK
      <4>. QED BY <2>1, <4>1, <4>2 DEF IInv, SoldAsOffered, planVars
    <3>. QED BY <3>1, <3>2
  <2>9. \A d \in delivered' :
          <<PlanOf[d[1]], price'[d[1]] + discount'[d[1]], d[2]>> \in offered'
    <3>. SUFFICES ASSUME NEW d \in delivered
                  PROVE  <<PlanOf[d[1]], price'[d[1]] + discount'[d[1]], d[2]>> \in offered'
      BY <2>1
    <3>1. d[1] \in Orders /\ d[1] # o
      BY <1>3 DEF IInv, TypeOK, Placed
    <3>2. price'[d[1]] = price[d[1]] /\ discount'[d[1]] = discount[d[1]]
      BY <2>1, <3>1 DEF IInv, TypeOK
    <3>. QED BY <2>1, <3>2 DEF IInv, SoldAsOffered, planVars
  <2>. QED BY <2>5, <2>6, <2>7, <2>8, <2>9 DEF IInv, SoldAsOffered
<1>. QED BY <1>2, <1>3

-----------------------------------------------------------------------------
(* Steps on a placed order: each keeps price + discount, and counts uses *)

\* What such a step has to show.
LEMMA OrderStep ==
  ASSUME IInv, NEW o \in Orders, o \in Placed, NEW p \in Nat, NEW d \in Nat,
         NEW r \in [status : {"reserved", "redeemed", "released"}, code : Codes,
                    amount : Nat] \cup {NoRedemption},
         NEW st \in {"awaiting_payment", "paid", "canceled", "completed", "failed"},
         price' = [price EXCEPT ![o] = p],
         discount' = [discount EXCEPT ![o] = d],
         redemption' = [redemption EXCEPT ![o] = r],
         status' = [status EXCEPT ![o] = st],
         UNCHANGED <<planVars, code, blocked, quota, sess>>,
         delivered' = delivered \/ delivered' = delivered \cup {<<o, quota[o]>>},
         used' \in [Codes -> Nat], UsesSurviveEdits',
         p + d = price[o] + discount[o], d = AmountOf(r)
  PROVE  IInv'
<1>1. Placed' = Placed
  BY DEF IInv, TypeOK, Placed
<1>2. quota[o] \in Nat /\ <<o, quota[o]>> \in Placed \X Nat
  BY DEF IInv, TypeOK
<1>3. /\ price' \in [Orders -> Nat] /\ discount' \in [Orders -> Nat]
      /\ delivered' \subseteq Placed \X Nat
      /\ status' \in [Orders -> {"absent", "awaiting_payment", "paid", "canceled",
                                 "completed", "failed"}]
  BY <1>2 DEF IInv, TypeOK
<1>4. redemption' \in [Orders -> {NoRedemption} \cup
          [status : {"reserved", "redeemed", "released"}, code : Codes, amount : Nat]]
  BY DEF IInv, TypeOK
<1>5. \A q \in Orders : redemption'[q] # NoRedemption => q \in Placed
  <2>. SUFFICES ASSUME NEW q \in Orders, redemption'[q] # NoRedemption, q # o
                PROVE  q \in Placed
    OBVIOUS
  <2>1. redemption'[q] = redemption[q]
    BY DEF IInv, TypeOK
  <2>. QED BY <2>1 DEF IInv, TypeOK
<1>6. TypeOK'
  BY <1>1, <1>3, <1>4, <1>5 DEF IInv, TypeOK, planVars
<1>7. AmountsAgree'
  <2>. SUFFICES ASSUME NEW q \in Orders PROVE discount'[q] = AmountOf(redemption'[q])
    BY DEF AmountsAgree, AmountOf
  <2>1. CASE q = o
    BY <2>1 DEF IInv, TypeOK
  <2>2. CASE q # o
    <3>1. discount'[q] = discount[q] /\ redemption'[q] = redemption[q]
      BY <2>2 DEF IInv, TypeOK
    <3>. QED BY <3>1 DEF IInv, AmountsAgree
  <2>. QED BY <2>1, <2>2
<1>8. \A q \in Orders : price'[q] + discount'[q] = price[q] + discount[q]
  BY DEF IInv, TypeOK
<1>9. \A q \in Placed' : <<PlanOf[q], price'[q] + discount'[q], quota'[q]>> \in offered'
  BY <1>1, <1>8 DEF IInv, SoldAsOffered, Placed, planVars
<1>10. \A e \in delivered' :
          <<PlanOf[e[1]], price'[e[1]] + discount'[e[1]], e[2]>> \in offered'
  <2>. SUFFICES ASSUME NEW e \in delivered'
                PROVE  <<PlanOf[e[1]], price'[e[1]] + discount'[e[1]], e[2]>> \in offered'
    OBVIOUS
  <2>1. CASE e \in delivered
    <3>1. e[1] \in Orders
      BY <2>1 DEF IInv, TypeOK, Placed
    <3>2. price'[e[1]] + discount'[e[1]] = price[e[1]] + discount[e[1]]
      BY <1>8, <3>1
    <3>. QED BY <2>1, <3>2 DEF IInv, SoldAsOffered, planVars
  <2>2. CASE e = <<o, quota[o]>>
    <3>1. e[1] = o /\ e[2] = quota[o]
      BY <2>2
    <3>2. <<PlanOf[o], price'[o] + discount'[o], quota'[o]>> \in offered'
      BY <1>1, <1>9
    <3>. QED BY <3>1, <3>2
  <2>. QED BY <2>1, <2>2
<1>. QED BY <1>6, <1>7, <1>9, <1>10, CopiesUntouched
         DEF IInv, SoldAsOffered, planVars

\* The orders that hold a code are finitely many.
LEMMA HoldingFinite ==
  ASSUME NEW c \in Codes
  PROVE  IsFiniteSet(Holding(c)) /\ Cardinality(Holding(c)) \in Nat
<1>1. Holding(c) \subseteq Orders
  BY DEF Holding
<1>. QED BY <1>1, CatalogueAssumption, FS_Subset, FS_CardinalityType

\* A step that changes a redemption but not what code it holds.
LEMMA SameHolders ==
  ASSUME IInv, UNCHANGED used, NEW o \in Orders, NEW r,
         redemption' = [redemption EXCEPT ![o] = r],
         r.code = redemption[o].code,
         r.status \in {"reserved", "redeemed"}
           <=> redemption[o].status \in {"reserved", "redeemed"}
  PROVE  UsesSurviveEdits'
<1>1. \A c \in Codes : Holding(c)' = Holding(c)
  BY DEF IInv, TypeOK, Holding
<1>. QED BY <1>1 DEF IInv, UsesSurviveEdits

LEMMA AmountBounded ==
  ASSUME IInv, NEW o \in Orders, NEW c \in Codes
  PROVE  /\ CalculateDiscountAmount(c, price[o]) \in Nat
         /\ CalculateDiscountAmount(c, price[o]) <= price[o]
<1>1. code[c].value \in Nat /\ price[o] \in Nat
  BY CatalogueAssumption DEF IInv, TypeOK, CodeRow
<1>2. price[o] * code[c].value \in Nat
  BY <1>1
<1>3. (price[o] * code[c].value) \div 100 \in Nat
  BY <1>2
<1>. QED BY <1>1, <1>3 DEF CalculateDiscountAmount, Least

LEMMA ApplyInv ==
  ASSUME IInv, NEW o \in Orders, NEW c \in Codes, ApplyDiscountCode(o, c) PROVE IInv'
<1>. DEFINE amount == CalculateDiscountAmount(c, price[o])
            paid   == amount = price[o]
            r      == [status |-> IF paid THEN "redeemed" ELSE "reserved",
                       code |-> c, amount |-> amount]
            st     == IF paid THEN "paid" ELSE status[o]
<1>1. /\ amount \in Nat /\ amount <= price[o]
      /\ price[o] \in Nat /\ discount[o] = 0 /\ redemption[o] = NoRedemption
  BY AmountBounded DEF IInv, TypeOK, AmountsAgree, AmountOf, ApplyDiscountCode
<1>. HIDE DEF amount
<1>2. /\ price[o] - amount \in Nat
      /\ (price[o] - amount) + amount = price[o] + discount[o]
  BY <1>1
<1>3. r \in [status : {"reserved", "redeemed", "released"}, code : Codes, amount : Nat]
  BY <1>1
<1>4. amount = AmountOf(r)
  BY DEF AmountOf
<1>5. o \in Placed /\ st \in {"awaiting_payment", "paid"}
  BY DEF IInv, TypeOK, ApplyDiscountCode, Placed, Lifecycle!Unpaid
<1>6. status' = [status EXCEPT ![o] = st]
  BY DEF amount, IInv, TypeOK, ApplyDiscountCode, Lifecycle!Pay, Lifecycle!Become
<1>7. /\ price' = [price EXCEPT ![o] = price[o] - amount]
      /\ discount' = [discount EXCEPT ![o] = amount]
      /\ redemption' = [redemption EXCEPT ![o] = r]
      /\ used' = [used EXCEPT ![c] = used[c] + 1]
      /\ UNCHANGED <<planVars, code, blocked, quota, delivered, sess>>
  BY DEF amount, ApplyDiscountCode
<1>8. used' \in [Codes -> Nat]
  BY <1>7 DEF IInv, TypeOK
<1>9. UsesSurviveEdits'
  <2>. SUFFICES ASSUME NEW q \in Codes
                PROVE  used'[q] = Cardinality(Holding(q)')
    BY DEF UsesSurviveEdits
  <2>1. CASE q = c
    <3>1. Holding(q)' = Holding(q) \cup {o} /\ o \notin Holding(q)
      BY <1>1, <1>7, <2>1 DEF IInv, TypeOK, Holding
    <3>2. Cardinality(Holding(q)') = Cardinality(Holding(q)) + 1
      BY <3>1, HoldingFinite, FS_AddElement
    <3>3. used'[q] = used[q] + 1
      BY <1>7, <2>1 DEF IInv, TypeOK
    <3>. QED BY <3>2, <3>3 DEF IInv, UsesSurviveEdits
  <2>2. CASE q # c
    <3>1. Holding(q)' = Holding(q)
      BY <1>1, <1>7, <2>2 DEF IInv, TypeOK, Holding
    <3>2. used'[q] = used[q]
      BY <1>7, <2>2 DEF IInv, TypeOK
    <3>. QED BY <3>1, <3>2 DEF IInv, UsesSurviveEdits
  <2>. QED BY <2>1, <2>2
<1>. HIDE DEF r, st
<1>. QED BY <1>1, <1>2, <1>3, <1>4, <1>5, <1>6, <1>7, <1>8, <1>9, OrderStep

\* The effect of a release, whoever asks for it.
LEMMA Released ==
  ASSUME IInv, NEW o \in Orders, ReleaseDiscount(o), o \in Placed,
         NEW st \in {"awaiting_payment", "paid", "canceled", "completed", "failed"},
         status' = [status EXCEPT ![o] = st],
         UNCHANGED <<planVars, code, blocked, quota, delivered, sess>>
  PROVE  IInv'
<1>. DEFINE r == [redemption[o] EXCEPT !.status = "released"]
            c == redemption[o].code
<1>1. /\ redemption[o] \in [status : {"reserved", "redeemed", "released"},
                            code : Codes, amount : Nat]
      /\ redemption[o].status = "reserved"
  BY DEF IInv, TypeOK, ReleaseDiscount
<1>2. /\ r \in [status : {"reserved", "redeemed", "released"}, code : Codes,
                amount : Nat]
      /\ r.status = "released" /\ c \in Codes /\ redemption[o].amount \in Nat
  BY <1>1
<1>3. discount[o] = redemption[o].amount /\ price[o] \in Nat /\ 0 = AmountOf(r)
  BY <1>1, <1>2 DEF IInv, TypeOK, AmountsAgree, AmountOf
<1>. HIDE DEF r
<1>4. /\ price' = [price EXCEPT ![o] = price[o] + redemption[o].amount]
      /\ discount' = [discount EXCEPT ![o] = 0]
      /\ redemption' = [redemption EXCEPT ![o] = r]
      /\ used' = [used EXCEPT ![c] = IF used[c] > 0 THEN used[c] - 1 ELSE 0]
  BY DEF ReleaseDiscount, r
<1>5. used' \in [Codes -> Nat]
  <2>1. (IF used[c] > 0 THEN used[c] - 1 ELSE 0) \in Nat
    BY <1>2 DEF IInv, TypeOK
  <2>. QED BY <1>2, <1>4, <2>1 DEF IInv, TypeOK
<1>6. UsesSurviveEdits'
  <2>. SUFFICES ASSUME NEW q \in Codes
                PROVE  used'[q] = Cardinality(Holding(q)')
    BY DEF UsesSurviveEdits
  <2>1. CASE q = c
    <3>1. Holding(q)' = Holding(q) \ {o} /\ o \in Holding(q)
      BY <1>1, <1>2, <1>4, <2>1 DEF IInv, TypeOK, Holding
    <3>2. /\ Cardinality(Holding(q)') = Cardinality(Holding(q)) - 1
          /\ Cardinality(Holding(q)') \in Nat
      BY <3>1, HoldingFinite, FS_RemoveElement, FS_CardinalityType
    <3>3. used[q] = Cardinality(Holding(q)) /\ Cardinality(Holding(q)) \in Nat
      BY HoldingFinite DEF IInv, UsesSurviveEdits
    <3>4. used'[q] = IF used[q] > 0 THEN used[q] - 1 ELSE 0
      BY <1>4, <2>1 DEF IInv, TypeOK
    <3>. QED BY <3>2, <3>3, <3>4
  <2>2. CASE q # c
    <3>1. Holding(q)' = Holding(q)
      BY <1>1, <1>2, <1>4, <2>2 DEF IInv, TypeOK, Holding, r
    <3>2. used'[q] = used[q]
      BY <1>4, <2>2 DEF IInv, TypeOK
    <3>. QED BY <3>1, <3>2 DEF IInv, UsesSurviveEdits
  <2>. QED BY <2>1, <2>2
<1>7. PICK p, d \in Nat : p = price[o] + redemption[o].amount /\ d = 0
  BY <1>2, <1>3
<1>8. p + d = price[o] + discount[o] /\ d = AmountOf(r)
  BY <1>2, <1>3, <1>7
<1>9. price' = [price EXCEPT ![o] = p] /\ discount' = [discount EXCEPT ![o] = d]
  BY <1>4, <1>7
<1>. QED BY <1>2, <1>4, <1>5, <1>6, <1>8, <1>9, OrderStep

\* A step that leaves price, discount and used alone.
LEMMA StatusStep ==
  ASSUME IInv, NEW o \in Orders, o \in Placed,
         NEW r \in [status : {"reserved", "redeemed", "released"}, code : Codes,
                    amount : Nat] \cup {NoRedemption},
         NEW st \in {"awaiting_payment", "paid", "canceled", "completed", "failed"},
         redemption' = [redemption EXCEPT ![o] = r],
         r.code = redemption[o].code, r.amount = redemption[o].amount,
         r.status \in {"reserved", "redeemed"}
           <=> redemption[o].status \in {"reserved", "redeemed"},
         status' = [status EXCEPT ![o] = st],
         UNCHANGED <<planVars, code, used, blocked, price, discount, quota, sess>>,
         delivered' = delivered \/ delivered' = delivered \cup {<<o, quota[o]>>}
  PROVE  IInv'
<1>1. price[o] \in Nat /\ discount[o] \in Nat /\ used' \in [Codes -> Nat]
  BY DEF IInv, TypeOK
<1>2. price' = [price EXCEPT ![o] = price[o]] /\ discount' = [discount EXCEPT ![o] = discount[o]]
  BY DEF IInv, TypeOK
<1>3. discount[o] = AmountOf(r)
  BY DEF IInv, AmountsAgree, AmountOf
<1>4. UsesSurviveEdits'
  BY SameHolders
<1>5. UNCHANGED <<planVars, code, blocked, quota, sess>>
  OBVIOUS
<1>6. \A p, d \in Nat :
        /\ price' = [price EXCEPT ![o] = p]
        /\ discount' = [discount EXCEPT ![o] = d]
        /\ p + d = price[o] + discount[o]
        /\ d = AmountOf(r)
        => IInv'
  <2>. SUFFICES ASSUME NEW p \in Nat, NEW d \in Nat,
                       price' = [price EXCEPT ![o] = p],
                       discount' = [discount EXCEPT ![o] = d],
                       p + d = price[o] + discount[o],
                       d = AmountOf(r)
                PROVE  IInv'
    OBVIOUS
  <2>. QED BY <1>1, <1>4, <1>5, OrderStep, Zenon
<1>. QED BY <1>1, <1>2, <1>3, <1>6

LEMMA OrderInv ==
  ASSUME IInv, NEW o \in Orders,
         CancelOrder(o) \/ ReleaseStale(o) \/ PayOrder(o) \/ Deliver(o) \/ GiveUp(o)
  PROVE  IInv'
<1>. USE DEF Lifecycle!Unpaid, Lifecycle!Settled, Lifecycle!Become
<1>1. /\ redemption[o] \in [status : {"reserved", "redeemed", "released"},
                            code : Codes, amount : Nat] \cup {NoRedemption}
      /\ redemption = [redemption EXCEPT ![o] = redemption[o]]
      /\ status = [status EXCEPT ![o] = status[o]]
  BY DEF IInv, TypeOK
<1>2. CASE CancelOrder(o)
  <2>1. o \in Placed /\ status' = [status EXCEPT ![o] = "canceled"]
    BY <1>2 DEF CancelOrder, Lifecycle!Cancel, Placed
  <2>2. CASE ReleaseDiscount(o)
    BY <1>2, <2>1, <2>2, Released DEF CancelOrder
  <2>3. CASE UNCHANGED <<used, price, discount, redemption>>
    BY <1>1, <1>2, <2>1, <2>3, StatusStep DEF CancelOrder
  <2>. QED BY <1>2, <2>2, <2>3 DEF CancelOrder
<1>3. CASE ReleaseStale(o)
  <2>1. o \in Placed /\ status[o] \in {"awaiting_payment", "canceled"}
    BY <1>3 DEF IInv, TypeOK, ReleaseStale, Placed
  <2>. QED BY <1>1, <1>3, <2>1, Released DEF ReleaseStale
<1>4. CASE PayOrder(o)
  <2>. DEFINE r == IF redemption[o].status = "reserved"
                   THEN [redemption[o] EXCEPT !.status = "redeemed"]
                   ELSE redemption[o]
  <2>1. o \in Placed /\ status' = [status EXCEPT ![o] = "paid"]
    BY <1>4 DEF PayOrder, Lifecycle!Pay, Placed
  <2>2. /\ r \in [status : {"reserved", "redeemed", "released"}, code : Codes,
                  amount : Nat] \cup {NoRedemption}
        /\ r.code = redemption[o].code /\ r.amount = redemption[o].amount
        /\ r.status \in {"reserved", "redeemed"}
             <=> redemption[o].status \in {"reserved", "redeemed"}
    BY <1>1
  <2>3. redemption' = [redemption EXCEPT ![o] = r]
    BY <1>4 DEF PayOrder
  <2>. HIDE DEF r
  <2>. QED BY <1>4, <2>1, <2>2, <2>3, StatusStep DEF PayOrder
<1>5. CASE Deliver(o)
  <2>1. o \in Placed /\ status' = [status EXCEPT ![o] = "completed"]
    BY <1>5 DEF Deliver, Lifecycle!Deliver, Placed
  <2>2. redemption' = [redemption EXCEPT ![o] = redemption[o]]
    BY <1>1, <1>5 DEF Deliver
  <2>. QED BY <1>1, <1>5, <2>1, <2>2, StatusStep DEF Deliver
<1>6. CASE GiveUp(o)
  <2>1. o \in Placed /\ status' = [status EXCEPT ![o] = "failed"]
    BY <1>6 DEF GiveUp, Lifecycle!Fail, Placed
  <2>2. redemption' = [redemption EXCEPT ![o] = redemption[o]]
    BY <1>1, <1>6 DEF GiveUp
  <2>. QED BY <1>1, <1>6, <2>1, <2>2, StatusStep DEF GiveUp
<1>. QED BY <1>2, <1>3, <1>4, <1>5, <1>6

-----------------------------------------------------------------------------
(* The theorems *)

LEMMA InitInv == Init => IInv /\ ActiveOffered
<1>. SUFFICES ASSUME Init PROVE IInv /\ ActiveOffered
  OBVIOUS
<1>. USE DEF Init, Lifecycle!Init
<1>1. Placed = {} /\ \A c \in Codes : Holding(c) = {}
  BY DEF Placed, Holding
<1>2. TypeOK
  BY <1>1, CatalogueAssumption DEF TypeOK, NoCode, CodeRow
<1>3. CopiesOffered /\ AmountsAgree /\ ActiveOffered
  BY DEF CopiesOffered, AmountsAgree, AmountOf, ActiveOffered, NoPlan
<1>4. SoldAsOffered
  BY <1>1 DEF SoldAsOffered
<1>5. UsesSurviveEdits
  BY <1>1, FS_EmptySet DEF UsesSurviveEdits
<1>. QED BY <1>2, <1>3, <1>4, <1>5 DEF IInv

LEMMA NextInv == ASSUME IInv, ActiveOffered, [Next]_vars PROVE IInv' /\ ActiveOffered'
<1>1. ActiveOffered'
  BY ActiveOfferedInv DEF IInv
<1>2. CASE UNCHANGED vars
  <2>1. TypeOK'
    BY <1>2 DEF IInv, TypeOK, vars, Placed
  <2>2. CopiesOffered' /\ AmountsAgree' /\ SoldAsOffered' /\ UsesSurviveEdits'
    BY <1>2 DEF IInv, vars, CopiesOffered, AmountsAgree, SoldAsOffered, Placed,
       UsesSurviveEdits, Holding
  <2>. QED BY <1>1, <2>1, <2>2 DEF IInv
<1>3. CASE Next
  <2>1. ASSUME NEW s \in Sessions,
               \/ \E c \in Codes : LoadDiscount(s, c)
               \/ UpdateDiscount(s)
               \/ \E o \in Orders : LoadPlan(s, o)
               \/ PlaceOrder(s)
               \/ Abort(s)
        PROVE  IInv'
    BY <2>1, LoadDiscountInv, UpdateInv, LoadPlanInv, PlaceOrderInv, AbortInv
  <2>2. ASSUME NEW o \in Orders,
               \/ \E c \in Codes : ApplyDiscountCode(o, c)
               \/ CancelOrder(o) \/ ReleaseStale(o) \/ PayOrder(o)
               \/ Deliver(o) \/ GiveUp(o)
        PROVE  IInv'
    BY <2>2, ApplyInv, OrderInv
  <2>. QED BY <1>1, <1>3, <2>1, <2>2, PlanInv, BlockInv, CodeInv DEF Next
<1>. QED BY <1>1, <1>2, <1>3

LEMMA Invariant == Spec => [](IInv /\ ActiveOffered)
<1>1. (IInv /\ ActiveOffered) /\ [Next]_vars => (IInv /\ ActiveOffered)'
  BY NextInv
<1>. QED BY InitInv, <1>1, PTL DEF Spec

\* Every row and every copy a session holds keeps its type, and an order's plan
\* stays in the table.
THEOREM TypeCorrect == Spec => []TypeOK
<1>1. IInv /\ ActiveOffered => TypeOK
  BY DEF IInv
<1>. QED BY Invariant, <1>1, PTL

\* What an order asks and gets was offered together by its plan, however staff
\* edit plans and codes meanwhile (checkout_handler, release_discount_for_order).
THEOREM AlwaysSoldAsOffered == Spec => []SoldAsOffered
<1>1. IInv /\ ActiveOffered => SoldAsOffered
  BY DEF IInv
<1>. QED BY Invariant, <1>1, PTL

\* Editors that save a code from an old copy lose no use of it
\* (update_discount, reserve_discount_for_order).
THEOREM UsesAlwaysSurviveEdits == Spec => []UsesSurviveEdits
<1>1. IInv /\ ActiveOffered => UsesSurviveEdits
  BY DEF IInv
<1>. QED BY Invariant, <1>1, PTL
=============================================================================
