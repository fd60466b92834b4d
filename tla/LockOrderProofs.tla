-------------------------- MODULE LockOrderProofs --------------------------
(***************************************************************************)
(* Proofs about LockOrder, for any number of sessions and rows: which      *)
(* handlers can take part in a cycle of waits.  The argument goes through  *)
(* the classes of rows: without callbacks nobody in a stuck set waits for  *)
(* a payment, whose holder would hold the same order; so nobody waits for  *)
(* a code, whose holder could only wait for a payment; and so on down to   *)
(* the orders, which a handler asks for before it holds anything.          *)
(***************************************************************************)
EXTENDS LockOrder, TLAPS

-----------------------------------------------------------------------------
(* The inductive invariant *)

\* What a session has locked lies in the stages up to its own, its first row is
\* locked before any other, and it waits for a row of its stage.
InOrder(s) ==
    /\ work[s] = None => held[s] = {} /\ wants[s] = {}
    /\ work[s] \in Handlers =>
         /\ stage[s] \in 1..Len(work[s].stages)
         /\ \A l \in held[s] : \E j \in 1..stage[s] : l \in work[s].stages[j]
         /\ wants[s] \subseteq work[s].stages[stage[s]]
         /\ held[s] = {} => stage[s] = 1 /\ wants[s] # {}
         /\ held[s] # {} => work[s].stages[1] \subseteq held[s]
    /\ work[s] = CleanUp =>
         /\ stage[s] = 2
         /\ held[s] \subseteq OrderRows \cup RedemptionRows \cup CodeRows
         /\ wants[s] \subseteq CodeRows
    /\ wants[s] \cap held[s] = {}

IInv == TypeOK /\ \A s \in Sessions : InOrder(s)

\* A step that changes session s only, and gives it no locked row.
LEMMA OneSession ==
  ASSUME IInv, NEW s \in Sessions,
         NEW h \in Handlers \cup {None, CleanUp}, NEW n \in 0..4,
         NEW H \in SUBSET Rows, NEW W \in SUBSET Rows,
         \A l, m \in W : l = m,
         \A l \in H : l \in held[s] \/ ~Locked(l),
         work' = [work EXCEPT ![s] = h], stage' = [stage EXCEPT ![s] = n],
         held' = [held EXCEPT ![s] = H], wants' = [wants EXCEPT ![s] = W],
         InOrder(s)'
  PROVE  IInv'
<1>1. \A t \in Sessions \ {s} : /\ work'[t] = work[t] /\ stage'[t] = stage[t]
                                /\ held'[t] = held[t] /\ wants'[t] = wants[t]
  BY DEF IInv, TypeOK
<1>2. /\ work'[s] = h /\ stage'[s] = n /\ held'[s] = H /\ wants'[s] = W
  BY DEF IInv, TypeOK
<1>3. \A t \in Sessions : InOrder(t)'
  <2>. SUFFICES ASSUME NEW t \in Sessions, t # s PROVE InOrder(t)'
    OBVIOUS
  <2>. QED BY <1>1, Zenon DEF IInv, InOrder
<1>4. \A t, u \in Sessions : t # u => held'[t] \cap held'[u] = {}
  <2>. SUFFICES ASSUME NEW t \in Sessions, t # s, NEW l \in H, l \in held[t]
                PROVE  FALSE
    BY <1>1, <1>2 DEF IInv, TypeOK
  <2>. QED BY DEF IInv, TypeOK, Locked
<1>5. TypeOK'
  BY <1>1, <1>2, <1>4 DEF IInv, TypeOK
<1>. QED BY <1>3, <1>5 DEF IInv

-----------------------------------------------------------------------------
(* The handlers *)

Sections(h) == /\ Len(h.stages) \in 1..4
               /\ \E l : h.stages[1] = {l}
               /\ \A j \in 1..Len(h.stages) : h.stages[j] \subseteq Rows

LEMMA HandlerSections == \A h \in Handlers : Sections(h)
<1>. USE LockOrderAssumption DEF Work, Rows, OrderRows, RedemptionRows, PaymentRows,
     CodeRows, PaymentsOf
<1>1. \A p \in Payments : OrderOf[p] \in Orders
  OBVIOUS
<1>2. \A p \in Payments : Sections(Callback(p))
  BY <1>1 DEF Callback, Sections
<1>3. \A p \in Payments : Sections(StartPayment(p)) /\ Sections(RejectPayment(p))
  BY <1>1 DEF StartPayment, RejectPayment, Sections
<1>4. \A p \in Payments : Sections(ApproveOrder(p))
  BY <1>1 DEF ApproveOrder, Sections
<1>5. \A o \in Orders, c \in Codes : Sections(CancelOrder(o, c))
  BY DEF CancelOrder, Sections
<1>6. \A o \in Orders, c \in Codes : Sections(ApplyDiscount(o, c))
  BY DEF ApplyDiscount, Sections
<1>7. \A o \in Orders : Sections(PayWithWallet(o))
  BY DEF PayWithWallet, Sections
<1>8. /\ \A w \in Wallets : Sections(CreditWallet(w))
      /\ \A c \in Codes : Sections(EditDiscount(c))
  BY DEF CreditWallet, EditDiscount, Sections
<1>9. \A o \in Orders, v \in Services : Sections(Provision(o, v))
  <2>. SUFFICES ASSUME NEW o \in Orders, NEW v \in Services PROVE Sections(Provision(o, v))
    OBVIOUS
  <2>1. Provision(o, v).stages = <<{Order(o)}, {Account(v)}, {Subscription(v)}>>
    BY DEF Provision
  <2>. QED BY <2>1 DEF Sections
<1>10. \A o \in Orders, v \in Services : Sections(Reissue(o, v))
  BY DEF Reissue, Sections
<1>11. \A o \in Orders, v \in Services : Sections(ChangeService(o, v))
  BY DEF ChangeService, Sections
<1>12. NewOrders \subseteq Orders /\ Changes \subseteq Orders
  BY DEF Orders
<1>. HIDE DEF Work
<1>. QED BY <1>2, <1>3, <1>4, <1>5, <1>6, <1>7, <1>8, <1>9, <1>10, <1>11, <1>12 DEF Handlers

LEMMA Kinds == /\ \A h \in Handlers : h # None /\ h # CleanUp
               /\ None # CleanUp
<1>. USE DEF Work, None, CleanUp
<1>1. None.kind = "none" /\ CleanUp.kind = "cleanup"
  OBVIOUS
<1>2. \A h \in Handlers : h.kind \notin {"none", "cleanup"}
  BY DEF Handlers, Callback, StartPayment, ApproveOrder, RejectPayment, CancelOrder,
     ApplyDiscount, PayWithWallet, CreditWallet, EditDiscount, Provision, Reissue,
     ChangeService
<1>. QED BY <1>1, <1>2, Zenon

LEMMA CleanUpStages ==
  /\ CleanUp.stages[1] = OrderRows \cup RedemptionRows /\ CleanUp.stages[2] = CodeRows
  /\ Len(CleanUp.stages) = 2
BY DEF CleanUp, Work

-----------------------------------------------------------------------------
(* Steps *)

LEMMA BeginInv == ASSUME IInv, NEW s \in Sessions, Begin(s) PROVE IInv'
<1>1. PICK h \in Handlers : \E l \in h.stages[1] :
        work' = [work EXCEPT ![s] = h] /\ wants' = [wants EXCEPT ![s] = {l}]
  BY DEF Begin
<1>2. PICK l \in h.stages[1] :
        work' = [work EXCEPT ![s] = h] /\ wants' = [wants EXCEPT ![s] = {l}]
  BY <1>1
<1>3. Len(h.stages) \in 1..4 /\ h.stages[1] \subseteq Rows /\ h # None /\ h # CleanUp
  BY HandlerSections, Kinds DEF Sections
<1>4. held[s] = {} /\ held' = [held EXCEPT ![s] = held[s]]
  BY DEF IInv, TypeOK, InOrder, Begin
<1>5. stage' = [stage EXCEPT ![s] = 1]
  BY DEF Begin
<1>6. InOrder(s)'
  <2>1. work'[s] = h /\ stage'[s] = 1 /\ held'[s] = {} /\ wants'[s] = {l}
    BY <1>2, <1>4, <1>5 DEF IInv, TypeOK
  <2>. QED BY <1>3, <2>1 DEF InOrder
<1>7. /\ {l} \in SUBSET Rows /\ held[s] \in SUBSET Rows /\ 1 \in 0..4
      /\ h \in Handlers \cup {None, CleanUp} /\ \A i, m \in {l} : i = m
  BY <1>3 DEF IInv, TypeOK
<1>. QED BY <1>2, <1>4, <1>5, <1>6, <1>7, OneSession

LEMMA TakeFreeInv == ASSUME IInv, NEW s \in Sessions, TakeFreeRows(s) PROVE IInv'
<1>1. PICK S \in SUBSET {l \in CleanUp.stages[1] : ~Locked(l)} :
        held' = [held EXCEPT ![s] = S]
  BY DEF TakeFreeRows
<1>2. S \subseteq OrderRows \cup RedemptionRows /\ S \in SUBSET Rows
  BY CleanUpStages DEF Rows
<1>3. wants[s] = {} /\ wants' = [wants EXCEPT ![s] = wants[s]]
  BY DEF IInv, TypeOK, InOrder, TakeFreeRows
<1>4. work' = [work EXCEPT ![s] = CleanUp] /\ stage' = [stage EXCEPT ![s] = 2]
  BY DEF TakeFreeRows
<1>5. InOrder(s)'
  <2>1. work'[s] = CleanUp /\ stage'[s] = 2 /\ held'[s] = S /\ wants'[s] = {}
    BY <1>1, <1>3, <1>4 DEF IInv, TypeOK
  <2>. QED BY <1>2, <2>1, Kinds DEF InOrder
<1>6. /\ wants[s] \in SUBSET Rows /\ 2 \in 0..4 /\ \A i, m \in wants[s] : i = m
      /\ CleanUp \in Handlers \cup {None, CleanUp}
      /\ \A l \in S : l \in held[s] \/ ~Locked(l)
  BY <1>3 DEF IInv, TypeOK
<1>. QED BY <1>1, <1>2, <1>3, <1>4, <1>5, <1>6, OneSession

LEMMA AskInv == ASSUME IInv, NEW s \in Sessions, Ask(s) PROVE IInv'
<1>1. PICK j \in stage[s]..Len(work[s].stages) : \E l \in work[s].stages[j] \ held[s] :
        wants' = [wants EXCEPT ![s] = {l}] /\ stage' = [stage EXCEPT ![s] = j]
  BY DEF Ask
<1>2. PICK l \in work[s].stages[j] \ held[s] :
        wants' = [wants EXCEPT ![s] = {l}] /\ stage' = [stage EXCEPT ![s] = j]
  BY <1>1
<1>3. /\ work' = [work EXCEPT ![s] = work[s]] /\ held' = [held EXCEPT ![s] = held[s]]
      /\ held[s] \in SUBSET Rows
  BY DEF IInv, TypeOK, Ask
<1>4. /\ work'[s] = work[s] /\ stage'[s] = j /\ held'[s] = held[s] /\ wants'[s] = {l}
      /\ stage[s] \in 0..4 /\ InOrder(s)
  BY <1>2, <1>3 DEF IInv, TypeOK
<1>5. CASE work[s] \in Handlers
  <2>1. /\ stage[s] \in 1..Len(work[s].stages) /\ Len(work[s].stages) \in 1..4
        /\ \A i \in 1..Len(work[s].stages) : work[s].stages[i] \subseteq Rows
        /\ work[s] # None /\ work[s] # CleanUp
    BY <1>4, <1>5, HandlerSections, Kinds DEF InOrder, Sections
  <2>2. j \in 1..Len(work[s].stages) /\ stage[s] <= j /\ j \in 0..4
    BY <2>1
  <2>3. held[s] # {}
    BY <1>4, <1>5 DEF InOrder, Ask
  <2>4. \A m \in held[s] : \E i \in 1..j : m \in work[s].stages[i]
    BY <1>4, <1>5, <2>1, <2>2 DEF InOrder
  <2>5. InOrder(s)'
    BY <1>4, <1>5, <2>1, <2>2, <2>3, <2>4 DEF InOrder
  <2>6. {l} \in SUBSET Rows /\ work[s] \in Handlers \cup {None, CleanUp}
    BY <1>5, <2>1, <2>2
  <2>. QED BY <1>2, <1>3, <2>2, <2>5, <2>6, OneSession
<1>6. CASE work[s] = CleanUp
  <2>1. j = 2 /\ l \in CodeRows /\ stage[s] = 2
    BY <1>4, <1>6, CleanUpStages DEF InOrder
  <2>2. InOrder(s)'
    BY <1>4, <1>6, <2>1, Kinds DEF InOrder
  <2>3. {l} \in SUBSET Rows /\ work[s] \in Handlers \cup {None, CleanUp} /\ j \in 0..4
    BY <1>6, <2>1 DEF Rows
  <2>. QED BY <1>2, <1>3, <2>2, <2>3, OneSession
<1>. QED BY <1>5, <1>6 DEF IInv, TypeOK, Ask

LEMMA GrantInv == ASSUME IInv, NEW s \in Sessions, Grant(s) PROVE IInv'
<1>1. /\ work' = [work EXCEPT ![s] = work[s]] /\ stage' = [stage EXCEPT ![s] = stage[s]]
      /\ held' = [held EXCEPT ![s] = held[s] \cup wants[s]]
      /\ wants' = [wants EXCEPT ![s] = {}]
  BY DEF IInv, TypeOK, Grant
<1>2. /\ work'[s] = work[s] /\ stage'[s] = stage[s]
      /\ held'[s] = held[s] \cup wants[s] /\ wants'[s] = {}
      /\ stage[s] \in 0..4 /\ InOrder(s) /\ work[s] \in Handlers \cup {None, CleanUp}
  BY <1>1 DEF IInv, TypeOK
<1>3. work[s] # None
  BY <1>2 DEF InOrder, Grant
<1>4. InOrder(s)'
  <2>1. CASE work[s] \in Handlers
    <3>1. stage[s] \in 1..Len(work[s].stages) /\ stage[s] \in 1..stage[s]
      BY <1>2, <2>1 DEF InOrder
    <3>2. \A l \in held[s] \cup wants[s] : \E j \in 1..stage[s] : l \in work[s].stages[j]
      BY <1>2, <2>1, <3>1 DEF InOrder
    <3>3. work[s].stages[1] \subseteq held[s] \cup wants[s]
      <4>1. CASE held[s] = {}
        <5>1. PICK l : work[s].stages[1] = {l}
          BY <2>1, HandlerSections DEF Sections
        <5>. QED BY <1>2, <2>1, <4>1, <5>1 DEF InOrder
      <4>2. CASE held[s] # {}
        BY <1>2, <2>1, <4>2 DEF InOrder
      <4>. QED BY <4>1, <4>2
    <3>4. held[s] \cup wants[s] # {}
      BY DEF Grant
    <3>. QED BY <1>2, <2>1, <3>1, <3>2, <3>3, <3>4, Kinds DEF InOrder
  <2>2. CASE work[s] = CleanUp
    BY <1>2, <2>2, Kinds DEF InOrder
  <2>. QED BY <1>2, <1>3, <2>1, <2>2
<1>5. held[s] \cup wants[s] \in SUBSET Rows
  BY DEF IInv, TypeOK
<1>6. /\ {} \in SUBSET Rows /\ \A i, m \in {} : i = m
      /\ \A l \in held[s] \cup wants[s] : l \in held[s] \/ ~Locked(l)
  BY DEF Grant
<1>7. PICK W \in SUBSET Rows : W = {}
  OBVIOUS
<1>. QED BY <1>1, <1>2, <1>4, <1>5, <1>6, <1>7, OneSession

LEMMA EndInv == ASSUME IInv, NEW s \in Sessions, End(s) PROVE IInv'
<1>1. work'[s] = None /\ held'[s] = {} /\ wants'[s] = {}
  BY DEF IInv, TypeOK, End
<1>2. InOrder(s)'
  BY <1>1, Kinds DEF InOrder
<1>3. None \in Handlers \cup {None, CleanUp} /\ 0 \in 0..4 /\ {} \in SUBSET Rows
  OBVIOUS
<1>4. PICK n \in 0..4 : n = 0
  OBVIOUS
<1>5. PICK W \in SUBSET Rows : W = {}
  OBVIOUS
<1>6. /\ work' = [work EXCEPT ![s] = None] /\ stage' = [stage EXCEPT ![s] = n]
      /\ held' = [held EXCEPT ![s] = W] /\ wants' = [wants EXCEPT ![s] = W]
      /\ \A l, m \in W : l = m /\ \A i \in W : i \in held[s]
  BY <1>4, <1>5 DEF End
<1>. QED BY <1>2, <1>3, <1>6, OneSession

-----------------------------------------------------------------------------
(* What a handler holds when it waits, class by class *)

AccountRows == {Account(v) : v \in Services}
SubscriptionRows == {Subscription(v) : v \in Services}
WalletRows == {Wallet(w) : w \in Wallets}

\* Only a callback touches a payment without its order, and only a callback or
\* the clean-up a redemption; codes, wallets and redemptions come after.
OrderFirst(s) ==
    LET kind == work[s].kind IN
    /\ kind # "callback" => \A p \in Payments :
         Payment(p) \in held[s] \cup wants[s] => Order(OrderOf[p]) \in held[s]
    /\ kind \notin {"callback", "cleanup"} => \A o \in Orders :
         Redemption(o) \in held[s] \cup wants[s] => Order(o) \in held[s]
    /\ kind # "callback" /\ wants[s] \cap OrderRows # {} => held[s] = {}
Later(s) ==
    LET kind == work[s].kind IN
    /\ held[s] \cap CodeRows # {} => kind = "cleanup" \/ wants[s] \subseteq PaymentRows
    /\ held[s] \cap WalletRows # {} => wants[s] \subseteq RedemptionRows \cup PaymentRows
    /\ kind = "cleanup" => wants[s] \subseteq CodeRows
ServiceLast(s) ==
    LET kind == work[s].kind IN
    /\ held[s] \cap AccountRows # {} =>
         IF kind = "provision" THEN wants[s] \subseteq SubscriptionRows ELSE wants[s] = {}
    /\ held[s] \cap SubscriptionRows # {} =>
         IF kind = "change" THEN wants[s] \subseteq AccountRows
         ELSE kind = "provision" /\ wants[s] = {}
Facts(s) == OrderFirst(s) /\ Later(s) /\ ServiceLast(s)

\* What a session with these stages has locked when it waits.
LEMMA TwoStages ==
  ASSUME NEW s \in Sessions, NEW A, NEW B,
         InOrder(s), work[s] \in Handlers, work[s].stages = <<A, B>>
  PROVE  \/ held[s] = {} /\ wants[s] \subseteq A
         \/ /\ A \subseteq held[s] /\ wants[s] \subseteq A
            /\ held[s] \subseteq A
         \/ /\ A \subseteq held[s] /\ wants[s] \subseteq B
            /\ held[s] \subseteq A \cup B
<1>1. stage[s] \in 1..2
  BY DEF InOrder
<1>. QED BY <1>1 DEF InOrder

LEMMA ThreeStages ==
  ASSUME NEW s \in Sessions, NEW A, NEW B, NEW C,
         InOrder(s), work[s] \in Handlers, work[s].stages = <<A, B, C>>
  PROVE  \/ held[s] = {} /\ wants[s] \subseteq A
         \/ /\ A \subseteq held[s] /\ wants[s] \subseteq A
            /\ held[s] \subseteq A
         \/ /\ A \subseteq held[s] /\ wants[s] \subseteq B
            /\ held[s] \subseteq A \cup B
         \/ /\ A \subseteq held[s] /\ wants[s] \subseteq C
            /\ held[s] \subseteq A \cup B \cup C
<1>1. stage[s] \in 1..3
  BY DEF InOrder
<1>. QED BY <1>1 DEF InOrder

LEMMA FourStages ==
  ASSUME NEW s \in Sessions, NEW A, NEW B, NEW C, NEW D,
         InOrder(s), work[s] \in Handlers, work[s].stages = <<A, B, C, D>>
  PROVE  \/ held[s] = {} /\ wants[s] \subseteq A
         \/ /\ A \subseteq held[s] /\ wants[s] \subseteq A
            /\ held[s] \subseteq A
         \/ /\ A \subseteq held[s] /\ wants[s] \subseteq B
            /\ held[s] \subseteq A \cup B
         \/ /\ A \subseteq held[s] /\ wants[s] \subseteq C
            /\ held[s] \subseteq A \cup B \cup C
         \/ /\ A \subseteq held[s] /\ wants[s] \subseteq D
            /\ held[s] \subseteq A \cup B \cup C \cup D
<1>1. stage[s] \in 1..4
  BY DEF InOrder
<1>. QED BY <1>1 DEF InOrder

LEMMA FactsHold == ASSUME IInv, NEW s \in Sessions PROVE Facts(s)
<1>. USE DEF Order, Payment, Redemption, Code, Wallet, Account, Subscription,
     OrderRows, RedemptionRows, PaymentRows, CodeRows, AccountRows, SubscriptionRows,
     WalletRows, Work
<1>1. /\ InOrder(s) /\ work[s] \in Handlers \cup {None, CleanUp}
      /\ \A l, m \in wants[s] : l = m
      /\ held[s] \cap wants[s] = {}
  BY DEF IInv, TypeOK, InOrder
<1>2. CASE work[s] = None
  BY <1>1, <1>2 DEF InOrder, Facts, OrderFirst, Later, ServiceLast
<1>3. CASE work[s] = CleanUp
  <2>1. work[s].kind = "cleanup"
    BY <1>3 DEF CleanUp
  <2>2. /\ wants[s] \subseteq CodeRows
        /\ held[s] \subseteq OrderRows \cup RedemptionRows \cup CodeRows
    BY <1>1, <1>3, Zenon DEF InOrder
  <2>. QED BY <2>1, <2>2 DEF Facts, OrderFirst, Later, ServiceLast
<1>4. CASE work[s] \in Handlers
  <2>1. ASSUME NEW p \in Payments, work[s] = Callback(p) PROVE Facts(s)
    <3>1. /\ work[s].kind = "callback"
          /\ work[s].stages = <<{Payment(p)}, {Order(OrderOf[p])}, {Redemption(OrderOf[p])}>>
      BY <2>1 DEF Callback
    <3>2. \/ held[s] = {} /\ wants[s] \subseteq {Payment(p)}
          \/ /\ {Payment(p)} \subseteq held[s] /\ wants[s] \subseteq {Payment(p)}
             /\ held[s] \subseteq {Payment(p)}
          \/ /\ {Payment(p)} \subseteq held[s] /\ wants[s] \subseteq {Order(OrderOf[p])}
             /\ held[s] \subseteq {Payment(p)} \cup {Order(OrderOf[p])}
          \/ /\ {Payment(p)} \subseteq held[s] /\ wants[s] \subseteq {Redemption(OrderOf[p])}
             /\ held[s] \subseteq {Payment(p)} \cup {Order(OrderOf[p])} \cup {Redemption(OrderOf[p])}
      BY <1>1, <1>4, <3>1, ThreeStages
    <3>. QED BY <1>1, <3>1, <3>2 DEF Facts, OrderFirst, Later, ServiceLast
  <2>2. ASSUME NEW p \in Payments, work[s] = StartPayment(p) PROVE Facts(s)
    <3>1. /\ work[s].kind = "start"
          /\ work[s].stages = <<{Order(OrderOf[p])}, {Payment(p)}>>
      BY <2>2 DEF StartPayment
    <3>2. \/ held[s] = {} /\ wants[s] \subseteq {Order(OrderOf[p])}
          \/ /\ {Order(OrderOf[p])} \subseteq held[s] /\ wants[s] \subseteq {Order(OrderOf[p])}
             /\ held[s] \subseteq {Order(OrderOf[p])}
          \/ /\ {Order(OrderOf[p])} \subseteq held[s] /\ wants[s] \subseteq {Payment(p)}
             /\ held[s] \subseteq {Order(OrderOf[p])} \cup {Payment(p)}
      BY <1>1, <1>4, <3>1, TwoStages
    <3>. QED BY <1>1, <3>1, <3>2 DEF Facts, OrderFirst, Later, ServiceLast
  <2>3. ASSUME NEW p \in Payments, work[s] = ApproveOrder(p) PROVE Facts(s)
    <3>1. /\ work[s].kind = "approve"
          /\ work[s].stages = <<{Order(OrderOf[p])}, {Payment(p)}, {Redemption(OrderOf[p])}>>
      BY <2>3 DEF ApproveOrder
    <3>2. \/ held[s] = {} /\ wants[s] \subseteq {Order(OrderOf[p])}
          \/ /\ {Order(OrderOf[p])} \subseteq held[s] /\ wants[s] \subseteq {Order(OrderOf[p])}
             /\ held[s] \subseteq {Order(OrderOf[p])}
          \/ /\ {Order(OrderOf[p])} \subseteq held[s] /\ wants[s] \subseteq {Payment(p)}
             /\ held[s] \subseteq {Order(OrderOf[p])} \cup {Payment(p)}
          \/ /\ {Order(OrderOf[p])} \subseteq held[s] /\ wants[s] \subseteq {Redemption(OrderOf[p])}
             /\ held[s] \subseteq {Order(OrderOf[p])} \cup {Payment(p)} \cup {Redemption(OrderOf[p])}
      BY <1>1, <1>4, <3>1, ThreeStages
    <3>. QED BY <1>1, <3>1, <3>2 DEF Facts, OrderFirst, Later, ServiceLast
  <2>4. ASSUME NEW p \in Payments, work[s] = RejectPayment(p) PROVE Facts(s)
    <3>1. /\ work[s].kind = "reject"
          /\ work[s].stages = <<{Order(OrderOf[p])}, {Payment(p)}>>
      BY <2>4 DEF RejectPayment
    <3>2. \/ held[s] = {} /\ wants[s] \subseteq {Order(OrderOf[p])}
          \/ /\ {Order(OrderOf[p])} \subseteq held[s] /\ wants[s] \subseteq {Order(OrderOf[p])}
             /\ held[s] \subseteq {Order(OrderOf[p])}
          \/ /\ {Order(OrderOf[p])} \subseteq held[s] /\ wants[s] \subseteq {Payment(p)}
             /\ held[s] \subseteq {Order(OrderOf[p])} \cup {Payment(p)}
      BY <1>1, <1>4, <3>1, TwoStages
    <3>. QED BY <1>1, <3>1, <3>2 DEF Facts, OrderFirst, Later, ServiceLast
  <2>5. ASSUME NEW o \in Orders, NEW c \in Codes, work[s] = CancelOrder(o, c) PROVE Facts(s)
    <3>1. /\ work[s].kind = "cancel"
          /\ work[s].stages = <<{Order(o)}, {Redemption(o)}, {Code(c)}, PaymentsOf(o)>>
      BY <2>5 DEF CancelOrder
    <3>2. \/ held[s] = {} /\ wants[s] \subseteq {Order(o)}
          \/ /\ {Order(o)} \subseteq held[s] /\ wants[s] \subseteq {Order(o)}
             /\ held[s] \subseteq {Order(o)}
          \/ /\ {Order(o)} \subseteq held[s] /\ wants[s] \subseteq {Redemption(o)}
             /\ held[s] \subseteq {Order(o)} \cup {Redemption(o)}
          \/ /\ {Order(o)} \subseteq held[s] /\ wants[s] \subseteq {Code(c)}
             /\ held[s] \subseteq {Order(o)} \cup {Redemption(o)} \cup {Code(c)}
          \/ /\ {Order(o)} \subseteq held[s] /\ wants[s] \subseteq PaymentsOf(o)
             /\ held[s] \subseteq {Order(o)} \cup {Redemption(o)} \cup {Code(c)} \cup PaymentsOf(o)
      BY <1>1, <1>4, <3>1, FourStages
    <3>3. /\ PaymentsOf(o) \subseteq PaymentRows
          /\ \A p \in Payments : Payment(p) \in PaymentsOf(o) => OrderOf[p] = o
      BY DEF PaymentsOf
    <3>4. OrderFirst(s)
      BY <1>1, <3>1, <3>2, <3>3 DEF OrderFirst
    <3>5. Later(s)
      BY <1>1, <3>1, <3>2, <3>3 DEF Later
    <3>6. ServiceLast(s)
      BY <1>1, <3>1, <3>2, <3>3 DEF ServiceLast
    <3>. QED BY <3>4, <3>5, <3>6 DEF Facts
  <2>6. ASSUME NEW o \in Orders, NEW c \in Codes, work[s] = ApplyDiscount(o, c) PROVE Facts(s)
    <3>1. /\ work[s].kind = "discount"
          /\ work[s].stages = <<{Order(o)}, {Redemption(o)}, {Code(c)}, PaymentsOf(o)>>
      BY <2>6 DEF ApplyDiscount
    <3>2. \/ held[s] = {} /\ wants[s] \subseteq {Order(o)}
          \/ /\ {Order(o)} \subseteq held[s] /\ wants[s] \subseteq {Order(o)}
             /\ held[s] \subseteq {Order(o)}
          \/ /\ {Order(o)} \subseteq held[s] /\ wants[s] \subseteq {Redemption(o)}
             /\ held[s] \subseteq {Order(o)} \cup {Redemption(o)}
          \/ /\ {Order(o)} \subseteq held[s] /\ wants[s] \subseteq {Code(c)}
             /\ held[s] \subseteq {Order(o)} \cup {Redemption(o)} \cup {Code(c)}
          \/ /\ {Order(o)} \subseteq held[s] /\ wants[s] \subseteq PaymentsOf(o)
             /\ held[s] \subseteq {Order(o)} \cup {Redemption(o)} \cup {Code(c)} \cup PaymentsOf(o)
      BY <1>1, <1>4, <3>1, FourStages
    <3>3. /\ PaymentsOf(o) \subseteq PaymentRows
          /\ \A p \in Payments : Payment(p) \in PaymentsOf(o) => OrderOf[p] = o
      BY DEF PaymentsOf
    <3>4. OrderFirst(s)
      BY <1>1, <3>1, <3>2, <3>3 DEF OrderFirst
    <3>5. Later(s)
      BY <1>1, <3>1, <3>2, <3>3 DEF Later
    <3>6. ServiceLast(s)
      BY <1>1, <3>1, <3>2, <3>3 DEF ServiceLast
    <3>. QED BY <3>4, <3>5, <3>6 DEF Facts
  <2>7. ASSUME NEW o \in Orders, work[s] = PayWithWallet(o) PROVE Facts(s)
    <3>1. /\ work[s].kind = "wallet"
          /\ work[s].stages = <<{Order(o)}, {Wallet(WalletOf[o])}, {Redemption(o)}, PaymentsOf(o)>>
      BY <2>7 DEF PayWithWallet
    <3>2. \/ held[s] = {} /\ wants[s] \subseteq {Order(o)}
          \/ /\ {Order(o)} \subseteq held[s] /\ wants[s] \subseteq {Order(o)}
             /\ held[s] \subseteq {Order(o)}
          \/ /\ {Order(o)} \subseteq held[s] /\ wants[s] \subseteq {Wallet(WalletOf[o])}
             /\ held[s] \subseteq {Order(o)} \cup {Wallet(WalletOf[o])}
          \/ /\ {Order(o)} \subseteq held[s] /\ wants[s] \subseteq {Redemption(o)}
             /\ held[s] \subseteq {Order(o)} \cup {Wallet(WalletOf[o])} \cup {Redemption(o)}
          \/ /\ {Order(o)} \subseteq held[s] /\ wants[s] \subseteq PaymentsOf(o)
             /\ held[s] \subseteq {Order(o)} \cup {Wallet(WalletOf[o])} \cup {Redemption(o)} \cup PaymentsOf(o)
      BY <1>1, <1>4, <3>1, FourStages
    <3>3. /\ PaymentsOf(o) \subseteq PaymentRows
          /\ \A p \in Payments : Payment(p) \in PaymentsOf(o) => OrderOf[p] = o
      BY DEF PaymentsOf
    <3>4. OrderFirst(s)
      BY <1>1, <3>1, <3>2, <3>3 DEF OrderFirst
    <3>5. Later(s)
      BY <1>1, <3>1, <3>2, <3>3 DEF Later
    <3>6. ServiceLast(s)
      BY <1>1, <3>1, <3>2, <3>3 DEF ServiceLast
    <3>. QED BY <3>4, <3>5, <3>6 DEF Facts
  <2>8. ASSUME NEW w \in Wallets, work[s] = CreditWallet(w) PROVE Facts(s)
    BY <1>1, <1>4, <2>8 DEF CreditWallet, InOrder, Facts, OrderFirst, Later, ServiceLast
  <2>9. ASSUME NEW c \in Codes, work[s] = EditDiscount(c) PROVE Facts(s)
    BY <1>1, <1>4, <2>9 DEF EditDiscount, InOrder, Facts, OrderFirst, Later, ServiceLast
  <2>10. ASSUME NEW o \in NewOrders, NEW v \in Services, work[s] = Provision(o, v) PROVE Facts(s)
    <3>1. /\ work[s].kind = "provision"
          /\ work[s].stages = <<{Order(o)}, {Account(v)}, {Subscription(v)}>>
      BY <2>10 DEF Provision
    <3>2. \/ held[s] = {} /\ wants[s] \subseteq {Order(o)}
          \/ /\ {Order(o)} \subseteq held[s] /\ wants[s] \subseteq {Order(o)}
             /\ held[s] \subseteq {Order(o)}
          \/ /\ {Order(o)} \subseteq held[s] /\ wants[s] \subseteq {Account(v)}
             /\ held[s] \subseteq {Order(o)} \cup {Account(v)}
          \/ /\ {Order(o)} \subseteq held[s] /\ wants[s] \subseteq {Subscription(v)}
             /\ held[s] \subseteq {Order(o)} \cup {Account(v)} \cup {Subscription(v)}
      BY <1>1, <1>4, <3>1, ThreeStages
    <3>. QED BY <1>1, <3>1, <3>2 DEF Facts, OrderFirst, Later, ServiceLast
  <2>11. ASSUME NEW o \in NewOrders, NEW v \in Services, work[s] = Reissue(o, v) PROVE Facts(s)
    <3>1. /\ work[s].kind = "reissue"
          /\ work[s].stages = <<{Order(o)}, {Account(v)}>>
      BY <2>11 DEF Reissue
    <3>2. \/ held[s] = {} /\ wants[s] \subseteq {Order(o)}
          \/ /\ {Order(o)} \subseteq held[s] /\ wants[s] \subseteq {Order(o)}
             /\ held[s] \subseteq {Order(o)}
          \/ /\ {Order(o)} \subseteq held[s] /\ wants[s] \subseteq {Account(v)}
             /\ held[s] \subseteq {Order(o)} \cup {Account(v)}
      BY <1>1, <1>4, <3>1, TwoStages
    <3>. QED BY <1>1, <3>1, <3>2 DEF Facts, OrderFirst, Later, ServiceLast
  <2>12. ASSUME NEW o \in Changes, NEW v \in Services, work[s] = ChangeService(o, v) PROVE Facts(s)
    <3>1. /\ work[s].kind = "change"
          /\ work[s].stages = <<{Order(o)}, {Subscription(v)}, {Account(v)}>>
      BY <2>12 DEF ChangeService
    <3>2. \/ held[s] = {} /\ wants[s] \subseteq {Order(o)}
          \/ /\ {Order(o)} \subseteq held[s] /\ wants[s] \subseteq {Order(o)}
             /\ held[s] \subseteq {Order(o)}
          \/ /\ {Order(o)} \subseteq held[s] /\ wants[s] \subseteq {Subscription(v)}
             /\ held[s] \subseteq {Order(o)} \cup {Subscription(v)}
          \/ /\ {Order(o)} \subseteq held[s] /\ wants[s] \subseteq {Account(v)}
             /\ held[s] \subseteq {Order(o)} \cup {Subscription(v)} \cup {Account(v)}
      BY <1>1, <1>4, <3>1, ThreeStages
    <3>. QED BY <1>1, <3>1, <3>2 DEF Facts, OrderFirst, Later, ServiceLast
  <2>. HIDE DEF Order, Payment, Redemption, Code, Wallet, Account, Subscription,
       OrderRows, RedemptionRows, PaymentRows, CodeRows, Work
  <2>. QED BY <1>4, <2>1, <2>2, <2>3, <2>4, <2>5, <2>6, <2>7, <2>8, <2>9, <2>10, <2>11, <2>12 DEF Handlers
<1>. QED BY <1>1, <1>2, <1>3, <1>4

LEMMA Invariant == Spec => []IInv
<1>1. Init => IInv
  <2>. SUFFICES ASSUME Init PROVE IInv
    OBVIOUS
  <2>1. TypeOK
    BY DEF Init, TypeOK
  <2>2. \A s \in Sessions : InOrder(s)
    BY Kinds DEF Init, InOrder
  <2>. QED BY <2>1, <2>2 DEF IInv
<1>2. ASSUME IInv, [Next]_vars PROVE IInv'
  <2>1. CASE UNCHANGED vars
    <3>1. TypeOK'
      BY <1>2, <2>1 DEF IInv, TypeOK, vars
    <3>2. \A s \in Sessions : InOrder(s)'
      BY <1>2, <2>1 DEF IInv, InOrder, vars
    <3>. QED BY <3>1, <3>2 DEF IInv
  <2>2. CASE Next
    BY <1>2, <2>2, BeginInv, TakeFreeInv, AskInv, GrantInv, EndInv DEF Next
  <2>. QED BY <1>2, <2>1, <2>2
<1>. QED BY <1>1, <1>2, PTL DEF Spec

-----------------------------------------------------------------------------
(* Cycles *)

LEMMA Explained == ASSUME IInv PROVE CyclesExplained
<1>. SUFFICES ASSUME NEW C \in SUBSET Sessions, Stuck(C),
                     Runs(C, "callback") = {},
                     Runs(C, "change") = {} \/ Runs(C, "provision") = {},
                     \A s, t \in Runs(C, "cleanup") : s = t
              PROVE  FALSE
  BY DEF CyclesExplained
<1>1. \A s \in C : /\ Facts(s)
                   /\ work[s].kind # "callback"
                   /\ wants[s] # {}
                   /\ wants[s] \subseteq Rows
                   /\ \E t \in C, l \in wants[s] : t # s /\ l \in held[t]
  <2>. SUFFICES ASSUME NEW s \in C
                PROVE  /\ Facts(s)
                       /\ work[s].kind # "callback"
                       /\ wants[s] # {}
                       /\ wants[s] \subseteq Rows
                       /\ \E t \in C, l \in wants[s] : t # s /\ l \in held[t]
    OBVIOUS
  <2>1. s \in Sessions
    OBVIOUS
  <2>2. Facts(s)
    BY <2>1, FactsHold
  <2>3. work[s].kind # "callback"
    BY DEF Runs
  <2>4. PICK t \in C : Waits(s, t)
    BY DEF Stuck
  <2>5. PICK l \in wants[s] : l \in held[t]
    BY <2>4 DEF Waits
  <2>6. t # s
    BY <2>4 DEF Waits
  <2>7. wants[s] \subseteq Rows
    BY <2>1 DEF IInv, TypeOK
  <2>. QED BY <2>2, <2>3, <2>5, <2>6, <2>7
<1>2. \A s \in C : \A l, m \in wants[s] : l = m
  BY DEF IInv, TypeOK
<1>3. \A s, t \in C : \A l \in held[s] : l \in held[t] => s = t
  BY DEF IInv, TypeOK
\* The row a member waits for is locked by another one.
<1>4. ASSUME NEW s \in C, NEW l \in wants[s]
      PROVE  \E t \in C : t # s /\ l \in held[t]
  BY <1>1, <1>2
<1>5. \A s \in C : wants[s] \cap PaymentRows = {}
  <2>. SUFFICES ASSUME NEW s \in C, NEW p \in Payments, Payment(p) \in wants[s]
                PROVE  FALSE
    BY DEF PaymentRows
  <2>1. PICK t \in C : t # s /\ Payment(p) \in held[t]
    BY <1>4
  <2>2. Order(OrderOf[p]) \in held[s] /\ Order(OrderOf[p]) \in held[t]
    BY <1>1, <2>1 DEF Facts, OrderFirst
  <2>. QED BY <1>3, <2>1, <2>2
<1>6. \A s \in C : wants[s] \cap CodeRows = {}
  <2>1. ASSUME NEW s \in C, NEW l \in wants[s] \cap CodeRows
        PROVE  \E t \in C : t # s /\ work[t].kind = "cleanup"
    <3>1. PICK t \in C : t # s /\ l \in held[t]
      BY <1>4, <2>1
    <3>2. work[t].kind = "cleanup" \/ wants[t] \subseteq PaymentRows
      BY <1>1, <2>1, <3>1 DEF Facts, Later
    <3>. QED BY <1>1, <1>5, <3>1, <3>2
  <2>. SUFFICES ASSUME NEW s \in C, wants[s] \cap CodeRows # {} PROVE FALSE
    OBVIOUS
  <2>2. PICK t \in C : t # s /\ work[t].kind = "cleanup"
    BY <2>1
  <2>3. wants[t] \cap CodeRows # {}
    BY <1>1, <2>2 DEF Facts, Later
  <2>4. PICK u \in C : u # t /\ work[u].kind = "cleanup"
    BY <2>1, <2>3
  <2>. QED BY <2>2, <2>4 DEF Runs
<1>7. \A s \in C : work[s].kind # "cleanup"
  BY <1>1, <1>6 DEF Facts, Later
<1>8. \A s \in C : wants[s] \cap RedemptionRows = {}
  <2>. SUFFICES ASSUME NEW s \in C, NEW o \in Orders, Redemption(o) \in wants[s]
                PROVE  FALSE
    BY DEF RedemptionRows
  <2>1. PICK t \in C : t # s /\ Redemption(o) \in held[t]
    BY <1>4
  <2>2. Order(o) \in held[s] /\ Order(o) \in held[t]
    BY <1>1, <1>7, <2>1 DEF Facts, OrderFirst
  <2>. QED BY <1>3, <2>1, <2>2
<1>9. \A s \in C : wants[s] \cap WalletRows = {}
  <2>. SUFFICES ASSUME NEW s \in C, NEW l \in wants[s] \cap WalletRows PROVE FALSE
    OBVIOUS
  <2>1. PICK t \in C : t # s /\ l \in held[t]
    BY <1>4
  <2>2. wants[t] \subseteq RedemptionRows \cup PaymentRows
    BY <1>1, <2>1 DEF Facts, Later
  <2>. QED BY <1>1, <1>5, <1>8, <2>2
<1>10. \A s \in C : wants[s] \cap (AccountRows \cup SubscriptionRows) = {}
  <2>1. ASSUME NEW s \in C, NEW l \in wants[s] \cap AccountRows
        PROVE  \E t \in C : work[t].kind = "provision" /\ wants[t] \subseteq SubscriptionRows
    BY <1>1, <1>4 DEF Facts, ServiceLast
  <2>2. ASSUME NEW s \in C, NEW l \in wants[s] \cap SubscriptionRows
        PROVE  \E t \in C : work[t].kind = "change" /\ wants[t] \subseteq AccountRows
    BY <1>1, <1>4 DEF Facts, ServiceLast
  <2>. SUFFICES ASSUME NEW s \in C,
                       wants[s] \cap (AccountRows \cup SubscriptionRows) # {}
                PROVE  FALSE
    OBVIOUS
  <2>3. CASE wants[s] \cap AccountRows # {}
    <3>1. PICK t \in C : work[t].kind = "provision" /\ wants[t] \subseteq SubscriptionRows
      BY <2>1, <2>3
    <3>2. PICK u \in C : work[u].kind = "change"
      BY <1>1, <2>2, <3>1
    <3>. QED BY <3>1, <3>2 DEF Runs
  <2>4. CASE wants[s] \cap SubscriptionRows # {}
    <3>1. PICK t \in C : work[t].kind = "change" /\ wants[t] \subseteq AccountRows
      BY <2>2, <2>4
    <3>2. PICK u \in C : work[u].kind = "provision"
      BY <1>1, <2>1, <3>1
    <3>. QED BY <3>1, <3>2 DEF Runs
  <2>. QED BY <2>3, <2>4
<1>11. \A s \in C : wants[s] \subseteq OrderRows
  BY <1>1, <1>5, <1>6, <1>8, <1>9, <1>10
     DEF Rows, WalletRows, AccountRows, SubscriptionRows
<1>12. \A s \in C : held[s] = {}
  BY <1>1, <1>11 DEF Facts, OrderFirst
<1>. QED BY <1>1, <1>12 DEF Stuck

\* Every session runs a handler as it is written, and no two sessions lock one
\* row, although the clean-up does not wait for the rows it takes first.
THEOREM TypeCorrect == Spec => []TypeOK
<1>1. IInv => TypeOK
  BY DEF IInv
<1>. QED BY Invariant, <1>1, PTL

\* Whatever the handlers, sessions that block each other for good include a
\* payment callback, or a renewal or top-up and the provisioning of a service,
\* or two clean-ups (payment_callbacks.py:77, subscriptions.py:146, discounts.py:206).
THEOREM CyclesAlwaysExplained == Spec => []CyclesExplained
<1>1. IInv => CyclesExplained
  BY Explained
<1>. QED BY Invariant, <1>1, PTL
=============================================================================
