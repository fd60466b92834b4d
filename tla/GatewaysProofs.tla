--------------------------- MODULE GatewaysProofs ---------------------------
(***************************************************************************)
(* Proofs about Gateways, for any numbers of orders, methods, payments,    *)
(* invoices, accounts and editors: an order is paid online only by an      *)
(* invoice of its own that the gateway has settled, and a customer who has *)
(* paid is not told otherwise while the method speaks for one terminal.    *)
(* That every saved method can be used is proved for one editor at a time: *)
(* of two, one may save the mode and the other the kind, each over the row *)
(* it loaded, and leave a pair that either would have been refused.        *)
(***************************************************************************)
EXTENDS Gateways, TLAPS

-----------------------------------------------------------------------------
(* The inductive invariant *)

\* Every payment has an invoice, which no other payment refers to.
OwnInvoice ==
    /\ \A p \in PaymentIds :
         payment[p] # NoPayment => invoice[payment[p].ref] # NoInvoice
    /\ \A p, q \in PaymentIds :
         payment[p] # NoPayment /\ payment[q] # NoPayment
         /\ payment[p].ref = payment[q].ref => p = q

VerifiedSettled == \A p \in PaymentIds :
    payment[p].status = "verified" => invoice[payment[p].ref].state = "settled"

IInv == TypeOK /\ OwnInvoice /\ VerifiedSettled

USE DEF NoMethod, NoPayment, NoInvoice, Idle

LEMMA IInvVerified == IInv => VerifiedIsSettled
<1>. SUFFICES ASSUME IInv, NEW p \in PaymentIds, payment[p].status = "verified",
                     NEW q \in PaymentIds \ {p}, payment[q] # NoPayment
              PROVE  /\ invoice[payment[p].ref].state = "settled"
                     /\ payment[q].ref # payment[p].ref
  BY DEF IInv, VerifiedSettled, VerifiedIsSettled
<1>1. payment[p] # NoPayment
  OBVIOUS
<1>. QED BY <1>1 DEF IInv, OwnInvoice, VerifiedSettled
-----------------------------------------------------------------------------
(* Configuration changes no payment and no invoice *)

LEMMA SecretTyped ==
  ASSUME NEW seen \in Method \cup {NoMethod}, NEW v \in Method
  PROVE  NewSecret(seen, v) \in Credentials \cup {Null}
BY DEF Method, NewSecret, Credentials

LEMMA CreateInv ==
  ASSUME IInv, NEW m \in MethodIds, NEW v \in PaymentMethodInput,
         CreatePaymentMethod(m, v)
  PROVE  IInv'
<1>. DEFINE new == [v EXCEPT !.secret = IF Online(v) THEN NewSecret(NoMethod, v) ELSE Null]
<1>1. new \in Method
  BY SecretTyped DEF PaymentMethodInput, Method
<1>2. new # NoMethod
  BY <1>1 DEF Method
<1>3. TypeOK'
  BY <1>1, <1>2 DEF IInv, TypeOK, CreatePaymentMethod
<1>. QED BY <1>3 DEF IInv, OwnInvoice, VerifiedSettled, CreatePaymentMethod

LEMMA ConfigureInv ==
  ASSUME IInv, NEW e \in Editors, NEW v \in PaymentMethodInput,
         ConfigurePaymentMethod(e, v)
  PROVE  IInv'
<1>. DEFINE m == edit[e].method
            seen == edit[e].seen
            new == [kind    |-> Flush(method[m].kind, seen.kind, v.kind),
                    enabled |-> Flush(method[m].enabled, seen.enabled, v.enabled),
                    sandbox |-> Flush(method[m].sandbox, seen.sandbox, v.sandbox),
                    secret  |-> SavedSecret(method[m].secret, seen.secret, v)]
<1>1. m \in MethodIds /\ seen \in Method /\ method[m] \in Method
  BY DEF IInv, TypeOK, ConfigurePaymentMethod
<1>2. v \in Method
  BY DEF PaymentMethodInput
<1>3. new \in Method
  BY <1>1, <1>2 DEF Method, Flush, SavedSecret
<1>4. method' = [method EXCEPT ![m] = new]
  BY DEF ConfigurePaymentMethod
<1>5. new # NoMethod
  BY <1>3 DEF Method
<1>6. TypeOK'
  BY <1>1, <1>3, <1>4, <1>5 DEF IInv, TypeOK, ConfigurePaymentMethod
<1>. QED BY <1>6 DEF IInv, OwnInvoice, VerifiedSettled, ConfigurePaymentMethod

LEMMA EditInv ==
  ASSUME IInv, NEW e \in Editors,
         GiveUp(e) \/ \E m \in MethodIds : LoadPaymentMethod(e, m)
  PROVE  IInv'
<1>1. TypeOK'
  BY DEF IInv, TypeOK, GiveUp, LoadPaymentMethod
<1>. QED BY <1>1 DEF IInv, OwnInvoice, VerifiedSettled, GiveUp, LoadPaymentMethod

LEMMA DeleteInv ==
  ASSUME IInv, NEW m \in MethodIds, DeletePaymentMethod(m)
  PROVE  IInv'
<1>1. TypeOK'
  BY DEF IInv, TypeOK, DeletePaymentMethod
<1>. QED BY <1>1 DEF IInv, OwnInvoice, VerifiedSettled, DeletePaymentMethod
-----------------------------------------------------------------------------
(* Payments and invoices *)

LEMMA VisitInv ==
  ASSUME IInv, NEW r \in Refs, NEW state \in {"paid", "canceled"}, Visit(r, state)
  PROVE  IInv'
<1>1. invoice[r] \in Invoice
  BY DEF IInv, TypeOK, Visit
<1>2. [invoice[r] EXCEPT !.state = state] \in Invoice
  BY <1>1 DEF Invoice
<1>3. TypeOK'
  BY <1>2 DEF IInv, TypeOK, Visit
<1>4. OwnInvoice'
  BY <1>1, <1>2 DEF IInv, TypeOK, OwnInvoice, Visit, Invoice
<1>5. VerifiedSettled'
  BY DEF IInv, TypeOK, VerifiedSettled, Visit
<1>. QED BY <1>3, <1>4, <1>5 DEF IInv

\* A terminal is the merchant's account of credentials that fit the service.
LEMMA TerminalTyped ==
  ASSUME NEW row \in Method, Buildable(row)
  PROVE  Terminal(row) \in Terminals
<1>1. row.kind \in OnlineKinds
  BY DEF Buildable, Online
<1>2. CASE Provider(row.kind).shared /\ row.sandbox
  BY <1>1, <1>2 DEF Method, Terminal, Terminals
<1>3. CASE ~(Provider(row.kind).shared /\ row.sandbox)
  <2>1. ~(row.kind = "zibal" /\ row.sandbox)
    BY <1>3 DEF Provider, ZibalProvider
  <2>2. RequiredField(row.kind, row.sandbox) \in {"merchant_id", "api_key", "merchant"}
    BY <1>1, <2>1 DEF RequiredField, OnlineKinds
  <2>3. row.secret.field \notin {"null", "blank"}
    BY <2>2 DEF Buildable, Valid
  <2>4. row.secret.account \in Accounts
    BY <2>3 DEF Method, Credentials, Null, Blank
  <2>. QED BY <1>1, <1>3, <2>4 DEF Method, Terminal, Terminals
<1>. QED BY <1>2, <1>3

LEMMA StartInv ==
  ASSUME IInv, NEW o \in Orders, NEW m \in MethodIds, NEW p \in PaymentIds,
         NEW r \in Refs, StartExternalPayment(o, m, p, r)
  PROVE  IInv'
<1>. DEFINE opened == [state |-> "open", terminal |-> Terminal(method[m])]
            new == [status |-> "pending", order |-> o, method |-> m,
                    provider |-> method[m].kind, ref |-> r]
<1>1. method[m] \in Method
  BY DEF IInv, TypeOK, StartExternalPayment
<1>2. opened \in Invoice
  BY <1>1, TerminalTyped DEF StartExternalPayment, Invoice
<1>3. new \in Payment
  BY DEF StartExternalPayment, Buildable, Online, Payment
<1>4. invoice' = [invoice EXCEPT ![r] = opened]
  BY DEF StartExternalPayment
<1>5. payment' = payment \/ payment' = [payment EXCEPT ![p] = new]
  BY DEF StartExternalPayment
<1>6. TypeOK'
  BY <1>2, <1>3, <1>4, <1>5 DEF IInv, TypeOK, StartExternalPayment
<1>7. \A q \in PaymentIds : payment[q] # NoPayment => payment[q].ref # r
  BY DEF IInv, OwnInvoice, StartExternalPayment
<1>8. opened # NoInvoice
  BY <1>2 DEF Invoice
<1>9. OwnInvoice'
  BY <1>4, <1>5, <1>7, <1>8 DEF IInv, TypeOK, OwnInvoice
<1>10. VerifiedSettled'
  BY <1>4, <1>5, <1>7 DEF IInv, TypeOK, VerifiedSettled
<1>. QED BY <1>6, <1>9, <1>10 DEF IInv

LEMMA PaidInv ==
  ASSUME IInv, NEW p \in PaymentIds, CallbackPaid(p)
  PROVE  IInv'
<1>. DEFINE r == payment[p].ref
            settled == [invoice[r] EXCEPT !.state = "settled"]
            verified == [payment[p] EXCEPT !.status = "verified"]
<1>1. payment[p] \in Payment
  BY DEF IInv, TypeOK, CallbackPaid, Asks
<1>2. r \in Refs /\ invoice[r] \in Invoice
  BY <1>1 DEF IInv, TypeOK, OwnInvoice, Payment
<1>3. /\ settled \in Invoice /\ settled.state = "settled"
      /\ verified \in Payment /\ verified.ref = r
  BY <1>1, <1>2 DEF Invoice, Payment
<1>4. invoice' = [invoice EXCEPT ![r] = settled]
  BY DEF CallbackPaid
<1>5. payment' = payment \/ payment' = [payment EXCEPT ![p] = verified]
  BY DEF CallbackPaid
<1>6. verified.method = payment[p].method
  BY <1>1 DEF Payment
<1>. HIDE DEF settled, verified
<1>7. /\ payment' \in [PaymentIds -> Payment \cup {NoPayment}]
      /\ \A q \in PaymentIds :
           /\ payment'[q] # NoPayment => payment[q] # NoPayment
           /\ payment'[q].ref = payment[q].ref
           /\ payment'[q].method = payment[q].method
  <2>1. payment \in [PaymentIds -> Payment \cup {NoPayment}]
    BY DEF IInv, TypeOK
  <2>2. payment[p] # NoPayment
    BY <1>1 DEF Payment
  <2>. QED BY <1>3, <1>5, <1>6, <2>1, <2>2
<1>8. /\ invoice' \in [Refs -> Invoice \cup {NoInvoice}]
      /\ \A i \in Refs : invoice[i] # NoInvoice => invoice'[i] # NoInvoice
  <2>1. invoice \in [Refs -> Invoice \cup {NoInvoice}]
    BY DEF IInv, TypeOK
  <2>2. settled # NoInvoice
    BY <1>3 DEF Invoice
  <2>. QED BY <1>2, <1>3, <1>4, <2>1, <2>2
<1>9. TypeOK'
  <2>1. payable' \subseteq Orders /\ UNCHANGED <<method, edit>>
    BY DEF IInv, TypeOK, CallbackPaid
  <2>. QED BY <1>7, <1>8, <2>1 DEF IInv, TypeOK
<1>10. OwnInvoice'
  <2>1. \A q \in PaymentIds : payment[q] # NoPayment => payment[q].ref \in Refs
    BY DEF IInv, TypeOK, Payment
  <2>. QED BY <1>7, <1>8, <2>1 DEF IInv, OwnInvoice
<1>11. VerifiedSettled'
  BY <1>1, <1>2, <1>3, <1>4, <1>5 DEF IInv, TypeOK, VerifiedSettled
<1>. QED BY <1>9, <1>10, <1>11 DEF IInv

\* Failing some of the payments that were pending.
LEMMA FailInv ==
  ASSUME IInv, payable' \subseteq payable, UNCHANGED <<method, edit, invoice>>,
         payment' \in [PaymentIds -> Payment \cup {NoPayment}],
         \A p \in PaymentIds : \/ payment'[p] = payment[p]
                               \/ /\ payment[p] \in Payment
                                  /\ payment'[p] = [payment[p] EXCEPT !.status = "failed"]
  PROVE  IInv'
<1>1. \A p \in PaymentIds :
        /\ payment'[p].status = "verified" => payment[p].status = "verified"
        /\ payment'[p] # NoPayment =>
             /\ payment[p] # NoPayment
             /\ payment'[p].ref = payment[p].ref
             /\ payment'[p].method = payment[p].method
        /\ payment'[p].status = "verified" => payment'[p] # NoPayment
  BY DEF Payment
<1>2. TypeOK'
  BY <1>1 DEF IInv, TypeOK
<1>3. OwnInvoice' /\ VerifiedSettled'
  BY <1>1 DEF IInv, OwnInvoice, VerifiedSettled
<1>. QED BY <1>2, <1>3 DEF IInv

LEMMA NotPaidInv ==
  ASSUME IInv, NEW p \in PaymentIds, CallbackNotPaid(p)
  PROVE  IInv'
<1>1. payment[p] \in Payment
  BY DEF IInv, TypeOK, CallbackNotPaid, Asks
<1>2. [payment[p] EXCEPT !.status = "failed"] \in Payment
  BY <1>1 DEF Payment
<1>3. payment' \in [PaymentIds -> Payment \cup {NoPayment}]
  BY <1>2 DEF IInv, TypeOK, CallbackNotPaid
<1>. QED BY <1>1, <1>3, FailInv DEF IInv, TypeOK, CallbackNotPaid

LEMMA CloseInv ==
  ASSUME IInv, NEW o \in Orders, Close(o)
  PROVE  IInv'
<1>1. \A p \in PaymentIds : payment[p].status = "pending" =>
        payment[p] \in Payment /\ [payment[p] EXCEPT !.status = "failed"] \in Payment
  BY DEF IInv, TypeOK, Payment
<1>2. payment' \in [PaymentIds -> Payment \cup {NoPayment}]
  BY <1>1 DEF IInv, TypeOK, Close
<1>. QED BY <1>1, <1>2, FailInv DEF IInv, TypeOK, Close
-----------------------------------------------------------------------------
(* Theorems *)

LEMMA StepIInv == IInv /\ [Next]_vars => IInv'
<1>. SUFFICES ASSUME IInv, [Next]_vars PROVE IInv'
  OBVIOUS
<1>1. CASE UNCHANGED vars
  BY <1>1 DEF IInv, TypeOK, OwnInvoice, VerifiedSettled, vars
<1>2. CASE Next
  BY <1>2, CreateInv, ConfigureInv, EditInv, DeleteInv, VisitInv, StartInv,
     PaidInv, NotPaidInv, CloseInv DEF Next
<1>. QED BY <1>1, <1>2

\* The inductive invariant of online payments (services/payment_methods.py).
THEOREM Invariance == Spec => []IInv
<1>1. Init => IInv
  BY DEF Init, IInv, TypeOK, OwnInvoice, VerifiedSettled
<1>. QED BY <1>1, StepIInv, PTL DEF Spec

\* Rows, copies and invoices are of their types, and no method that a payment
\* refers to is ever deleted (admin_panel.py:1581).
THEOREM TypeCorrect == Spec => []TypeOK
<1>1. IInv => TypeOK
  BY DEF IInv
<1>. QED BY <1>1, Invariance, PTL

\* Only a settled invoice of its own pays an order (docs/operations.md:110).
THEOREM VerifiedMeansSettled == Spec => []VerifiedIsSettled
BY IInvVerified, Invariance, PTL

\* A gateway whose terminal is asked never refuses what was paid.
LEMMA PaidIsAnswered ==
  ASSUME NEW kind \in OnlineKinds,
         NEW state \in IF kind = "nextpay" THEN {"paid"} ELSE {"paid", "settled"}
  PROVE  Answers(kind, state) \subseteq Provider(kind).paid
BY DEF OnlineKinds, Answers, Provider, ZarinPalProvider, IDPayProvider,
       ZibalProvider, NextPayProvider

LEMMA StepNotFailed ==
  ASSUME IInv, [Next]_vars, NEW p \in PaymentIds,
         payment[p].status = "pending", payment'[p].status = "failed",
         payment[p].order \in payable',
         Buildable(method[payment[p].method]),
         Terminal(method[payment[p].method]) = invoice[payment[p].ref].terminal
  PROVE  invoice[payment[p].ref].state \notin
           (IF method[payment[p].method].kind = "nextpay" THEN {"paid"}
            ELSE {"paid", "settled"})
<1>1. PICK q \in PaymentIds : CallbackNotPaid(q)
  <2>1. ~UNCHANGED payment
    OBVIOUS
  <2>2. \A o \in Orders : ~Close(o)
    BY DEF Close, IInv, TypeOK
  <2>3. \A q \in PaymentIds : ~CallbackPaid(q)
    BY DEF CallbackPaid, Asks, IInv, TypeOK
  <2>4. \A o \in Orders, m \in MethodIds, q \in PaymentIds, r \in Refs :
          ~StartExternalPayment(o, m, q, r)
    BY DEF StartExternalPayment, IInv, TypeOK
  <2>. QED BY <2>1, <2>2, <2>3, <2>4
       DEF Next, vars, CreatePaymentMethod, LoadPaymentMethod, GiveUp,
           ConfigurePaymentMethod, DeletePaymentMethod, Visit
<1>2. q = p
  BY <1>1 DEF CallbackNotPaid, IInv, TypeOK
<1>3. ~(AnswersTo(p) \subseteq PaidCodes(p))
  BY <1>1, <1>2 DEF CallbackNotPaid
<1>4. AnswersTo(p) = Answers(method[payment[p].method].kind, invoice[payment[p].ref].state)
  BY DEF AnswersTo, Known
<1>. QED BY <1>3, <1>4, PaidIsAnswered DEF PaidCodes, Buildable, Online

\* What a customer has paid is not recorded as failed while the method is asked
\* at the same terminal (services/payment_methods.py:486).
THEOREM PaidStaysUnfailed == Spec => PaidIsNotFailed
<1>1. IInv /\ [Next]_vars =>
        [\A p \in PaymentIds :
           LET r == payment[p].ref
               row == method[payment[p].method]
           IN  /\ payment[p].status = "pending" /\ payment'[p].status = "failed"
               /\ payment[p].order \in payable'
               /\ Buildable(row) /\ Terminal(row) = invoice[r].terminal
               => invoice[r].state \notin
                    (IF row.kind = "nextpay" THEN {"paid"} ELSE {"paid", "settled"})]_vars
  BY StepNotFailed
<1>. QED BY <1>1, Invariance, PTL DEF Spec, PaidIsNotFailed
-----------------------------------------------------------------------------
(* One editor at a time *)

\* What an editor has loaded is what the row still holds, unless it is gone.
FreshCopy == \A e \in Editors : edit[e] # Idle =>
    method[edit[e].method] \in {NoMethod, edit[e].seen}

FitInv == IInv /\ FreshCopy /\ MethodsFit

LEMMA AcceptedFits ==
  ASSUME NEW seen \in Method \cup {NoMethod}, NEW v \in Method, Online(v),
         Accepted(seen, v)
  PROVE  Valid(v.kind, v.sandbox, NewSecret(seen, v))
BY DEF Accepted

LEMMA CreateFits ==
  ASSUME FitInv, NEW m \in MethodIds, NEW v \in PaymentMethodInput,
         CreatePaymentMethod(m, v)
  PROVE  FreshCopy' /\ MethodsFit'
<1>. DEFINE new == [v EXCEPT !.secret = IF Online(v) THEN NewSecret(NoMethod, v) ELSE Null]
<1>1. /\ new.kind = v.kind /\ new.sandbox = v.sandbox
      /\ Online(v) => new.secret = NewSecret(NoMethod, v)
  BY DEF PaymentMethodInput, Method
<1>2. Online(new) => Buildable(new)
  BY <1>1 DEF Buildable, Online, Accepted, CreatePaymentMethod
<1>3. method' = [method EXCEPT ![m] = new]
  BY DEF CreatePaymentMethod
<1>. HIDE DEF new
<1>4. MethodsFit'
  BY <1>2, <1>3 DEF FitInv, IInv, TypeOK, MethodsFit
<1>5. FreshCopy'
  BY <1>3 DEF FitInv, IInv, TypeOK, FreshCopy, CreatePaymentMethod
<1>. QED BY <1>4, <1>5

LEMMA ConfigureFits ==
  ASSUME FitInv, \A e, f \in Editors : e = f,
         NEW e \in Editors, NEW v \in PaymentMethodInput,
         ConfigurePaymentMethod(e, v)
  PROVE  FreshCopy' /\ MethodsFit'
<1>. DEFINE m == edit[e].method
            seen == edit[e].seen
            new == [kind    |-> Flush(method[m].kind, seen.kind, v.kind),
                    enabled |-> Flush(method[m].enabled, seen.enabled, v.enabled),
                    sandbox |-> Flush(method[m].sandbox, seen.sandbox, v.sandbox),
                    secret  |-> SavedSecret(method[m].secret, seen.secret, v)]
<1>1. m \in MethodIds /\ seen \in Method /\ method[m] = seen
  BY DEF FitInv, FreshCopy, IInv, TypeOK, ConfigurePaymentMethod
<1>2. /\ new.kind = v.kind /\ new.sandbox = v.sandbox
      /\ Online(v) => new.secret = NewSecret(seen, v)
  BY <1>1 DEF Flush, SavedSecret, NewSecret, Keeps, Method
<1>3. Online(new) => Buildable(new)
  BY <1>2 DEF Buildable, Online, Accepted, ConfigurePaymentMethod
<1>4. method' = [method EXCEPT ![m] = new]
  BY DEF ConfigurePaymentMethod
<1>. HIDE DEF new
<1>5. MethodsFit'
  BY <1>3, <1>4 DEF FitInv, IInv, TypeOK, MethodsFit
<1>6. FreshCopy'
  BY DEF FitInv, IInv, TypeOK, FreshCopy, ConfigurePaymentMethod
<1>. QED BY <1>5, <1>6

\* While one member of staff at a time saves a method, every online method that
\* is configured can be built when a payment or a callback needs it
\* (services/payment_methods.py:225-343).
THEOREM OneEditorKeepsMethodsFit ==
  ASSUME \A e, f \in Editors : e = f
  PROVE  Spec => []MethodsFit
<1>1. Init => FreshCopy /\ MethodsFit
  BY DEF Init, FreshCopy, MethodsFit, Online, OnlineKinds
<1>2. FitInv /\ [Next]_vars => FreshCopy' /\ MethodsFit'
  <2>. SUFFICES ASSUME FitInv, [Next]_vars PROVE FreshCopy' /\ MethodsFit'
    OBVIOUS
  <2>1. CASE UNCHANGED <<method, edit>>
    BY <2>1 DEF FitInv, FreshCopy, MethodsFit
  <2>2. ASSUME NEW m \in MethodIds, NEW e \in Editors, LoadPaymentMethod(e, m)
        PROVE  FreshCopy' /\ MethodsFit'
    BY <2>2 DEF LoadPaymentMethod, FitInv, IInv, TypeOK, FreshCopy, MethodsFit
  <2>3. ASSUME NEW e \in Editors, GiveUp(e) PROVE FreshCopy' /\ MethodsFit'
    BY <2>3 DEF GiveUp, FitInv, IInv, TypeOK, FreshCopy, MethodsFit
  <2>4. ASSUME NEW m \in MethodIds, DeletePaymentMethod(m)
        PROVE  FreshCopy' /\ MethodsFit'
    BY <2>4 DEF DeletePaymentMethod, FitInv, IInv, TypeOK, FreshCopy, MethodsFit
  <2>. QED BY <2>1, <2>2, <2>3, <2>4, CreateFits, ConfigureFits
       DEF Next, vars, StartExternalPayment, Visit, CallbackPaid, CallbackNotPaid, Close
<1>. QED BY <1>1, <1>2, Invariance, PTL DEF Spec, FitInv
=============================================================================
