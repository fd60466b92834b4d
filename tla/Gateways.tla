------------------------------ MODULE Gateways ------------------------------
(***************************************************************************)
(* Online payments: the methods staff configure, the invoices the gateways *)
(* keep, and the callbacks that ask a gateway whether an invoice was paid  *)
(* (services/payment_methods.py, payments/providers.py,                    *)
(* payment_callbacks.py and the web admin's payment methods).              *)
(*                                                                         *)
(* Checkout says only that a callback finds a payment paid or not paid.    *)
(* Here is why: a payment keeps the reference of the invoice it opened,    *)
(* and a callback asks for that reference with the method as it is         *)
(* configured by then.  A call can fail, and its reply can be lost after   *)
(* the gateway acted on it.                                                *)
(*                                                                         *)
(* Saving a method is two steps: the request loads the row, and writes the *)
(* columns that differ from what it loaded.  Starting a payment locks the  *)
(* order, and a callback locks the payment before it reads anything else,  *)
(* so each is one step.                                                    *)
(*                                                                         *)
(* "Faulty" marks definitions that are not part of the model: they are the *)
(* definition below with a bug, to show that a property notices it.        *)
(***************************************************************************)
EXTENDS Integers

CONSTANTS
    Orders,
    MethodIds,   \* bound: rows of payment_method_configs
    PaymentIds,  \* bound: rows of payments
    Refs,        \* bound: invoices the gateways open
    Kinds,       \* the kinds of method in use
    Accounts,    \* merchant accounts staff have credentials of
    Editors      \* staff who save a method at the same time

OnlineKinds == {"zarinpal", "idpay", "zibal", "nextpay"}

ASSUME KindsAssumption == Kinds \subseteq OnlineKinds \cup {"manual_card"}

VARIABLES
    method,   \* the payment_method_configs table
    edit,     \* the row each editor has loaded
    payment,  \* the payments made online
    payable,  \* orders that wait for payment
    invoice   \* what the gateways know; external

vars == <<method, edit, payment, payable, invoice>>

-----------------------------------------------------------------------------
(* Rows *)

NoMethod == [kind |-> "none"]
NoPayment == [status |-> "none"]
NoInvoice == [state |-> "none"]
Idle == [stage |-> "idle"]

\* Decrypted credentials: the field they fill, and whose account it is.
Null == [field |-> "null"]
Blank == [field |-> "blank"]
Credentials == [field : {"merchant_id", "api_key", "merchant"}, account : Accounts]
                 \cup {Blank}

Method == [kind : Kinds, enabled : BOOLEAN, sandbox : BOOLEAN,
           secret : Credentials \cup {Null}]
\* What staff submit; Null stands for credentials left as they are.
PaymentMethodInput == Method

Online(row) == row.kind \in OnlineKinds

\* The unit of work writes a column only if the session changed its copy.
Flush(stored, seen, new) == IF new = seen THEN stored ELSE new

Init ==
    /\ method = [m \in MethodIds |-> NoMethod]
    /\ edit = [e \in Editors |-> Idle]
    /\ payment = [p \in PaymentIds |-> NoPayment]
    /\ payable = Orders
    /\ invoice = [r \in Refs |-> NoInvoice]

-----------------------------------------------------------------------------
(* Configuration *)

RequiredField(kind, sandbox) ==
    CASE kind = "zarinpal"           -> "merchant_id"
      [] kind \in {"idpay", "nextpay"} -> "api_key"
      [] kind = "zibal" /\ ~sandbox  -> "merchant"
      [] OTHER                       -> "nothing"

\* _validate_credentials
Valid(kind, sandbox, secret) ==
    /\ ~(kind = "nextpay" /\ sandbox)
    /\ RequiredField(kind, sandbox) \in {"nothing", secret.field}

\* Credentials are left as they are.
Keeps(v) == Online(v) /\ v.secret = Null

\* The credentials an online row is to have.
NewSecret(seen, v) ==
    IF ~Keeps(v) THEN v.secret ELSE IF seen = NoMethod THEN Blank ELSE seen.secret

\* What a row must have for its credentials to be kept.
Keepable(seen, v) == seen.kind = v.kind /\ seen.secret # Null

\* Faulty: credentials left as they are were valid once.
AcceptedUnseen(seen, v) == Online(v) =>
    /\ Keeps(v) /\ seen # NoMethod => Keepable(seen, v)
    /\ ~Keeps(v) => Valid(v.kind, v.sandbox, NewSecret(seen, v))

\* What configure_payment_method accepts over the row it has loaded.
Accepted(seen, v) == Online(v) =>
    /\ Keeps(v) /\ seen # NoMethod => Keepable(seen, v)
    /\ Valid(v.kind, v.sandbox, NewSecret(seen, v))

\* The secret column after the flush: a kept one is not written.
SavedSecret(stored, seen, v) ==
    IF Keeps(v) THEN stored
    ELSE IF Online(v) THEN v.secret
    ELSE Flush(stored, seen, Null)

CreatePaymentMethod(m, v) ==
    /\ method[m] = NoMethod
    /\ \A e \in Editors : edit[e] # Idle => edit[e].method # m
    /\ Accepted(NoMethod, v)
    /\ method' = [method EXCEPT ![m] =
          [v EXCEPT !.secret = IF Online(v) THEN NewSecret(NoMethod, v) ELSE Null]]
    /\ UNCHANGED <<edit, payment, payable, invoice>>

LoadPaymentMethod(e, m) ==
    /\ edit[e] = Idle /\ method[m] # NoMethod
    /\ edit' = [edit EXCEPT ![e] = [method |-> m, seen |-> method[m]]]
    /\ UNCHANGED <<method, payment, payable, invoice>>

\* The request is refused, or its row was deleted in the meantime.
GiveUp(e) ==
    /\ edit[e] # Idle
    /\ edit' = [edit EXCEPT ![e] = Idle]
    /\ UNCHANGED <<method, payment, payable, invoice>>

ConfigurePaymentMethod(e, v) ==
    LET m == edit[e].method
        seen == edit[e].seen
    IN  /\ edit[e] # Idle
        /\ method[m] # NoMethod
        /\ Accepted(seen, v)
        /\ method' = [method EXCEPT ![m] =
              [kind    |-> Flush(@.kind, seen.kind, v.kind),
               enabled |-> Flush(@.enabled, seen.enabled, v.enabled),
               sandbox |-> Flush(@.sandbox, seen.sandbox, v.sandbox),
               secret  |-> SavedSecret(@.secret, seen.secret, v)]]
        /\ edit' = [edit EXCEPT ![e] = Idle]
        /\ UNCHANGED <<payment, payable, invoice>>

\* Faulty: a method is deleted whatever refers to it.
DeleteInUse(m) ==
    /\ method[m] # NoMethod
    /\ method' = [method EXCEPT ![m] = NoMethod]
    /\ UNCHANGED <<edit, payment, payable, invoice>>

\* A method with payments is refused, by the look-up or by the foreign key.
DeletePaymentMethod(m) ==
    /\ method[m] # NoMethod
    /\ \A p \in PaymentIds : payment[p] # NoPayment => payment[p].method # m
    /\ method' = [method EXCEPT ![m] = NoMethod]
    /\ UNCHANGED <<edit, payment, payable, invoice>>

-----------------------------------------------------------------------------
(* Gateways.  An invoice belongs to a terminal: the service, its sandbox   *)
(* or not, and the merchant's account there.                               *)

Terminals == [kind : OnlineKinds, sandbox : BOOLEAN, account : Accounts \cup {"public"}]

\* Each client: the codes its verify takes for "paid", whether it reads the
\* reference as a number, and whether its sandbox has one merchant for everybody.
ZarinPalProvider == [paid |-> {100, 101}, numeric |-> FALSE, shared |-> FALSE]
IDPayProvider == [paid |-> {100, 101}, numeric |-> FALSE, shared |-> FALSE]
\* Faulty: a repeated verification is not known.
ZibalProviderOnce == [paid |-> {100}, numeric |-> TRUE, shared |-> TRUE]
ZibalProvider == [paid |-> {100, 201}, numeric |-> TRUE, shared |-> TRUE]
NextPayProvider == [paid |-> {0}, numeric |-> FALSE, shared |-> FALSE]
Provider(kind) ==
    CASE kind = "zarinpal" -> ZarinPalProvider
      [] kind = "idpay"    -> IDPayProvider
      [] kind = "zibal"    -> ZibalProvider
      [] kind = "nextpay"  -> NextPayProvider

\* build_payment_provider
Buildable(row) == Online(row) /\ Valid(row.kind, row.sandbox, row.secret)
Terminal(row) ==
    [kind |-> row.kind, sandbox |-> row.sandbox,
     account |-> IF Provider(row.kind).shared /\ row.sandbox THEN "public"
                 ELSE row.secret.account]

\* The code that answers a verification of an invoice in this state: the first
\* one settles it; what NextPay answers to a repeated one, no code here knows.
Refused == -1
Answers(kind, state) ==
    CASE state \notin {"paid", "settled"} -> {Refused}
      [] kind = "nextpay" -> IF state = "paid" THEN {0} ELSE {0, Refused}
      [] kind = "zibal"   -> IF state = "paid" THEN {100} ELSE {201}
      [] OTHER            -> IF state = "paid" THEN {100} ELSE {101}

\* A number is asked for; another service's reference raises ValueError.
Readable(kind, r) == Provider(kind).numeric => Provider(invoice[r].terminal.kind).numeric

\* The customer pays, or turns back, at the link of a payment that was saved.
Linked(r) == \E p \in PaymentIds : payment[p] # NoPayment /\ payment[p].ref = r
Visit(r, state) ==
    /\ invoice[r].state = "open" /\ Linked(r)
    /\ invoice' = [invoice EXCEPT ![r].state = state]
    /\ UNCHANGED <<method, edit, payment, payable>>

-----------------------------------------------------------------------------
(* Payments *)

\* The pending payment whose link is returned instead of a new one.
Existing(o, m) == {p \in PaymentIds :
    /\ payment[p].status = "pending"
    /\ payment[p].order = o /\ payment[p].method = m
    /\ payment[p].provider = method[m].kind}

\* start_external_payment.  The order is placed at the gateway; if the reply
\* is lost the payment rolls back and the invoice stays without one.
StartExternalPayment(o, m, p, r) ==
    /\ o \in payable
    /\ method[m] # NoMethod /\ method[m].enabled
    /\ Existing(o, m) = {}
    /\ Buildable(method[m])
    /\ payment[p] = NoPayment /\ invoice[r] = NoInvoice
    /\ invoice' = [invoice EXCEPT
                     ![r] = [state |-> "open", terminal |-> Terminal(method[m])]]
    /\ \/ payment' = [payment EXCEPT
             ![p] = [status |-> "pending", order |-> o, method |-> m,
                     provider |-> method[m].kind, ref |-> r]]
       \/ UNCHANGED payment
    /\ UNCHANGED <<method, edit, payable>>

\* A callback whose payment is pending and whose method can be asked.
Asks(p) ==
    /\ payment[p].status = "pending"
    /\ Buildable(method[payment[p].method])
    /\ Readable(method[payment[p].method].kind, payment[p].ref)
Known(p) == invoice[payment[p].ref].terminal = Terminal(method[payment[p].method])
AnswersTo(p) ==
    IF Known(p) THEN Answers(method[payment[p].method].kind, invoice[payment[p].ref].state)
    ELSE {Refused}
PaidCodes(p) == Provider(method[payment[p].method].kind).paid

\* Faulty: the callback's own parameters are believed.
CallbackBelieved(p) ==
    /\ Asks(p)
    /\ payment' = [payment EXCEPT ![p].status = "verified"]
    /\ payable' = payable \ {payment[p].order}
    /\ UNCHANGED <<method, edit, invoice>>

\* verify_external_payment: the gateway settles the invoice.  The payment stays
\* pending if the reply is lost or verify_payment refuses it (see Checkout).
CallbackPaid(p) ==
    /\ Asks(p)
    /\ AnswersTo(p) \cap PaidCodes(p) # {}
    /\ invoice' = [invoice EXCEPT ![payment[p].ref].state = "settled"]
    /\ \/ /\ payment' = [payment EXCEPT ![p].status = "verified"]
          /\ payable' = payable \ {payment[p].order}
       \/ UNCHANGED <<payment, payable>>
    /\ UNCHANGED <<method, edit>>

\* A gateway that does not know the reference answers "not paid" as well.
CallbackNotPaid(p) ==
    /\ Asks(p)
    /\ AnswersTo(p) \ PaidCodes(p) # {}
    /\ payment' = [payment EXCEPT ![p].status = "failed"]
    /\ UNCHANGED <<method, edit, payable, invoice>>

\* The order is canceled or paid another way, which fails its pending payments
\* (not if staff approve another receipt; see Checkout).
Close(o) ==
    /\ o \in payable
    /\ payable' = payable \ {o}
    /\ \/ payment' = [p \in PaymentIds |->
             IF payment[p].status = "pending" /\ payment[p].order = o
             THEN [payment[p] EXCEPT !.status = "failed"] ELSE payment[p]]
       \/ UNCHANGED payment
    /\ UNCHANGED <<method, edit, invoice>>

-----------------------------------------------------------------------------
Next ==
    \/ \E m \in MethodIds :
         \/ \E v \in PaymentMethodInput : CreatePaymentMethod(m, v)
         \/ \E e \in Editors : LoadPaymentMethod(e, m)
         \/ DeletePaymentMethod(m)
    \/ \E e \in Editors :
         \/ \E v \in PaymentMethodInput : ConfigurePaymentMethod(e, v)
         \/ GiveUp(e)
    \/ \E o \in Orders, m \in MethodIds, p \in PaymentIds, r \in Refs :
         StartExternalPayment(o, m, p, r)
    \/ \E r \in Refs, state \in {"paid", "canceled"} : Visit(r, state)
    \/ \E p \in PaymentIds : CallbackPaid(p) \/ CallbackNotPaid(p)
    \/ \E o \in Orders : Close(o)

Spec == Init /\ [][Next]_vars

-----------------------------------------------------------------------------
(* What online payment promises *)

Payment == [status : {"pending", "verified", "failed"}, order : Orders,
            method : MethodIds, provider : OnlineKinds, ref : Refs]
Invoice == [state : {"open", "paid", "canceled", "settled"}, terminal : Terminals]

\* The rows, the editors' copies and the invoices are of their types, and a
\* payment refers to a method that exists.
TypeOK ==
    /\ method \in [MethodIds -> Method \cup {NoMethod}]
    /\ edit \in [Editors -> [method : MethodIds, seen : Method] \cup {Idle}]
    /\ payment \in [PaymentIds -> Payment \cup {NoPayment}]
    /\ \A p \in PaymentIds :
         payment[p] # NoPayment => method[payment[p].method] # NoMethod
    /\ payable \subseteq Orders
    /\ invoice \in [Refs -> Invoice \cup {NoInvoice}]

\* An order is paid online only by an invoice the gateway has settled, its own
\* and no other payment's, whatever a callback says (docs/operations.md:110).
VerifiedIsSettled == \A p \in PaymentIds :
    payment[p].status = "verified" =>
        /\ invoice[payment[p].ref].state = "settled"
        /\ \A q \in PaymentIds \ {p} :
             payment[q] # NoPayment => payment[q].ref # payment[p].ref

\* While its method still speaks for the same terminal, a payment of an order
\* that waits for it does not fail once the customer has paid, however often
\* the callback comes and replies are lost; except for a repeated verification
\* by NextPay (payments/providers.py:201, 295, 386; Checkout assumes it).
PaidIsNotFailed == [][\A p \in PaymentIds :
    LET r == payment[p].ref
        row == method[payment[p].method]
    IN  /\ payment[p].status = "pending" /\ payment'[p].status = "failed"
        /\ payment[p].order \in payable'
        /\ Buildable(row) /\ Terminal(row) = invoice[r].terminal
        => invoice[r].state \notin
             (IF row.kind = "nextpay" THEN {"paid"} ELSE {"paid", "settled"})]_vars

\* Every configured online method can be built when a payment or a callback
\* needs it: no save leaves a kind, a mode and credentials that do not fit
\* (services/payment_methods.py:149-178, 300-310).
MethodsFit == \A m \in MethodIds :
    method[m] # NoMethod /\ Online(method[m]) => Buildable(method[m])
=============================================================================
