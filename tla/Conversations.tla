---------------------------- MODULE Conversations ----------------------------
(***************************************************************************)
(* The bot's forms and the support tickets written through them            *)
(* (bot.py, routers/support.py, routers/admin_ops.py, services/support.py, *)
(* and the forms of the other routers that compete for a user's messages). *)
(*                                                                         *)
(* A user's form is kept in Redis.  A message goes to the first handler,   *)
(* in the order the routers were included, whose filters accept the form's *)
(* state and the text; the handler reads what the form is about afterwards.*)
(* Updates of one user are not serialized: between the two steps a button  *)
(* or another message may change the form.  A ticket is loaded by the lock *)
(* that a writer takes, so writing to it is one step with that check.      *)
(*                                                                         *)
(* "Faulty" marks definitions that are not part of the model: they are the *)
(* definition below with a bug, to show that a property notices it.        *)
(***************************************************************************)
EXTENDS Naturals, Sequences, FiniteSets, SequencesExt

CONSTANTS
    Users,
    Team,        \* users the owner may make staff
    Orders,      \* orders that wait for payment (see Checkout)
    Owner,       \* [Orders -> Users]
    Tickets,     \* bound: rows of support_tickets
    MaxMessages, \* bound: rows of support_messages
    Updates,     \* bound: messages being handled at a time
    Inputs       \* what users send

\* Pressed on the main menu, or typed as a command; "services" stands for the
\* menu texts of services.py and wallet.py.
Menu == {"/admin", "/start", "catalog", "orders", "services", "support"}

ASSUME ConversationsAssumption ==
    /\ Team \subseteq Users
    /\ Owner \in [Orders -> Users]
    /\ MaxMessages \in Nat
    /\ Inputs \subseteq Menu \cup {"text", "photo"}
    \* The form's data keeps the id of a ticket and of an order under different keys.
    /\ Tickets \cap (Orders \cup {"nothing"}) = {}

VARIABLES
    form,       \* each user's form
    update,     \* the messages being handled
    ticket,     \* the support_tickets table
    transcript, \* the support_messages of each ticket
    staff       \* active staff who may do what the forms of staff do

vars == <<form, update, ticket, transcript, staff>>

-----------------------------------------------------------------------------
\* "staff_form" is PlanForm and StaffAddForm, which take any message and keep
\* it from everybody else; LifecycleForm takes none and counts as "none".
OrderForms == {"receipt", "discount"}
States == OrderForms \cup
    {"none", "staff_form", "staff_reply", "subject", "body", "reply"}

Nothing == "nothing"
\* "about" is the form's ticket or order: who stores one cleared the other.
Form == [state : States, about : Tickets \cup Orders \cup {Nothing},
         subject : Inputs \cup {Nothing}]
Cleared == [state |-> "none", about |-> Nothing, subject |-> Nothing]
Idle == [handler |-> "none"]

NoTicket == [status |-> "none"]
Ticket == [status : {"open", "answered", "closed"}, owner : Users, subject : Inputs]
Message == [side : {"customer", "staff"}, by : Users, body : Inputs]

Init ==
    /\ form = [u \in Users |-> Cleared]
    /\ update = [x \in Updates |-> Idle]
    /\ ticket = [t \in Tickets |-> NoTicket]
    /\ transcript = [t \in Tickets |-> <<>>]
    /\ staff \in SUBSET Team

\* clear, update_data and set_state; set_state alone keeps the form's data.
SetForm(u, state, about) ==
    form' = [form EXCEPT ![u] = [state |-> state, about |-> about, subject |-> Nothing]]
SetState(u, state) == form' = [form EXCEPT ![u].state = state]
Clear(u) == form' = [form EXCEPT ![u] = Cleared]

-----------------------------------------------------------------------------
(* services/support.py *)

\* A photo has no text, and no handler stores an empty one.
Says(input) == input # "photo"

SupportMessages == UNION {{t} \X DOMAIN transcript[t] : t \in Tickets}
RoomForMessage == Cardinality(SupportMessages) < MaxMessages

Write(t, side, u, input, status) ==
    /\ Says(input) /\ RoomForMessage
    /\ ticket' = [ticket EXCEPT ![t].status = status]
    /\ transcript' = [transcript EXCEPT
          ![t] = Append(@, [side |-> side, by |-> u, body |-> input])]

\* Faulty: a ticket needs no subject.
CreateTicketUntitled(t, u, subject, input) ==
    /\ ticket[t] = NoTicket
    /\ Says(input) /\ RoomForMessage
    /\ ticket' = [ticket EXCEPT
          ![t] = [status |-> "open", owner |-> u, subject |-> subject]]
    /\ transcript' = [transcript EXCEPT
          ![t] = <<[side |-> "customer", by |-> u, body |-> input]>>]

CreateTicket(t, u, subject, input) ==
    /\ ticket[t] = NoTicket
    /\ subject # Nothing
    /\ Says(input) /\ RoomForMessage
    /\ ticket' = [ticket EXCEPT
          ![t] = [status |-> "open", owner |-> u, subject |-> subject]]
    /\ transcript' = [transcript EXCEPT
          ![t] = <<[side |-> "customer", by |-> u, body |-> input]>>]

\* Faulty: the ticket is not looked for among the customer's own.
AddMessageAnyOwner(t, u, input) ==
    /\ ticket[t].status \in {"open", "answered"}
    /\ Write(t, "customer", u, input, "open")

AddCustomerMessage(t, u, input) ==
    /\ ticket[t].status \in {"open", "answered"}
    /\ ticket[t].owner = u
    /\ Write(t, "customer", u, input, "open")

\* Faulty: a ticket closed since the form was opened is answered all the same.
AddStaffMessageClosed(t, u, input) ==
    /\ ticket[t] # NoTicket
    /\ Write(t, "staff", u, input, "answered")

\* Faulty: an answer leaves the status as it was.
AddStaffMessageQuietly(t, u, input) ==
    /\ ticket[t].status \in {"open", "answered"}
    /\ Write(t, "staff", u, input, ticket[t].status)

AddStaffMessage(t, u, input) ==
    /\ ticket[t].status \in {"open", "answered"}
    /\ Write(t, "staff", u, input, "answered")

\* close_ticket and close_ticket_by_staff; closing again closes.
CloseTicket(u, t) ==
    /\ ticket[t] # NoTicket
    /\ ticket[t].owner = u \/ u \in staff
    /\ ticket' = [ticket EXCEPT ![t].status = "closed"]
    /\ UNCHANGED <<form, update, transcript, staff>>

-----------------------------------------------------------------------------
(* Buttons: each starts a form after it cleared the one before, or ends it;   *)
(* staff_role_selected alone goes on with the form that is there.             *)

StartReply(u, t) ==
    /\ ticket[t].status \in {"open", "answered"} /\ ticket[t].owner = u
    /\ SetForm(u, "reply", t)

StartStaffReply(u, t) ==
    /\ u \in staff /\ ticket[t].status \in {"open", "answered"}
    /\ SetForm(u, "staff_reply", t)

\* rm:, receipt: and discount:
StartOrderForm(u, o, state) == Owner[o] = u /\ SetForm(u, state, o)

\* admin:create_plan, and admin:staff_role: after admin:staff_add cleared the form.
StartStaffForm(u) ==
    /\ u \in staff
    /\ SetForm(u, "staff_form", Nothing) \/ SetState(u, "staff_form")

Press(u) ==
    /\ \/ \E t \in Tickets : StartReply(u, t) \/ StartStaffReply(u, t)
       \/ \E o \in Orders, state \in OrderForms : StartOrderForm(u, o, state)
       \/ StartStaffForm(u)
       \/ SetForm(u, "subject", Nothing)  \* support:new
       \/ Clear(u)                        \* support:home, svc_renew:, life_cancel, admin:staff_add
    /\ UNCHANGED <<update, ticket, transcript, staff>>

\* Redis forgets a form an hour after it was last set.
Expire(u) ==
    /\ Clear(u)
    /\ UNCHANGED <<update, ticket, transcript, staff>>

\* The owner adds, stops or restores a member of staff.
ToggleStaff(u) ==
    /\ u \in Team
    /\ staff' = IF u \in staff THEN staff \ {u} ELSE staff \cup {u}
    /\ UNCHANGED <<form, update, ticket, transcript>>

-----------------------------------------------------------------------------
(* Messages *)

On(handler, states, inputs) ==
    [handler |-> handler, states |-> states, inputs |-> inputs]
AnyState == States
Anything == Menu \cup {"text", "photo"}

SupportHandlers == <<
    On("support_home_message", AnyState, {"support"}),
    On("support_new_subject", {"subject"}, Anything),
    On("support_new_body", {"body"}, Anything),
    On("support_reply_body", {"reply"}, Anything)>>
ServicesHandlers == <<On("show", AnyState, {"services"})>>
CustomerHandlers == <<
    On("start_handler", AnyState, {"/start"}),
    On("show", AnyState, {"catalog"}),
    On("receipt_received", {"receipt"}, {"photo"}),
    On("show", {"receipt"}, Anything),
    On("show", AnyState, {"orders"}),
    On("discount_code_received", {"discount"}, Anything)>>
AdminHandlers == <<
    On("admin_command", AnyState, {"/admin"}),
    On("staff_form", {"staff_form"}, Anything),
    On("staff_reply_body", {"staff_reply"}, Anything)>>

\* Faulty: the support router is included before the menus of the others.
RoutersSupportFirst ==
    AdminHandlers \o SupportHandlers \o CustomerHandlers \o ServicesHandlers

\* build_dispatcher
Routers == AdminHandlers \o CustomerHandlers \o ServicesHandlers \o SupportHandlers

Update == [handler : {Routers[i].handler : i \in DOMAIN Routers},
           user : Users, input : Inputs]

Accepts(i, state, input) == state \in Routers[i].states /\ input \in Routers[i].inputs

\* The first handler that accepts the message.
Handles(i, state, input) ==
    /\ Accepts(i, state, input)
    /\ \A j \in 1..(i - 1) : ~Accepts(j, state, input)

\* A handler that only shows something ends where it began.
Receive(x, u, input) == \E i \in DOMAIN Routers :
    /\ update[x] = Idle
    /\ Handles(i, form[u].state, input) /\ Routers[i].handler # "show"
    /\ update' = [update EXCEPT
          ![x] = [handler |-> Routers[i].handler, user |-> u, input |-> input]]
    /\ UNCHANGED <<form, ticket, transcript, staff>>

\* What the handler of a message does, the form being what it is by now.  What
\* it refuses, it answers; only some handlers end the form then.
\* update_data merges: what the form is about stays.
SupportNewSubject(u, input) ==
    /\ Says(input)
    /\ form' = [form EXCEPT ![u].state = "body", ![u].subject = input]

SupportNewBody(u, input) == \E t \in Tickets :
    /\ CreateTicket(t, u, form[u].subject, input)
    /\ Clear(u)

SupportReplyBody(u, input) ==
    /\ form[u].about \in Tickets
    /\ AddCustomerMessage(form[u].about, u, input)
    /\ Clear(u)

StaffReplyBody(u, input) ==
    /\ u \in staff
    /\ form[u].about \in Tickets
    /\ AddStaffMessage(form[u].about, u, input)
    /\ Clear(u)

\* Handlers that change no ticket.
HandleForm(u, handler, input) ==
    \/ handler \in {"start_handler", "support_home_message", "receipt_received",
                    "discount_code_received"} /\ Clear(u)
    \/ handler \in {"admin_command", "staff_form"} /\ u \in staff /\ Clear(u)
    \/ handler = "staff_form" /\ u \in staff /\ SetState(u, "staff_form")
    \/ handler = "staff_reply_body" /\ u \in staff
       /\ form[u].about \notin Tickets /\ Clear(u)
    \/ handler = "support_new_subject" /\ SupportNewSubject(u, input)
    \/ handler \notin {"start_handler", "support_home_message"} /\ UNCHANGED form

HandleTicket(u, handler, input) ==
    \/ handler = "support_new_body" /\ SupportNewBody(u, input)
    \/ handler = "support_reply_body" /\ SupportReplyBody(u, input)
    \/ handler = "staff_reply_body" /\ StaffReplyBody(u, input)

Handle(x) ==
    LET u == update[x].user IN
    /\ update[x] # Idle
    /\ \/ HandleForm(u, update[x].handler, update[x].input)
          /\ UNCHANGED <<ticket, transcript>>
       \/ HandleTicket(u, update[x].handler, update[x].input)
    /\ update' = [update EXCEPT ![x] = Idle]
    /\ UNCHANGED staff

-----------------------------------------------------------------------------
Next ==
    \/ \E u \in Users : Press(u) \/ Expire(u) \/ ToggleStaff(u)
    \/ \E u \in Users, t \in Tickets : CloseTicket(u, t)
    \/ \E x \in Updates, u \in Users, input \in Inputs : Receive(x, u, input)
    \/ \E x \in Updates : Handle(x)

Spec == Init /\ [][Next]_vars

-----------------------------------------------------------------------------
(* What the conversations promise *)

\* Forms, tickets and their messages are of their types.
TypeOK ==
    /\ form \in [Users -> Form]
    /\ ticket \in [Tickets -> Ticket \cup {NoTicket}]
    /\ transcript \in [Tickets -> Seq(Message)]
    /\ staff \subseteq Team
    /\ update \in [Updates -> Update \cup {Idle}]

\* A ticket's status tells who wrote last, so that staff see which tickets wait
\* for them (services/support.py:97, 186).
StatusTellsLastWriter == \A t \in Tickets :
    /\ ticket[t].status = "open" =>
         transcript[t] # <<>> /\ Last(transcript[t]).side = "customer"
    /\ ticket[t].status = "answered" =>
         transcript[t] # <<>> /\ Last(transcript[t]).side = "staff"

\* What stands in a ticket as the customer's words was written by the customer
\* it belongs to, even if the form was changed while the message was handled
\* (services/support.py:73-80).
WrittenByOwner == \A t \in Tickets : \A i \in DOMAIN transcript[t] :
    transcript[t][i].side = "customer" => transcript[t][i].by = ticket[t].owner

\* A customer in the middle of a ticket may use the menu: no button or command
\* ends up as a message or a subject (bot.py:43-50, the order of the routers).
MenuIsNotAMessage == \A t \in Tickets :
    /\ ticket[t] # NoTicket => ticket[t].subject \notin Menu
    /\ \A i \in DOMAIN transcript[t] :
         transcript[t][i].side = "customer" => transcript[t][i].body \notin Menu

\* Nothing is written to a closed ticket, and nothing opens it again, whichever
\* forms were open when it was closed (services/support.py:83, 172).
ClosedIsFinal == [][\A t \in Tickets :
    ticket[t].status = "closed" =>
        ticket'[t] = ticket[t] /\ transcript'[t] = transcript[t]]_vars
=============================================================================
