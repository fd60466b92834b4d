------------------------- MODULE ConversationsProofs -------------------------
(***************************************************************************)
(* Proofs about Conversations, for any numbers of users, tickets and       *)
(* messages handled at a time: what a ticket's status and the names on its *)
(* messages mean, that nothing pressed on the menu ends up in a ticket, and *)
(* that a closed ticket stays as it is.                                    *)
(***************************************************************************)
EXTENDS Conversations, TLAPS

USE ConversationsAssumption
USE DEF NoTicket, Idle, Nothing

-----------------------------------------------------------------------------
(* The inductive invariant: the types, what the forms and the messages being *)
(* handled can hold, and per ticket what its status and its messages say.     *)

\* Handlers whose message ends up in a ticket in the customer's name.
Writers == {"support_new_subject", "support_new_body", "support_reply_body"}

\* What the menu takes reaches neither these handlers nor a form.
FormsOK ==
    /\ \A x \in Updates : update[x].handler \in Writers => update[x].input \notin Menu
    /\ \A u \in Users : form[u].subject \notin Menu

TicketOK(t) ==
    /\ ticket[t] \in Ticket \cup {NoTicket}
    /\ transcript[t] \in Seq(Message)
    /\ ticket[t].status = "open" =>
         transcript[t] # <<>> /\ Last(transcript[t]).side = "customer"
    /\ ticket[t].status = "answered" =>
         transcript[t] # <<>> /\ Last(transcript[t]).side = "staff"
    /\ ticket[t] # NoTicket => ticket[t].subject \notin Menu
    /\ \A i \in DOMAIN transcript[t] : transcript[t][i].side = "customer" =>
         transcript[t][i].by = ticket[t].owner /\ transcript[t][i].body \notin Menu

IInv == TypeOK /\ FormsOK /\ \A t \in Tickets : TicketOK(t)

\* A ticket as it may become in a step.
Kept(t) == ticket'[t] = ticket[t] /\ transcript'[t] = transcript[t]
Closing(t) ==
    /\ ticket[t] # NoTicket
    /\ ticket'[t] = [ticket[t] EXCEPT !.status = "closed"]
    /\ transcript'[t] = transcript[t]
Created(t) == \E u \in Users, subject \in Inputs \ Menu, input \in Inputs \ Menu :
    /\ ticket[t] = NoTicket
    /\ ticket'[t] = [status |-> "open", owner |-> u, subject |-> subject]
    /\ transcript'[t] = <<[side |-> "customer", by |-> u, body |-> input]>>
Written(t, side, status) == \E u \in Users, input \in Inputs :
    /\ ticket[t].status \in {"open", "answered"}
    /\ side = "customer" => ticket[t].owner = u /\ input \notin Menu
    /\ ticket'[t] = [ticket[t] EXCEPT !.status = status]
    /\ transcript'[t] = Append(transcript[t], [side |-> side, by |-> u, body |-> input])
Stepped(t) ==
    Kept(t) \/ Closing(t) \/ Created(t)
    \/ Written(t, "customer", "open") \/ Written(t, "staff", "answered")
-----------------------------------------------------------------------------
(* Every step changes tickets in one of these ways *)

LEMMA WriteSteps ==
  ASSUME TypeOK, NEW t \in Tickets, NEW u \in Users, NEW input \in Inputs,
         \/ AddCustomerMessage(t, u, input) /\ input \notin Menu
         \/ AddStaffMessage(t, u, input)
  PROVE  \A s \in Tickets : Stepped(s)
<1>. SUFFICES ASSUME NEW s \in Tickets PROVE Stepped(s)
  OBVIOUS
<1>1. CASE s # t
  BY <1>1 DEF TypeOK, AddCustomerMessage, AddStaffMessage, Write, Stepped, Kept
<1>2. CASE s = t
  BY <1>2 DEF TypeOK, AddCustomerMessage, AddStaffMessage, Write, Stepped, Written
<1>. QED BY <1>1, <1>2

LEMMA CreateSteps ==
  ASSUME TypeOK, NEW t \in Tickets, NEW u \in Users, NEW subject \in Inputs \ Menu,
         NEW input \in Inputs \ Menu, CreateTicket(t, u, subject, input)
  PROVE  \A s \in Tickets : Stepped(s)
<1>. SUFFICES ASSUME NEW s \in Tickets PROVE Stepped(s)
  OBVIOUS
<1>1. CASE s # t
  BY <1>1 DEF TypeOK, CreateTicket, Stepped, Kept
<1>2. CASE s = t
  BY <1>2 DEF TypeOK, CreateTicket, Stepped, Created
<1>. QED BY <1>1, <1>2

LEMMA HandleSteps ==
  ASSUME TypeOK, FormsOK, NEW x \in Updates, Handle(x)
  PROVE  \A t \in Tickets : Stepped(t)
<1>. DEFINE u == update[x].user
            input == update[x].input
<1>1. u \in Users /\ input \in Inputs
  BY DEF Handle, TypeOK, Update
<1>2. CASE UNCHANGED <<ticket, transcript>>
  BY <1>2 DEF Stepped, Kept
<1>3. CASE update[x].handler = "support_new_body" /\ SupportNewBody(u, input)
  <2>1. PICK t \in Tickets : CreateTicket(t, u, form[u].subject, input)
    BY <1>3 DEF SupportNewBody
  <2>2. form[u].subject \in Inputs \ Menu
    BY <1>1, <2>1 DEF CreateTicket, TypeOK, Form, FormsOK
  <2>3. PICK w \in Users, s \in Inputs \ Menu, i \in Inputs \ Menu :
          w = u /\ s = form[u].subject /\ i = input
    BY <1>1, <1>3, <2>2 DEF FormsOK, Writers
  <2>4. CreateTicket(t, w, s, i)
    BY <2>1, <2>3
  <2>. QED BY <2>4, CreateSteps
<1>4. CASE \/ update[x].handler = "support_reply_body" /\ SupportReplyBody(u, input)
           \/ StaffReplyBody(u, input)
  <2>1. PICK t \in Tickets, w \in Users, i \in Inputs :
          t = form[u].about /\ w = u /\ i = input
    BY <1>1, <1>4 DEF SupportReplyBody, StaffReplyBody
  <2>2. \/ AddCustomerMessage(t, w, i) /\ i \notin Menu
        \/ AddStaffMessage(t, w, i)
    BY <1>4, <2>1 DEF SupportReplyBody, StaffReplyBody, FormsOK, Writers
  <2>. QED BY <2>2, WriteSteps
<1>. QED BY <1>2, <1>3, <1>4 DEF Handle, HandleTicket

LEMMA AllSteps == TypeOK /\ FormsOK /\ [Next]_vars => \A t \in Tickets : Stepped(t)
<1>. SUFFICES ASSUME TypeOK, FormsOK, [Next]_vars PROVE \A t \in Tickets : Stepped(t)
  OBVIOUS
<1>1. CASE UNCHANGED <<ticket, transcript>>
  BY <1>1 DEF Stepped, Kept
<1>2. ASSUME NEW u \in Users, NEW t \in Tickets, CloseTicket(u, t)
      PROVE  \A s \in Tickets : Stepped(s)
  BY <1>2 DEF CloseTicket, TypeOK, Stepped, Kept, Closing
<1>. QED BY <1>1, <1>2, HandleSteps
     DEF Next, vars, Press, Expire, ToggleStaff, Receive
-----------------------------------------------------------------------------
(* What they do to one ticket *)

LEMMA WrittenOK ==
  ASSUME NEW t \in Tickets, TicketOK(t),
         Written(t, "customer", "open") \/ Written(t, "staff", "answered")
  PROVE  TicketOK(t)'
<1>. PICK side \in {"customer", "staff"}, status \in {"open", "answered"} :
       /\ Written(t, side, status)
       /\ status = "open" <=> side = "customer"
  OBVIOUS
<1>. PICK u \in Users, input \in Inputs :
       /\ ticket[t].status \in {"open", "answered"}
       /\ side = "customer" => ticket[t].owner = u /\ input \notin Menu
       /\ ticket'[t] = [ticket[t] EXCEPT !.status = status]
       /\ transcript'[t] = Append(transcript[t],
                                  [side |-> side, by |-> u, body |-> input])
  BY DEF Written
<1>. DEFINE m == [side |-> side, by |-> u, body |-> input]
<1>1. m \in Message /\ m.side = side /\ m.by = u /\ m.body = input
  BY DEF Message
<1>2. ticket[t] \in Ticket
  BY DEF TicketOK
<1>3. /\ ticket'[t] \in Ticket
      /\ ticket'[t].status = status /\ ticket'[t].owner = ticket[t].owner
      /\ ticket'[t].subject = ticket[t].subject /\ ticket[t] # NoTicket
  BY <1>2 DEF Ticket
<1>4. transcript[t] \in Seq(Message)
  BY DEF TicketOK
<1>. HIDE DEF m
<1>5. /\ transcript'[t] \in Seq(Message)
      /\ Len(transcript'[t]) = Len(transcript[t]) + 1
      /\ transcript'[t][Len(transcript[t]) + 1] = m
      /\ \A i \in 1..Len(transcript[t]) : transcript'[t][i] = transcript[t][i]
  BY <1>1, <1>4 DEF m
<1>6. transcript'[t] # <<>> /\ Last(transcript'[t]).side = side
  BY <1>1, <1>5 DEF Last
<1>7. \A i \in DOMAIN transcript'[t] : transcript'[t][i].side = "customer" =>
        transcript'[t][i].by = ticket'[t].owner /\ transcript'[t][i].body \notin Menu
  BY <1>1, <1>3, <1>4, <1>5 DEF TicketOK
<1>. QED BY <1>3, <1>5, <1>6, <1>7 DEF TicketOK

LEMMA TicketSteps ==
  ASSUME NEW t \in Tickets, TicketOK(t), Stepped(t)
  PROVE  TicketOK(t)'
<1>1. CASE Kept(t)
  BY <1>1 DEF Kept, TicketOK
<1>2. CASE Closing(t)
  <2>1. ticket[t] \in Ticket
    BY <1>2 DEF Closing, TicketOK
  <2>2. /\ ticket'[t] \in Ticket
        /\ ticket'[t].status = "closed" /\ ticket'[t].owner = ticket[t].owner
        /\ ticket'[t].subject = ticket[t].subject
    BY <1>2, <2>1 DEF Closing, Ticket
  <2>. QED BY <1>2, <2>2 DEF Closing, TicketOK
<1>3. CASE Created(t)
  <2>. PICK u \in Users, subject \in Inputs \ Menu, input \in Inputs \ Menu :
         /\ ticket'[t] = [status |-> "open", owner |-> u, subject |-> subject]
         /\ transcript'[t] = <<[side |-> "customer", by |-> u, body |-> input]>>
    BY <1>3 DEF Created
  <2>1. ticket'[t] \in Ticket /\ transcript'[t] \in Seq(Message)
    BY DEF Ticket, Message
  <2>2. /\ transcript'[t] # <<>> /\ Last(transcript'[t]).side = "customer"
        /\ \A i \in DOMAIN transcript'[t] :
             transcript'[t][i].by = ticket'[t].owner /\ transcript'[t][i].body \notin Menu
    BY DEF Last
  <2>. QED BY <2>1, <2>2 DEF TicketOK
<1>. QED BY <1>1, <1>2, <1>3, WrittenOK DEF Stepped
-----------------------------------------------------------------------------
(* Types *)

\* What the handler of a message may leave of its user's form.
Answered(u, input) ==
    \/ UNCHANGED form
    \/ Clear(u)
    \/ SetState(u, "staff_form")
    \/ SupportNewSubject(u, input)

LEMMA HandledForms ==
  ASSUME NEW x \in Updates, Handle(x)
  PROVE  /\ Answered(update[x].user, update[x].input)
         /\ \/ UNCHANGED form
            \/ Clear(update[x].user)
            \/ SetState(update[x].user, "staff_form")
            \/ update[x].handler \in Writers
<1>. DEFINE u == update[x].user
            input == update[x].input
<1>1. CASE HandleForm(u, update[x].handler, input)
  BY <1>1 DEF HandleForm, Answered, Writers
<1>2. CASE HandleTicket(u, update[x].handler, input)
  BY <1>2 DEF HandleTicket, SupportNewBody, SupportReplyBody, StaffReplyBody, Answered
<1>. QED BY <1>1, <1>2 DEF Handle

\* What a step leaves of one form is a form.
LEMMA FormPlaced ==
  ASSUME TypeOK, NEW u \in Users,
         \/ UNCHANGED form
         \/ \E state \in States, about \in Tickets \cup Orders \cup {Nothing} :
              SetForm(u, state, about)
         \/ \E state \in States : SetState(u, state)
         \/ \E input \in Inputs : SupportNewSubject(u, input)
  PROVE  form' \in [Users -> Form]
<1>1. form \in [Users -> Form] /\ form[u] \in Form
  BY DEF TypeOK
<1>2. PICK f \in Form : form' = [form EXCEPT ![u] = f]
  <2>1. CASE UNCHANGED form
    BY <1>1, <2>1
  <2>2. ASSUME NEW state \in States, NEW about \in Tickets \cup Orders \cup {Nothing},
               SetForm(u, state, about)
        PROVE  \E f \in Form : form' = [form EXCEPT ![u] = f]
    BY <2>2 DEF SetForm, Form
  <2>3. ASSUME NEW state \in States, SetState(u, state)
        PROVE  \E f \in Form : form' = [form EXCEPT ![u] = f]
    <3>1. [form[u] EXCEPT !.state = state] \in Form
      BY <1>1 DEF Form
    <3>2. form' = [form EXCEPT ![u] = [form[u] EXCEPT !.state = state]]
      BY <2>3 DEF SetState
    <3>. QED BY <3>1, <3>2
  <2>4. ASSUME NEW input \in Inputs, SupportNewSubject(u, input)
        PROVE  \E f \in Form : form' = [form EXCEPT ![u] = f]
    <3>1. [form[u] EXCEPT !.state = "body", !.subject = input] \in Form
      BY <1>1 DEF Form, States
    <3>2. form' = [form EXCEPT
                     ![u] = [form[u] EXCEPT !.state = "body", !.subject = input]]
      BY <1>1, <2>4 DEF SupportNewSubject, Form
    <3>. QED BY <3>1, <3>2
  <2>. QED BY <2>1, <2>2, <2>3, <2>4
<1>. QED BY <1>1, <1>2

LEMMA FormTyped ==
  ASSUME TypeOK, [Next]_vars
  PROVE  form' \in [Users -> Form]
<1>1. \A u \in Users : Clear(u) => SetForm(u, "none", Nothing)
  BY DEF Clear, SetForm, Cleared
<1>2. ASSUME NEW u \in Users, Press(u) \/ Expire(u) PROVE form' \in [Users -> Form]
  BY <1>1, <1>2, FormPlaced DEF Press, Expire, StartReply, StartStaffReply,
     StartOrderForm, StartStaffForm, States, OrderForms
<1>3. ASSUME NEW x \in Updates, Handle(x) PROVE form' \in [Users -> Form]
  <2>1. PICK u \in Users, input \in Inputs : Answered(u, input)
    BY <1>3, HandledForms DEF Handle, TypeOK, Update
  <2>. QED BY <1>1, <2>1, FormPlaced DEF Answered, States
<1>4. ASSUME UNCHANGED form PROVE form' \in [Users -> Form]
  BY <1>4 DEF TypeOK
<1>. QED BY <1>2, <1>3, <1>4 DEF Next, vars, ToggleStaff, CloseTicket, Receive

LEMMA UpdateTyped ==
  ASSUME TypeOK, [Next]_vars
  PROVE  update' \in [Updates -> Update \cup {Idle}] /\ staff' \subseteq Team
<1>1. ASSUME NEW x \in Updates, NEW u \in Users, NEW input \in Inputs, Receive(x, u, input)
      PROVE  update' \in [Updates -> Update \cup {Idle}]
  <2>1. PICK i \in DOMAIN Routers :
          update' = [update EXCEPT
             ![x] = [handler |-> Routers[i].handler, user |-> u, input |-> input]]
    BY <1>1 DEF Receive
  <2>. QED BY <2>1 DEF TypeOK, Update
<1>2. ASSUME NEW x \in Updates, Handle(x)
      PROVE  update' \in [Updates -> Update \cup {Idle}]
  BY <1>2 DEF Handle, TypeOK
<1>. QED BY <1>1, <1>2
     DEF TypeOK, Next, vars, Press, Expire, ToggleStaff, CloseTicket, Receive, Handle

LEMMA TicketsTyped ==
  ASSUME TypeOK, [Next]_vars
  PROVE  /\ ticket' = [t \in Tickets |-> ticket'[t]]
         /\ transcript' = [t \in Tickets |-> transcript'[t]]
<1>1. ASSUME NEW x \in Updates, Handle(x)
      PROVE  /\ ticket' = [t \in Tickets |-> ticket'[t]]
             /\ transcript' = [t \in Tickets |-> transcript'[t]]
  BY <1>1 DEF Handle, HandleTicket, SupportNewBody, SupportReplyBody,
     StaffReplyBody, CreateTicket, AddCustomerMessage, AddStaffMessage, Write, TypeOK
<1>. QED BY <1>1
     DEF TypeOK, Next, vars, Press, Expire, ToggleStaff, CloseTicket, Receive

-----------------------------------------------------------------------------
(* The customer menu *)

\* The routers in the order of their handlers, as build_dispatcher joins them.
LEMMA RoutersInOrder ==
  /\ DOMAIN Routers = 1..14
  /\ Routers[1] = On("admin_command", AnyState, {"/admin"})
  /\ Routers[2] = On("staff_form", {"staff_form"}, Anything)
  /\ Routers[3] = On("staff_reply_body", {"staff_reply"}, Anything)
  /\ Routers[4] = On("start_handler", AnyState, {"/start"})
  /\ Routers[5] = On("show", AnyState, {"catalog"})
  /\ Routers[6] = On("receipt_received", {"receipt"}, {"photo"})
  /\ Routers[7] = On("show", {"receipt"}, Anything)
  /\ Routers[8] = On("show", AnyState, {"orders"})
  /\ Routers[9] = On("discount_code_received", {"discount"}, Anything)
  /\ Routers[10] = On("show", AnyState, {"services"})
  /\ Routers[11] = On("support_home_message", AnyState, {"support"})
  /\ Routers[12] = On("support_new_subject", {"subject"}, Anything)
  /\ Routers[13] = On("support_new_body", {"body"}, Anything)
  /\ Routers[14] = On("support_reply_body", {"reply"}, Anything)
  BY DEF Routers, AdminHandlers, CustomerHandlers, ServicesHandlers, SupportHandlers

\* What the menu takes, it takes from the forms of the support router.
LEMMA MenuGoesFirst ==
  ASSUME NEW i \in DOMAIN Routers, NEW state \in States, NEW input,
         Handles(i, state, input), Routers[i].handler \in Writers
  PROVE  input \notin Menu
<1>1. i \in {12, 13, 14}
  BY RoutersInOrder DEF On, Writers
<1>2. \A j \in 1..11 : ~Accepts(j, state, input)
  BY <1>1 DEF Handles
<1>3. /\ ~Accepts(1, state, input) /\ ~Accepts(4, state, input)
      /\ ~Accepts(5, state, input) /\ ~Accepts(8, state, input)
      /\ ~Accepts(10, state, input) /\ ~Accepts(11, state, input)
  BY <1>2
<1>4. /\ input # "/admin" /\ input # "/start" /\ input # "catalog"
      /\ input # "orders" /\ input # "services" /\ input # "support"
  BY <1>3, RoutersInOrder DEF Accepts, On, AnyState
<1>. QED BY <1>4 DEF Menu

LEMMA ReceivedOK ==
  ASSUME TypeOK, FormsOK, NEW x \in Updates, NEW u \in Users, NEW input \in Inputs,
         Receive(x, u, input)
  PROVE  FormsOK'
<1>1. PICK i \in DOMAIN Routers :
        /\ Handles(i, form[u].state, input)
        /\ update' = [update EXCEPT
             ![x] = [handler |-> Routers[i].handler, user |-> u, input |-> input]]
        /\ UNCHANGED form
  BY DEF Receive
<1>2. form[u].state \in States
  BY DEF TypeOK, Form
<1>3. Routers[i].handler \in Writers => input \notin Menu
  BY <1>1, <1>2, MenuGoesFirst
<1>4. update'[x] = [handler |-> Routers[i].handler, user |-> u, input |-> input]
      /\ \A y \in Updates \ {x} : update'[y] = update[y]
  BY <1>1 DEF TypeOK
<1>5. /\ update'[x].handler = Routers[i].handler
      /\ update'[x].input = input
  BY <1>4
<1>. QED BY <1>1, <1>3, <1>4, <1>5 DEF FormsOK

LEMMA HandledOK ==
  ASSUME TypeOK, FormsOK, NEW x \in Updates, Handle(x)
  PROVE  FormsOK'
<1>1. PICK u \in Users, input \in Inputs :
        u = update[x].user /\ input = update[x].input
  BY DEF Handle, TypeOK, Update
<1>2. \A y \in Updates \ {x} : update'[y] = update[y]
  BY DEF Handle, TypeOK
<1>3. update'[x].handler \notin Writers
  BY DEF Handle, TypeOK, Writers
<1>4. \/ UNCHANGED form
      \/ Clear(u)
      \/ SetState(u, "staff_form")
      \/ SupportNewSubject(u, input) /\ input \notin Menu
  BY <1>1, HandledForms DEF Answered, FormsOK
<1>5. ASSUME NEW w \in Users PROVE form'[w].subject \notin Menu
  <2>1. form[w] \in Form /\ form[w].subject \notin Menu
    BY DEF FormsOK, TypeOK
  <2>2. Cleared.subject \notin Menu
    BY DEF Cleared, Menu
  <2>3. CASE UNCHANGED form \/ Clear(u)
    BY <2>1, <2>2, <2>3 DEF TypeOK, Clear
  <2>4. CASE SetState(u, "staff_form")
    BY <2>1, <2>4 DEF TypeOK, Form, SetState
  <2>5. CASE SupportNewSubject(u, input) /\ input \notin Menu
    BY <2>1, <2>5 DEF TypeOK, Form, SupportNewSubject
  <2>. QED BY <1>4, <2>3, <2>4, <2>5
<1>. QED BY <1>2, <1>3, <1>5 DEF FormsOK

LEMMA PressedOK ==
  ASSUME TypeOK, FormsOK, NEW u \in Users, Press(u) \/ Expire(u)
  PROVE  FormsOK'
<1>1. (\E state, about : SetForm(u, state, about)) \/ SetState(u, "staff_form")
  <2>1. Clear(u) => SetForm(u, "none", Nothing)
    BY DEF Clear, SetForm, Cleared
  <2>. QED BY <2>1
       DEF Press, Expire, StartReply, StartStaffReply, StartOrderForm, StartStaffForm
<1>2. ASSUME NEW w \in Users PROVE form'[w].subject \notin Menu
  <2>1. form[w] \in Form /\ form[w].subject \notin Menu
    BY DEF FormsOK, TypeOK
  <2>2. ASSUME NEW state, NEW about, SetForm(u, state, about)
        PROVE  form'[w].subject \notin Menu
    BY <2>1, <2>2 DEF TypeOK, SetForm, Cleared, Menu
  <2>3. CASE SetState(u, "staff_form")
    BY <2>1, <2>3 DEF TypeOK, Form, SetState
  <2>. QED BY <1>1, <2>2, <2>3
<1>. QED BY <1>2 DEF FormsOK, Press, Expire

LEMMA FormsSteps == TypeOK /\ FormsOK /\ [Next]_vars => FormsOK'
<1>. SUFFICES ASSUME TypeOK, FormsOK, [Next]_vars PROVE FormsOK'
  OBVIOUS
<1>1. ASSUME UNCHANGED <<form, update>> PROVE FormsOK'
  BY <1>1 DEF FormsOK
<1>. QED BY <1>1, ReceivedOK, HandledOK, PressedOK
     DEF Next, vars, ToggleStaff, CloseTicket

-----------------------------------------------------------------------------
LEMMA StepIInv == IInv /\ [Next]_vars => IInv'
<1>. SUFFICES ASSUME IInv, [Next]_vars PROVE IInv'
  OBVIOUS
<1>1. \A t \in Tickets : TicketOK(t)'
  BY AllSteps, TicketSteps DEF IInv
<1>2. TypeOK'
  <2>1. ticket' \in [Tickets -> Ticket \cup {NoTicket}]
        /\ transcript' \in [Tickets -> Seq(Message)]
    BY <1>1, TicketsTyped DEF IInv, TicketOK
  <2>. QED BY <2>1, FormTyped, UpdateTyped DEF IInv, TypeOK
<1>. QED BY <1>1, <1>2, FormsSteps DEF IInv

-----------------------------------------------------------------------------
(* Theorems *)

\* The inductive invariant of the tickets (services/support.py).
THEOREM Invariance == Spec => []IInv
<1>1. Init => IInv
  <2>1. Init => TypeOK
    BY DEF Init, TypeOK, Form, States, Cleared
  <2>2. ASSUME Init, NEW t \in Tickets PROVE TicketOK(t)
    BY <2>2 DEF Init, TicketOK
  <2>3. Init => FormsOK
    BY DEF Init, FormsOK, Cleared, Menu, Writers
  <2>. QED BY <2>1, <2>2, <2>3 DEF IInv
<1>. QED BY <1>1, StepIInv, PTL DEF Spec

\* Forms, messages being handled and tickets are of their types: a ticket's
\* subject is what the customer sent, whatever happened to the form meanwhile.
THEOREM TypeCorrect == Spec => []TypeOK
<1>1. IInv => TypeOK
  BY DEF IInv
<1>. QED BY <1>1, Invariance, PTL

\* Open tickets wait for staff, answered ones for the customer
\* (services/support.py:97, 186).
THEOREM StatusIsExact == Spec => []StatusTellsLastWriter
<1>1. IInv => StatusTellsLastWriter
  BY DEF IInv, TicketOK, StatusTellsLastWriter
<1>. QED BY <1>1, Invariance, PTL

\* No message in a customer's name is another user's (services/support.py:73).
THEOREM CustomersWriteTheirOwn == Spec => []WrittenByOwner
<1>1. IInv => WrittenByOwner
  BY DEF IInv, TicketOK, WrittenByOwner
<1>. QED BY <1>1, Invariance, PTL

\* A customer in the middle of a ticket may use the menu, whenever the form
\* changes under the message: the routers' order keeps it out of the ticket
\* (bot.py:43-50).
THEOREM MenuStaysOut == Spec => []MenuIsNotAMessage
<1>1. IInv => MenuIsNotAMessage
  BY DEF IInv, TicketOK, MenuIsNotAMessage
<1>. QED BY <1>1, Invariance, PTL

\* A closed ticket is never written to nor opened (services/support.py:83, 172).
THEOREM ClosedStaysClosed == Spec => ClosedIsFinal
<1>1. IInv /\ [Next]_vars =>
        [\A t \in Tickets : ticket[t].status = "closed" =>
            ticket'[t] = ticket[t] /\ transcript'[t] = transcript[t]]_vars
  <2>. SUFFICES ASSUME IInv, [Next]_vars, NEW t \in Tickets, ticket[t].status = "closed"
                PROVE  ticket'[t] = ticket[t] /\ transcript'[t] = transcript[t]
    OBVIOUS
  <2>1. ticket[t] \in Ticket /\ [ticket[t] EXCEPT !.status = "closed"] = ticket[t]
    BY DEF IInv, TypeOK, Ticket
  <2>2. Stepped(t)
    BY AllSteps DEF IInv
  <2>3. Created(t) => ticket[t] = NoTicket
    BY DEF Created
  <2>4. Written(t, "customer", "open") \/ Written(t, "staff", "answered")
          => ticket[t].status \in {"open", "answered"}
    BY Zenon DEF Written
  <2>. QED BY <2>1, <2>2, <2>3, <2>4 DEF Stepped, Kept, Closing
<1>. QED BY <1>1, Invariance, PTL DEF Spec, ClosedIsFinal
=============================================================================
