------------------------------- MODULE Staff -------------------------------
(***************************************************************************)
(* Staff accounts, roles and web sessions.                                 *)
(*                                                                         *)
(* A row of staff_admins gives one person a role, in Telegram by her id,   *)
(* on the web by a username and a password.  The owner is no row: he is    *)
(* named by the settings (TELEGRAM_OWNER_IDS, the API key, the owner's     *)
(* credentials).  A web login returns a signed token that names the row    *)
(* and the role it had; nothing revokes a token before it expires, so each *)
(* request must decide by the row as it is now.                            *)
(*                                                                         *)
(* A request is two steps, or three: it authenticates and loads a row,     *)
(* and it commits.  No staff row is locked in between.  The ORM writes     *)
(* the columns whose value differs from the one it loaded, and no others.  *)
(* Passwords are left out: who logs in, knows hers.                        *)
(***************************************************************************)
EXTENDS Naturals, FiniteSets

CONSTANTS
    Rows,        \* primary keys of staff_admins
    People,      \* Telegram ids
    OwnerIds,    \* TELEGRAM_OWNER_IDS
    Names,       \* usernames, stripped and casefolded
    Given,       \* the roles a request asks for (a bound; any role is legal)
    Invited,     \* the Telegram ids it may name (a bound; any id is legal)
    Asked,       \* the permissions that requests of other parts ask for
    MaxTokens,   \* a bound on the tokens that are valid at once
    Sessions,    \* the database sessions of requests in progress
    None

Role == {"owner", "admin", "sales", "finance", "support"}
StaffRole == Role \ {"owner"}

Permission ==
    {"view_dashboard", "view_users", "manage_users", "manage_plans",
     "view_orders", "manage_orders", "view_payments", "approve_payments",
     "manage_payment_methods", "manage_wallets", "manage_discounts",
     "manage_pasarguard", "manage_support", "view_audit_logs", "manage_admins"}

VARIABLES
    staff,     \* the row at each key, None before it is inserted
    tokens,    \* the claims of the tokens that have not expired
    form,      \* the role a person chose in StaffAddForm, None outside it
    work       \* the request each session serves, None when it serves none

vars == <<staff, tokens, form, work>>

-----------------------------------------------------------------------------
(* Rows, tokens and requests *)

Row == [telegram : People \cup {None}, username : Names \cup {None},
        role : StaffRole, active : BOOLEAN]

Blank == [telegram |-> None, username |-> None, role |-> None, active |-> None]

ASSUME StaffAssumption ==
    /\ OwnerIds \subseteq People
    /\ Given \subseteq Role
    /\ Invited \subseteq People
    /\ Asked \subseteq Permission \ {"manage_admins"}
    /\ None \notin Rows \cup People \cup Names \cup Role \cup Permission
    /\ None \notin BOOLEAN
    /\ None \notin Row

\* The owner's token names no row; the API key stands for one that never expires.
Claim == [staff : Rows \cup {None}, role : Role]
Owner == [staff |-> None, role |-> "owner"]

\* saw is the row as it was loaded, now the same object with the assignments of
\* the handler.  A request at "lookup" has not found its row yet; one at "form"
\* answers StaffAddForm and clears it when it has committed.
StaffRequest ==
    [by : Claim \cup People, may : {"manage_admins"}, row : Rows \cup {None},
     saw : Row \cup {Blank}, now : Row, step : {"lookup", "form", "ready"}]
OtherRequest ==
    [by : Claim \cup People, may : Permission \ {"manage_admins"}, row : {None},
     saw : {Blank}, now : {Blank}, step : {"ready"}]
Login == [row : Rows, saw : Row, may : {None}]

Existing == {i \in Rows : staff[i] # None}
ByTelegram(q) == {i \in Existing : q # None /\ staff[i].telegram = q}
ByUsername(n) == {i \in Existing : staff[i].username = n}

\* The row of a lookup that finds at most one, and the object it loads.
Found(is) == IF is = {} THEN None ELSE CHOOSE i \in is : TRUE
Loaded(i) == IF i = None THEN Blank ELSE staff[i]

-----------------------------------------------------------------------------
(* Rights *)

ROLE_PERMISSIONS ==
    [owner   |-> Permission,
     admin   |-> Permission \ {"manage_admins"},
     sales   |-> {"view_dashboard", "view_users", "manage_users",
                  "view_orders", "manage_orders"},
     finance |-> {"view_dashboard", "view_orders", "view_payments",
                  "approve_payments", "manage_wallets", "view_audit_logs"},
     support |-> {"view_dashboard", "view_users", "view_orders",
                  "manage_support"}]

get_admin_role(q) ==
    IF q \in OwnerIds THEN {"owner"}
    ELSE {staff[i].role : i \in {j \in ByTelegram(q) : staff[j].active}}

admin_has_permission(q, p) ==
    \E role \in get_admin_role(q) : p \in ROLE_PERMISSIONS[role]

\* Faulty: the role of the token, as it was at the login.
ClaimedRole(t) ==
    IF t.staff = None THEN {"owner"} \cap {t.role}
    ELSE {t.role : i \in {j \in Existing \cap {t.staff} :
                            staff[j].active /\ staff[j].username # None}}

web_role(t) ==
    IF t.staff = None THEN {"owner"} \cap {t.role}
    ELSE {staff[i].role : i \in {j \in Existing \cap {t.staff} :
                                   staff[j].active /\ staff[j].username # None}}

require_web_permission(t, p) ==
    \E role \in web_role(t) : p \in ROLE_PERMISSIONS[role]

\* Faulty: a request may make an owner of a staff row.
AnyRole(role) == role \in Role

MayGive(role) == role \in StaffRole

-----------------------------------------------------------------------------
(* Requests begin: they authenticate, ask for a permission and load a row *)

Begin(s, by, i, now, step) ==
    /\ work[s] = None
    /\ work' = [work EXCEPT ![s] =
                  [by |-> by, may |-> "manage_admins", row |-> i,
                   saw |-> Loaded(i), now |-> now, step |-> step]]

\* A request of another part of the program, of which only the right matters.
Other(s) ==
    /\ work[s] = None
    /\ \E by \in tokens \cup {Owner} \cup People, p \in Asked :
         /\ \/ by \in People /\ admin_has_permission(by, p)
            \/ by \notin People /\ require_web_permission(by, p)
         /\ work' = [work EXCEPT ![s] =
                       [by |-> by, may |-> p, row |-> None, saw |-> Blank,
                        now |-> Blank, step |-> "ready"]]
    /\ UNCHANGED <<staff, tokens, form>>

\* POST /admin/staff looks the username up; now keeps what the payload asks for.
create_staff(s) ==
    /\ \E t \in tokens \cup {Owner}, n \in Names, q \in Invited \cup {None},
          role \in Given :
         /\ require_web_permission(t, "manage_admins")
         /\ MayGive(role)
         /\ Begin(s, t, Found(ByUsername(n)),
                  [telegram |-> q, username |-> n, role |-> role, active |-> TRUE],
                  "lookup")
    /\ UNCHANGED <<staff, tokens, form>>

\* It looks the Telegram id up, refuses two different rows, and assigns.
upsert_web_staff_admin(s) ==
    /\ work[s] # None
    /\ work[s].may = "manage_admins"
    /\ work[s].step = "lookup"
    /\ LET r == work[s]
           other == Found(ByTelegram(r.now.telegram))
           i == IF r.row # None THEN r.row ELSE other
           saw == IF r.row # None THEN r.saw ELSE Loaded(other)
           telegram == IF r.now.telegram # None THEN r.now.telegram
                       ELSE saw.telegram
       IN work' = [work EXCEPT ![s] =
             IF r.row # None /\ other # None /\ r.row # other THEN None
             ELSE [r EXCEPT !.row = i, !.saw = saw, !.now.telegram = telegram,
                            !.step = "ready"]]
    /\ UNCHANGED <<staff, tokens, form>>

\* Only the password changes, which is not modelled: now is what was loaded.
change_staff_password(s) ==
    /\ \E t \in tokens \cup {Owner}, i \in Existing :
         /\ require_web_permission(t, "manage_admins")
         /\ staff[i].username # None
         /\ Begin(s, t, i, staff[i], "ready")
    /\ UNCHANGED <<staff, tokens, form>>

set_staff_status(s) ==
    /\ \E t \in tokens \cup {Owner}, i \in Existing, active \in BOOLEAN :
         /\ require_web_permission(t, "manage_admins")
         /\ Begin(s, t, i, [staff[i] EXCEPT !.active = active], "ready")
    /\ UNCHANGED <<staff, tokens, form>>

staff_toggle(s) ==
    /\ \E q \in People, i \in Existing :
         /\ admin_has_permission(q, "manage_admins")
         /\ Begin(s, q, i, [staff[i] EXCEPT !.active = ~staff[i].active], "ready")
    /\ UNCHANGED <<staff, tokens, form>>

staff_add_start(q) ==
    /\ admin_has_permission(q, "manage_admins")
    /\ form' = [form EXCEPT ![q] = None]
    /\ UNCHANGED <<staff, tokens, work>>

staff_role_selected(q) ==
    /\ admin_has_permission(q, "manage_admins")
    /\ \E role \in Given :
         /\ MayGive(role)
         /\ form' = [form EXCEPT ![q] = role]
    /\ UNCHANGED <<staff, tokens, work>>

\* The form's last answer; the existing row keeps its username.
staff_add_telegram_id(s) ==
    /\ \E q \in People, id \in Invited :
         /\ admin_has_permission(q, "manage_admins")
         /\ form[q] # None
         /\ LET i == Found(ByTelegram(id))
            IN Begin(s, q, i, [telegram |-> id, username |-> Loaded(i).username,
                               role |-> form[q], active |-> TRUE], "form")
    /\ UNCHANGED <<staff, tokens, form>>

\* authenticate_web_staff finds an active row with the username.
admin_login(s) ==
    /\ work[s] = None
    /\ \E n \in Names : \E i \in ByUsername(n) :
         /\ staff[i].active
         /\ work' = [work EXCEPT ![s] = [row |-> i, saw |-> staff[i], may |-> None]]
    /\ UNCHANGED <<staff, tokens, form>>

-----------------------------------------------------------------------------
(* Requests end: the transaction commits or is rolled back *)

\* Faulty: the whole object is written.
WriteAll(r, old, column) == r.now[column]

\* The UPDATE sets the columns that were changed after they were loaded.
Write(r, old, column) ==
    IF r.now[column] # r.saw[column] THEN r.now[column] ELSE old[column]

Written(r, old) ==
    [telegram |-> Write(r, old, "telegram"), username |-> Write(r, old, "username"),
     role |-> Write(r, old, "role"), active |-> Write(r, old, "active")]

\* The unique indexes on telegram_user_id and login_username.
Unique(i, row) ==
    \A j \in Existing \ {i} :
        /\ row.telegram = None \/ row.telegram # staff[j].telegram
        /\ row.username = None \/ row.username # staff[j].username

Commit(s) ==
    /\ work[s] # None
    /\ work[s].may = "manage_admins"
    /\ work[s].step # "lookup"
    /\ \E i \in IF work[s].row # None THEN {work[s].row} ELSE Rows \ Existing :
         LET row == Written(work[s], Loaded(work[s].row))
         IN /\ Unique(i, row)
            /\ staff' = [staff EXCEPT ![i] = row]
    /\ form' = [q \in People |->
                  IF work[s].step = "form" /\ q = work[s].by THEN None ELSE form[q]]
    /\ work' = [work EXCEPT ![s] = None]
    /\ UNCHANGED tokens

\* The login's token carries the role that was loaded.
CommitLogin(s) ==
    /\ work[s] # None
    /\ work[s].may = None
    /\ tokens' = tokens \cup {[staff |-> work[s].row, role |-> work[s].saw.role]}
    /\ Cardinality(tokens') <= MaxTokens
    /\ work' = [work EXCEPT ![s] = None]
    /\ UNCHANGED <<staff, form>>

\* A request without a change to staff ends, or any request fails: a unique
\* index refuses its row, its client leaves, the process stops.
End(s) ==
    /\ work[s] # None
    /\ work' = [work EXCEPT ![s] = None]
    /\ UNCHANGED <<staff, tokens, form>>

\* verify_session_token refuses a token after its time.
Expire(t) ==
    /\ tokens' = tokens \ {t}
    /\ UNCHANGED <<staff, form, work>>

-----------------------------------------------------------------------------
Init ==
    /\ staff = [i \in Rows |-> None]
    /\ tokens = {}
    /\ form = [q \in People |-> None]
    /\ work = [s \in Sessions |-> None]

Next ==
    \/ \E s \in Sessions :
         \/ Other(s)
         \/ create_staff(s)
         \/ upsert_web_staff_admin(s)
         \/ change_staff_password(s)
         \/ set_staff_status(s)
         \/ staff_toggle(s)
         \/ staff_add_telegram_id(s)
         \/ admin_login(s)
         \/ Commit(s)
         \/ CommitLogin(s)
         \/ End(s)
    \/ \E q \in People : staff_add_start(q) \/ staff_role_selected(q)
    \/ \E t \in tokens : Expire(t)

Spec == Init /\ [][Next]_vars

-----------------------------------------------------------------------------
(* Properties *)

\* The variables have their types: above all, no row has the role of the owner,
\* whichever of the two ways of making staff it came from
\* (services/admins.py upsert_staff_admin, upsert_web_staff_admin).
TypeOK ==
    /\ staff \in [Rows -> Row \cup {None}]
    /\ tokens \in SUBSET Claim
    /\ form \in [People -> StaffRole \cup {None}]
    /\ work \in [Sessions -> StaffRequest \cup OtherRequest \cup Login \cup {None}]

ByTheOwner(by) == by = Owner \/ by \in OwnerIds

Holder(i, by) ==
    \/ by \in Claim /\ by.staff = i
    \/ by \in People /\ staff[i].telegram = by

EntitledBy(i, by, p) ==
    /\ Holder(i, by)
    /\ staff[i].active
    /\ p # "manage_admins"
    /\ p \in ROLE_PERMISSIONS[staff[i].role]

\* A request begins only for the owner the settings name, or for somebody whose
\* row is active and has the right as it is committed now, whatever role her
\* token was issued for and whenever she was suspended or given another role; and
\* nobody with a row, however it came about, manages staff
\* (admin_panel.py _authenticate_web_admin, services/admins.py get_admin_role).
RightsAreCurrent ==
    [][\A s \in Sessions :
         (work[s] = None /\ work'[s] # None /\ work'[s].may # None)
         => \/ ByTheOwner(work'[s].by)
            \/ \E i \in Existing : EntitledBy(i, work'[s].by, work'[s].may)]_vars

Columns == {"telegram", "username", "role", "active"}

\* A change of a row stands until a request that read something else than it
\* writes asks for another one: a password change, a suspension or a form that
\* read the row before the change never puts the old value back, and so undoes
\* no suspension and no demotion (services/admins.py, which locks no row).
ChangesStand ==
    [][\A i \in Existing, c \in Columns :
         staff'[i][c] # staff[i][c]
         => \E s \in Sessions :
              /\ work[s] # None
              /\ work'[s] = None
              /\ work[s].row = i
              /\ work[s].saw[c] # staff'[i][c]]_vars
=============================================================================
