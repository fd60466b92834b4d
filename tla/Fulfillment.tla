---------------------------- MODULE Fulfillment ----------------------------
(***************************************************************************)
(* Delivering paid orders through the PasarGuard panels                    *)
(* (services/fulfillment.py, provisioning.py, subscriptions.py,            *)
(* pasarguard_instances.py, integrations/pasarguard.py).                   *)
(*                                                                         *)
(* A new order creates a reseller: an admin on a panel, an account row and *)
(* a subscription row.  The three are named by that order, which is unique *)
(* in each.  Renewals and top-ups change the quota of a reseller.          *)
(*                                                                         *)
(* A handler is a session with three steps: it loads the order, then the   *)
(* account and the panel, then locks the order row, calls the panel and    *)
(* commits.  Locking does not refresh what the session has loaded.  The    *)
(* call can fail, can be applied although its reply is lost, and the       *)
(* process can die after it.                                               *)
(*                                                                         *)
(* "Faulty" marks definitions that are not part of the model: they are the *)
(* definition below with a bug, to show that a property notices it.        *)
(***************************************************************************)
EXTENDS Naturals, FiniteSets, Functions

CONSTANTS
    Resellers,  \* orders of kind "new", and what they create
    Renewals, Topups,
    Target,     \* the reseller of each renewal and top-up
    Quota,      \* quota_bytes of each order, 0 when unlimited
    Panels,     \* PasarGuard instances, the global one included
    AdminIds,   \* bound: ids a panel hands out
    Sessions,   \* requests and updates handled at the same time
    AllowRepay  \* whether Checkout may verify a second payment of an order

Changes == Renewals \cup Topups
Orders == Resellers \cup Changes

NoId == "unknown"   \* pasarguard_admin_id is NULL

ASSUME FulfillmentAssumption ==
    /\ IsFiniteSet(Orders)
    /\ Resellers \cap Changes = {} /\ Renewals \cap Topups = {}
    /\ Target \in [Changes -> Resellers]
    /\ Quota \in [Orders -> Nat]
    /\ NoId \notin AdminIds

VARIABLES
    status,        \* orders.status
    account,       \* the pasarguard_accounts table
    subscription,  \* the subscriptions table
    remote,        \* admins on each panel, by username; external
    sess           \* what each session has loaded

vars == <<status, account, subscription, remote, sess>>
rows == <<status, account, subscription>>

-----------------------------------------------------------------------------
(* Rows *)

NoAccount == [panel |-> "none"]
NoSubscription == [status |-> "none"]
NoAdmin == [id |-> "none"]

Idle == [stage |-> "idle"]

\* The unit of work writes a column only if the session changed its copy.
Flush(stored, seen, new) == IF new = seen THEN stored ELSE new

CombinedQuota(current, added) ==
    IF current = 0 \/ added = 0 THEN 0 ELSE current + added

Life == INSTANCE OrderLifecycle

Init ==
    /\ Life!Init
    /\ account = [r \in Resellers |-> NoAccount]
    /\ subscription = [r \in Resellers |-> NoSubscription]
    /\ remote = [p \in Panels |-> [r \in Resellers |-> NoAdmin]]
    /\ sess = [s \in Sessions |-> Idle]

-----------------------------------------------------------------------------
(* The panels, as integrations/pasarguard.py sees them *)

Holds(p, r, id) == remote[p][r] # NoAdmin /\ remote[p][r].id = id
Known(p, id) == \E r \in Resellers : Holds(p, r, id)

\* An id is free once its admin is gone: a panel restored from a backup hands
\* ids out again, which _repair_admin_id_collision is there for.
FreeIds(p) == {id \in AdminIds : ~Known(p, id)}

ModifyAdminById(p, id, limit) ==
    remote' = [remote EXCEPT ![p] = [r \in Resellers |->
                 IF Holds(p, r, id) THEN [id |-> id, limit |-> limit] ELSE @[r]]]

\* Faulty: the answer's id is used without a look at whether there is one.
IdsAnswered(p, r) == {remote[p][r].id}

\* The admin is looked up by username, changed if it exists, else created.
EnsuredIds(p, r) == IF remote[p][r] = NoAdmin THEN FreeIds(p) ELSE {remote[p][r].id}
EnsureAdmin(p, r, id) ==
    remote' = [remote EXCEPT ![p][r] = [id |-> id, limit |-> Quota[r]]]

\* An operator deletes an admin on the panel, or restores an older backup.
PanelLosesAdmin(p, r) ==
    /\ remote[p][r] # NoAdmin
    /\ remote' = [remote EXCEPT ![p][r] = NoAdmin]
    /\ UNCHANGED <<rows, sess>>

-----------------------------------------------------------------------------
(* The rest of the shop: orders are placed, paid and canceled (Checkout) *)

Shop ==
    /\ \E o \in Orders :
         \/ Life!Place(o) /\ (o \in Changes => account[Target[o]] # NoAccount)
         \/ Life!Pay(o)
         \/ Life!Cancel(o)
         \/ Life!Repay(o)
    /\ UNCHANGED <<account, subscription, remote, sess>>

-----------------------------------------------------------------------------
(* What a handler loads before it locks *)

\* fulfill_paid_order, _run_provisioning and the reissue handlers.
LoadOrder(s, o, work) ==
    /\ sess[s] = Idle
    /\ status[o] # "absent"
    /\ sess' = [sess EXCEPT ![s] = [stage |-> "order", work |-> work, order |-> o,
                                    status |-> status[o]]]
    /\ UNCHANGED <<rows, remote>>

ResellerOf(o) == IF o \in Resellers THEN o ELSE Target[o]

\* Faulty: the panel is selected anew for every order.
RoutedAnew(r) == Panels

\* target_for_account, and select_for_new_order when there is no account yet:
\* any panel may be the first healthy one of the weighted order.
RoutedPanels(r) == IF account[r] = NoAccount THEN Panels ELSE {account[r].panel}

LoadAccount(s) ==
    LET r == ResellerOf(sess[s].order) IN
    /\ sess[s].stage = "order"
    /\ account[r] = NoAccount => sess[s].order \in Resellers /\ sess[s].work = "fulfill"
    /\ \E p \in RoutedPanels(r) :
         sess' = [sess EXCEPT ![s] =
                    [stage |-> "ready", work |-> @.work, order |-> @.order,
                     status |-> @.status, account |-> account[r],
                     subscription |-> subscription[r], panel |-> p]]
    /\ UNCHANGED <<rows, remote>>

\* The account the session works on: the service queries it again, which finds
\* a row inserted since but does not refresh one already loaded.
Seen(s) == IF sess[s].account = NoAccount THEN account[ResellerOf(sess[s].order)]
           ELSE sess[s].account

HasAdmin(row) == row # NoAccount /\ row.admin # NoId

Working(s, work, kinds) ==
    /\ sess[s].stage = "ready" /\ sess[s].work = work /\ sess[s].order \in kinds
    /\ sess' = [sess EXCEPT ![s] = Idle]

\* The handler raises and rolls back, or the process dies.
RolledBack == UNCHANGED rows

SetStatus(o, seen, new) ==
    status' = [status EXCEPT ![o] = Flush(@, seen, new)]
SetQuota(r, seen, new) ==
    account' = [account EXCEPT ![r].quota = Flush(@, seen, new)]

-----------------------------------------------------------------------------
(* services/provisioning.py *)

\* The order has its account: the panel is asked to set the quota again.
SyncQuota(s) ==
    LET r == sess[s].order
        seen == Seen(s)
    IN  /\ Working(s, "fulfill", Resellers)
        /\ HasAdmin(seen)
        /\ \/ /\ Known(sess[s].panel, seen.admin)
              /\ ModifyAdminById(sess[s].panel, seen.admin, Quota[r])
              /\ \/ RolledBack
                 \/ /\ SetQuota(r, seen.quota, Quota[r])
                    /\ subscription' = [subscription EXCEPT
                          ![r] = [status |-> "active", quota |-> Quota[r]]]
                    /\ SetStatus(r, sess[s].status, "completed")
           \/ RolledBack /\ UNCHANGED remote

Collision(p, r, id) == {c \in Resellers \ {r} :
    account[c] # NoAccount /\ account[c].panel = p /\ account[c].admin = id}

\* Faulty: the account that loses its admin keeps an active subscription.
InsertKeepingActive(p, r, id) ==
    /\ account' = [x \in Resellers |->
         IF x = r THEN [panel |-> p, admin |-> id, quota |-> Quota[r]]
         ELSE IF x \in Collision(p, r, id) THEN [account[x] EXCEPT !.admin = NoId]
         ELSE account[x]]
    /\ subscription' = [subscription EXCEPT
         ![r] = [status |-> "active", quota |-> Quota[r]]]

\* Faulty: an id that another account still records is not looked for.
InsertUnlooked(p, r, id) ==
    /\ account' = [account EXCEPT
         ![r] = [panel |-> p, admin |-> id, quota |-> Quota[r]]]
    /\ subscription' = [subscription EXCEPT
         ![r] = [status |-> "active", quota |-> Quota[r]]]

\* The new account and its subscription.  An account that still records the id
\* gets the id of its own username, or none (_repair_admin_id_collision).
InsertAccount(p, r, id) ==
    LET new    == [panel |-> p, admin |-> id, quota |-> Quota[r]]
        active == [status |-> "active", quota |-> Quota[r]]
    IN  \/ /\ Collision(p, r, id) = {}
           /\ account' = [account EXCEPT ![r] = new]
           /\ subscription' = [subscription EXCEPT ![r] = active]
        \/ \E c \in Collision(p, r, id) :
             \/ /\ remote[p][c] # NoAdmin
                /\ remote[p][c].id # id
                /\ Collision(p, c, remote[p][c].id) = {}
                /\ account' = [account EXCEPT ![r] = new, ![c].admin = remote[p][c].id]
                /\ subscription' = [subscription EXCEPT ![r] = active]
             \/ /\ remote[p][c] = NoAdmin
                /\ account' = [account EXCEPT ![r] = new, ![c].admin = NoId]
                /\ subscription' = [subscription EXCEPT
                     ![r] = active,
                     ![c].status = IF @ = "active" THEN "suspended" ELSE @]

\* Faulty: an order is provisioned whatever its status.
AnyStatus(seen) == TRUE

Deliverable(seen) == seen \in {"paid", "provisioning", "failed"}

\* The order has no account, or one whose admin is unknown: then the INSERT
\* violates the uniqueness of order_id and everything but the panel rolls back.
Provision(s) ==
    LET r == sess[s].order
        p == sess[s].panel
    IN  /\ Working(s, "fulfill", Resellers)
        /\ ~HasAdmin(Seen(s))
        /\ Deliverable(sess[s].status)
        /\ \/ \E id \in EnsuredIds(p, r) :
                /\ EnsureAdmin(p, r, id)
                /\ \/ RolledBack
                   \/ /\ status' = [status EXCEPT ![r] = "failed"]
                      /\ UNCHANGED <<account, subscription>>
                   \/ /\ Seen(s) = NoAccount
                      /\ InsertAccount(p, r, id)
                      /\ status' = [status EXCEPT ![r] = "completed"]
           \/ /\ status' = [status EXCEPT ![r] = "failed"]
              /\ UNCHANGED <<account, subscription, remote>>

\* reissue_credentials: no status is required and no collision repaired, so the
\* unique index on (instance, admin id) refuses an id another account records.
Reissue(s) ==
    LET r == sess[s].order
        p == sess[s].panel
        seen == Seen(s)
    IN  /\ Working(s, "reissue", Resellers)
        /\ \/ \E id \in EnsuredIds(p, r) :
                /\ EnsureAdmin(p, r, id)
                /\ \/ RolledBack
                   \/ /\ Collision(p, r, id) = {}
                      /\ account' = [account EXCEPT ![r] =
                            [panel |-> Flush(@.panel, seen.panel, p),
                             admin |-> Flush(@.admin, seen.admin, id),
                             quota |-> Flush(@.quota, seen.quota, Quota[r])]]
                      /\ SetStatus(r, sess[s].status, "completed")
                      /\ UNCHANGED subscription
           \/ RolledBack /\ UNCHANGED remote

-----------------------------------------------------------------------------
(* services/subscriptions.py *)

\* Faulty: a top-up adds to what the subscription shows as well.
QuotaAddedTwice(o, current) ==
    IF o \in Topups THEN CombinedQuota(CombinedQuota(current, Quota[o]), Quota[o])
    ELSE Quota[o]

QuotaAfter(o, current) ==
    IF o \in Topups THEN CombinedQuota(current, Quota[o]) ELSE Quota[o]

\* apply_paid_lifecycle_order: the order is flushed as "provisioning" on the
\* way, so its outcome is always written.
ApplyChange(s) ==
    LET o == sess[s].order
        r == ResellerOf(o)
        seen == Seen(s)
        new == QuotaAfter(o, seen.quota)
    IN  /\ Working(s, "fulfill", Changes)
        /\ Deliverable(sess[s].status)
        /\ HasAdmin(seen)
        /\ \/ /\ Known(sess[s].panel, seen.admin)
              /\ ModifyAdminById(sess[s].panel, seen.admin, new)
              /\ \/ RolledBack
                 \/ /\ status' = [status EXCEPT ![o] = "failed"]
                    /\ UNCHANGED <<account, subscription>>
                 \/ /\ SetQuota(r, seen.quota, new)
                    /\ subscription' = [subscription EXCEPT ![r] =
                          [status |-> Flush(@.status, sess[s].subscription.status,
                                            "active"),
                           quota |-> Flush(@.quota, sess[s].subscription.quota, new)]]
                    /\ status' = [status EXCEPT ![o] = "completed"]
           \/ /\ status' = [status EXCEPT ![o] = "failed"]
              /\ UNCHANGED <<account, subscription, remote>>

\* The handler raises before it calls the panel, or finds the order completed.
GiveUp(s) ==
    /\ sess[s] # Idle
    /\ sess' = [sess EXCEPT ![s] = Idle]
    /\ UNCHANGED <<rows, remote>>

-----------------------------------------------------------------------------
Next ==
    \/ Shop
    \/ \E p \in Panels, r \in Resellers : PanelLosesAdmin(p, r)
    \/ \E s \in Sessions :
         \/ \E o \in Orders : LoadOrder(s, o, "fulfill")
         \/ \E r \in Resellers : LoadOrder(s, r, "reissue")
         \/ LoadAccount(s)
         \/ SyncQuota(s)
         \/ Provision(s)
         \/ Reissue(s)
         \/ ApplyChange(s)
         \/ GiveUp(s)

Spec == Init /\ [][Next]_vars

-----------------------------------------------------------------------------
(* What fulfillment promises *)

Account == [panel : Panels, admin : AdminIds \cup {NoId}, quota : Nat]
Subscription == [status : {"active", "suspended"}, quota : Nat]

\* The rows and the panels' admins are of the types the code declares.
TypeOK ==
    /\ status \in [Orders -> {"absent", "canceled"} \cup Life!Unpaid \cup Life!Settled]
    /\ account \in [Resellers -> Account \cup {NoAccount}]
    /\ subscription \in [Resellers -> Subscription \cup {NoSubscription}]
    /\ remote \in [Panels -> [Resellers -> [id : AdminIds, limit : Nat] \cup {NoAdmin}]]

\* docs/operations.md:130-132: an account never moves to another panel, although
\* retries and reissues choose a target each time
\* (services/pasarguard_instances.py:210-227, provisioning.py:292).
AccountsStayPinned == [][\A r \in Resellers :
    account[r] # NoAccount => account'[r] # NoAccount
                              /\ account'[r].panel = account[r].panel]_vars

\* A subscription is active only while its account has an admin: the repair of
\* an id collision suspends what it disconnects, and only a delivery that found
\* an admin activates it again (services/provisioning.py:198-212, 356-366).
ActiveHasAdmin == \A r \in Resellers :
    subscription[r].status = "active"
    => HasAdmin(account[r])

\* No two accounts of a panel record one admin: provisioning moves or clears the
\* other account's id before it inserts its own, and so never runs into the
\* unique index on (instance, admin id) (services/provisioning.py:164-215,
\* 427-466, migrations/versions/0003_commerce_and_instances.py:121-136).
AdminsAreUnique == \A x, y \in Resellers :
    /\ x # y
    /\ HasAdmin(account[x]) /\ HasAdmin(account[y])
    /\ account[x].panel = account[y].panel
    => account[x].admin # account[y].admin

\* Every step of a handler, retries and lost replies included, is one the life
\* cycle of an order allows: nothing unpaid is delivered, nothing delivered
\* fails afterwards (services/provisioning.py:377-393, subscriptions.py:138-144).
FollowsLifecycle == Life!Spec

PaidChanges(r, kind) ==
    {o \in kind : Target[o] = r /\ status[o] \in Life!Settled}
QuotaSum(S) == SumFunctionOnSet(Quota, S)

\* However often fulfillment is retried after failures and lost replies, the
\* account holds no more than was paid for: the reseller's plan or its renewal,
\* and each top-up once (services/subscriptions.py:138-193).
QuotaIsPaidFor == \A r \in Resellers : account[r] # NoAccount =>
    LET plans == {r} \cup PaidChanges(r, Renewals)
        added == PaidChanges(r, Topups)
        quota == account[r].quota
    IN  IF quota = 0 THEN \E o \in plans \cup added : Quota[o] = 0
        ELSE \E o \in plans : quota <= Quota[o] + QuotaSum(added)

-----------------------------------------------------------------------------
(* What the documentation says and the code does not keep *)

\* README.md:24: "retries do not create duplicate reseller accounts".
OneResellerPerOrder == \A r \in Resellers :
    Cardinality({p \in Panels : remote[p][r] # NoAdmin}) <= 1

\* docs/operations.md:122: fulfillment retries are "designed to be idempotent":
\* none takes back a top-up that was delivered.
TopupsAreKept == \A r \in Resellers :
    /\ account[r] # NoAccount /\ account[r].quota # 0
    /\ PaidChanges(r, Renewals) = {}
    => account[r].quota >= Quota[r]
         + QuotaSum({o \in Topups : Target[o] = r /\ status[o] = "completed"})
=============================================================================
