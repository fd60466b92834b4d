------------------------- MODULE FulfillmentProofs -------------------------
(***************************************************************************)
(* Proofs about Fulfillment, for any numbers of resellers, changes, panels *)
(* and concurrent sessions: the rows keep their types, an account stays on *)
(* its panel, and no two accounts of a panel record one admin, whatever    *)
(* stale copies the sessions decide from.                                  *)
(***************************************************************************)
EXTENDS Fulfillment, SumTheorems, TLAPS

-----------------------------------------------------------------------------
(* The inductive invariant *)

Statuses == {"absent", "canceled"} \cup Life!Unpaid \cup Life!Settled

\* An account always comes with its subscription.
SubscriptionsExist == \A r \in Resellers :
    account[r] # NoAccount => subscription[r] # NoSubscription

\* What a session that is about to finish has loaded.  The copy of an account
\* can be out of date in every column but the panel, which never changes.
ReadyOK(s) ==
    /\ sess[s].panel \in Panels
    /\ sess[s].account \in Account \cup {NoAccount}
    /\ sess[s].account = NoAccount => sess[s].order \in Resellers
                                      /\ sess[s].work = "fulfill"
    /\ sess[s].account # NoAccount =>
         /\ sess[s].account.panel = sess[s].panel
         /\ account[ResellerOf(sess[s].order)] # NoAccount
         /\ account[ResellerOf(sess[s].order)].panel = sess[s].panel

SessionOK(s) ==
    /\ sess[s].stage \in {"idle", "order", "ready"}
    /\ sess[s].stage # "idle" => sess[s].order \in Orders
                                 /\ sess[s].status \in Statuses
    /\ sess[s].stage = "ready" => ReadyOK(s)

SessionsOK ==
    /\ sess = [s \in Sessions |-> sess[s]]
    /\ \A s \in Sessions : SessionOK(s)

RowsOK == TypeOK /\ SubscriptionsExist /\ AdminsAreUnique
IInv == RowsOK /\ SessionsOK

\* No step removes an account or moves it to another panel.
Pinned == \A r \in Resellers :
    account[r] # NoAccount => account'[r] # NoAccount
                              /\ account'[r].panel = account[r].panel
-----------------------------------------------------------------------------
(* Types *)

\* The panels' admins stay typed, whichever admin is changed or created.
LEMMA ModifyTyped ==
  ASSUME TypeOK, NEW p \in Panels, NEW id, NEW limit \in Nat,
         ModifyAdminById(p, id, limit)
  PROVE  remote' \in [Panels -> [Resellers -> [id : AdminIds, limit : Nat]
                                               \cup {NoAdmin}]]
<1>. DEFINE Admins == [id : AdminIds, limit : Nat]
            new == [r \in Resellers |->
                      IF Holds(p, r, id) THEN [id |-> id, limit |-> limit]
                      ELSE remote[p][r]]
<1>1. remote \in [Panels -> [Resellers -> Admins \cup {NoAdmin}]]
  BY DEF TypeOK
<1>2. ASSUME NEW r \in Resellers PROVE new[r] \in Admins \cup {NoAdmin}
  <2>1. remote[p][r] \in Admins \cup {NoAdmin}
    BY <1>1
  <2>2. CASE Holds(p, r, id)
    <3>1. remote[p][r] \in Admins
      BY <2>1, <2>2 DEF Holds
    <3>2. id \in AdminIds
      BY <2>2, <3>1 DEF Holds
    <3>. QED
      BY <2>2, <3>2
  <2>. QED
    BY <2>1, <2>2
<1>3. new \in [Resellers -> Admins \cup {NoAdmin}]
  BY <1>2
<1>4. remote' = [remote EXCEPT ![p] = new]
  BY <1>1 DEF ModifyAdminById
<1>. HIDE DEF new, Admins
<1>5. remote' \in [Panels -> [Resellers -> Admins \cup {NoAdmin}]]
  BY <1>1, <1>3, <1>4
<1>. QED
  BY <1>5 DEF Admins

LEMMA EnsureTyped ==
  ASSUME TypeOK, NEW p \in Panels, NEW r \in Resellers, NEW id \in EnsuredIds(p, r),
         EnsureAdmin(p, r, id)
  PROVE  /\ id \in AdminIds
         /\ remote' \in [Panels -> [Resellers -> [id : AdminIds, limit : Nat]
                                                  \cup {NoAdmin}]]
<1>. DEFINE Admins == [id : AdminIds, limit : Nat]
<1>1. remote \in [Panels -> [Resellers -> Admins \cup {NoAdmin}]]
  BY DEF TypeOK
<1>2. remote[p][r] \in Admins \cup {NoAdmin}
  BY <1>1
<1>3. id \in AdminIds
  BY <1>2 DEF EnsuredIds, FreeIds
<1>4. Quota[r] \in Nat
  BY FulfillmentAssumption DEF Orders
<1>5. [id |-> id, limit |-> Quota[r]] \in Admins
  BY <1>3, <1>4
<1>6. remote' = [remote EXCEPT ![p][r] = [id |-> id, limit |-> Quota[r]]]
  BY DEF EnsureAdmin
<1>. HIDE DEF Admins
<1>7. remote' \in [Panels -> [Resellers -> Admins \cup {NoAdmin}]]
  BY <1>1, <1>5, <1>6
<1>. QED
  BY <1>3, <1>7 DEF Admins

\* A status is written only with a status.
LEMMA StatusTyped ==
  ASSUME TypeOK, NEW o \in Orders, NEW seen, NEW new \in Statuses,
         \/ SetStatus(o, seen, new)
         \/ status' = [status EXCEPT ![o] = new]
  PROVE  status' \in [Orders -> Statuses]
<1>1. status \in [Orders -> Statuses]
  BY DEF TypeOK, Statuses
<1>. QED
  BY <1>1 DEF SetStatus, Flush

LEMMA StatusNames ==
  {"completed", "failed"} \subseteq Statuses
  BY DEF Statuses, Life!Settled

\* A quota column is written only with a quota, and nothing else of the row.
LEMMA QuotaTyped ==
  ASSUME TypeOK, NEW r \in Resellers, account[r] # NoAccount,
         NEW seen, NEW new \in Nat, SetQuota(r, seen, new)
  PROVE  /\ account' \in [Resellers -> Account \cup {NoAccount}]
         /\ \A x \in Resellers :
              /\ account'[x] = NoAccount <=> account[x] = NoAccount
              /\ account'[x].panel = account[x].panel
              /\ account'[x].admin = account[x].admin
<1>1. account \in [Resellers -> Account \cup {NoAccount}]
  BY DEF TypeOK
<1>2. account[r] \in Account
  BY <1>1
<1>3. PICK q \in Nat : account' = [account EXCEPT ![r] = [account[r] EXCEPT !.quota = q]]
  <2>1. Flush(account[r].quota, seen, new) \in Nat
    BY <1>2 DEF Flush, Account
  <2>. QED
    BY <1>1, <2>1 DEF SetQuota
<1>4. /\ [account[r] EXCEPT !.quota = q] \in Account
      /\ [account[r] EXCEPT !.quota = q].panel = account[r].panel
      /\ [account[r] EXCEPT !.quota = q].admin = account[r].admin
  BY <1>2 DEF Account
<1>5. [account[r] EXCEPT !.quota = q] # NoAccount
  BY <1>2 DEF Account, NoAccount
<1>. QED
  BY <1>1, <1>3, <1>4, <1>5
-----------------------------------------------------------------------------
(* A new account *)

Replaced(r, new, c, a) == account' = [account EXCEPT ![r] = new, ![c].admin = a]

\* A row that gets its first account, and another that has only its admin id
\* replaced, leave every account typed and on its panel.
LEMMA ReplaceAdmin ==
  ASSUME TypeOK, NEW r \in Resellers, NEW c \in Resellers, c # r,
         account[r] = NoAccount, account[c] # NoAccount,
         NEW new \in Account, NEW a \in AdminIds \cup {NoId},
         Replaced(r, new, c, a)
  PROVE  /\ account' \in [Resellers -> Account \cup {NoAccount}]
         /\ account'[r] = new
         /\ account'[c].panel = account[c].panel
         /\ account'[c].admin = a
         /\ account'[c].quota = account[c].quota
         /\ \A x \in Resellers \ {r, c} : account'[x] = account[x]
         /\ \A x \in Resellers : account'[x] = NoAccount => account[x] = NoAccount
<1>1. account \in [Resellers -> Account \cup {NoAccount}]
  BY DEF TypeOK
<1>2. account[c] \in Account
  BY <1>1
<1>. DEFINE moved == [account[c] EXCEPT !.admin = a]
<1>3. /\ moved \in Account
      /\ moved.panel = account[c].panel
      /\ moved.admin = a
      /\ moved.quota = account[c].quota
  BY <1>2 DEF Account
<1>4. moved # NoAccount
  BY <1>3 DEF Account, NoAccount
<1>5. account' = [account EXCEPT ![r] = new, ![c] = moved]
  BY <1>1 DEF Replaced
<1>. HIDE DEF moved
<1>. QED
  BY <1>1, <1>3, <1>4, <1>5

LEMMA InsertRows ==
  ASSUME RowsOK, NEW p \in Panels, NEW r \in Resellers, NEW id \in AdminIds,
         account[r] = NoAccount, InsertAccount(p, r, id)
  PROVE  /\ account' \in [Resellers -> Account \cup {NoAccount}]
         /\ subscription' \in [Resellers -> Subscription \cup {NoSubscription}]
         /\ SubscriptionsExist'
         /\ AdminsAreUnique'
         /\ Pinned
<1>. DEFINE new    == [panel |-> p, admin |-> id, quota |-> Quota[r]]
            active == [status |-> "active", quota |-> Quota[r]]
<1>1. TypeOK /\ SubscriptionsExist /\ AdminsAreUnique
  BY DEF RowsOK
<1>2. /\ account \in [Resellers -> Account \cup {NoAccount}]
      /\ subscription \in [Resellers -> Subscription \cup {NoSubscription}]
      /\ remote \in [Panels -> [Resellers -> [id : AdminIds, limit : Nat]
                                             \cup {NoAdmin}]]
  BY <1>1 DEF TypeOK
<1>3. Quota[r] \in Nat
  BY FulfillmentAssumption DEF Orders
<1>4. /\ new \in Account
      /\ new.panel = p
      /\ new.admin = id
      /\ active \in Subscription
  BY <1>3 DEF Account, Subscription
<1>5. new # NoAccount /\ active # NoSubscription
  BY DEF NoAccount, NoSubscription
<1>. HIDE DEF new, active
<1>6. CASE /\ Collision(p, r, id) = {}
           /\ account' = [account EXCEPT ![r] = new]
           /\ subscription' = [subscription EXCEPT ![r] = active]
  <2>1. \A x \in Resellers \ {r} :
          HasAdmin(account[x]) /\ account[x].panel = p => account[x].admin # id
    BY <1>6 DEF Collision, HasAdmin
  <2>2. \A x \in Resellers \ {r} : account'[x] = account[x]
    BY <1>6, <1>2
  <2>3. account'[r] = new
    BY <1>6, <1>2
  <2>4. AdminsAreUnique'
    BY <1>1, <1>4, <2>1, <2>2, <2>3 DEF AdminsAreUnique, HasAdmin
  <2>5. Pinned
    BY <1>5, <2>2, <2>3 DEF Pinned
  <2>6. SubscriptionsExist'
    BY <1>1, <1>2, <1>5, <1>6, <2>2 DEF SubscriptionsExist
  <2>. QED
    BY <1>2, <1>4, <1>6, <2>4, <2>5, <2>6
<1>. DEFINE Goal == /\ account' \in [Resellers -> Account \cup {NoAccount}]
                    /\ subscription' \in [Resellers -> Subscription \cup {NoSubscription}]
                    /\ SubscriptionsExist' /\ AdminsAreUnique' /\ Pinned
<1>7. ASSUME NEW c \in Collision(p, r, id),
             remote[p][c] # NoAdmin,
             remote[p][c].id # id,
             Collision(p, c, remote[p][c].id) = {},
             account' = [account EXCEPT ![r] = new, ![c].admin = remote[p][c].id],
             subscription' = [subscription EXCEPT ![r] = active]
      PROVE  Goal
  <2>1. /\ c \in Resellers /\ c # r
        /\ account[c] # NoAccount /\ account[c].panel = p /\ account[c].admin = id
    BY <1>7 DEF Collision
  <2>2. PICK other \in AdminIds : other = remote[p][c].id
    BY <1>2, <1>7, <2>1
  <2>3. /\ other # id
        /\ Collision(p, c, other) = {}
        /\ Replaced(r, new, c, other)
    BY <1>7, <2>2 DEF Replaced
  <2>4. /\ account' \in [Resellers -> Account \cup {NoAccount}]
        /\ account'[r] = new
        /\ account'[c].panel = p
        /\ account'[c].admin = other
        /\ \A x \in Resellers \ {r, c} : account'[x] = account[x]
        /\ \A x \in Resellers : account'[x] = NoAccount => account[x] = NoAccount
    BY <1>1, <1>4, <2>1, <2>2, <2>3, ReplaceAdmin
  <2>5. \A x \in Resellers \ {r, c} :
          HasAdmin(account[x]) /\ account[x].panel = p
          => account[x].admin # id /\ account[x].admin # other
    <3>1. ASSUME NEW x \in Resellers \ {r, c}, HasAdmin(account[x]),
                 account[x].panel = p
          PROVE  account[x].admin # other
      BY <2>3, <3>1 DEF Collision, HasAdmin
    <3>2. ASSUME NEW x \in Resellers \ {r, c}, HasAdmin(account[x]),
                 account[x].panel = p
          PROVE  account[x].admin # id
      <4>1. HasAdmin(account[c]) \/ id = NoId
        BY <2>1 DEF HasAdmin
      <4>. QED
        BY <1>1, <2>1, <3>2, <4>1 DEF AdminsAreUnique, HasAdmin
    <3>. QED
      BY <3>1, <3>2
  <2>6. AdminsAreUnique'
    BY <1>1, <1>4, <2>1, <2>3, <2>4, <2>5 DEF AdminsAreUnique, HasAdmin
  <2>7. Pinned
    BY <1>5, <2>1, <2>4 DEF Pinned
  <2>8. subscription' \in [Resellers -> Subscription \cup {NoSubscription}]
    BY <1>2, <1>4, <1>7
  <2>9. \A x \in Resellers :
          subscription'[x] = IF x = r THEN active ELSE subscription[x]
    BY <1>2, <1>7
  <2>10. SubscriptionsExist'
    BY <1>1, <1>5, <2>1, <2>4, <2>9 DEF SubscriptionsExist
  <2>. QED
    BY <2>4, <2>6, <2>7, <2>8, <2>10
<1>8. ASSUME NEW c \in Collision(p, r, id),
             account' = [account EXCEPT ![r] = new, ![c].admin = NoId],
             subscription' = [subscription EXCEPT
                                ![r] = active,
                                ![c].status = IF @ = "active" THEN "suspended" ELSE @]
      PROVE  Goal
  <2>1. /\ c \in Resellers /\ c # r
        /\ account[c] # NoAccount /\ account[c].panel = p /\ account[c].admin = id
    BY <1>8 DEF Collision
  <2>2. NoId \in AdminIds \cup {NoId} /\ Replaced(r, new, c, NoId)
    BY <1>8 DEF Replaced
  <2>3. /\ account' \in [Resellers -> Account \cup {NoAccount}]
        /\ account'[r] = new
        /\ account'[c].panel = p
        /\ account'[c].admin = NoId
        /\ \A x \in Resellers \ {r, c} : account'[x] = account[x]
        /\ \A x \in Resellers : account'[x] = NoAccount => account[x] = NoAccount
    BY <1>1, <1>4, <2>1, <2>2, ReplaceAdmin
  <2>4. ASSUME NEW x \in Resellers \ {r, c}, HasAdmin(account[x]),
               account[x].panel = p
        PROVE  account[x].admin # id
    <3>1. HasAdmin(account[c]) \/ id = NoId
      BY <2>1 DEF HasAdmin
    <3>. QED
      BY <1>1, <2>1, <2>4, <3>1 DEF AdminsAreUnique, HasAdmin
  <2>5. AdminsAreUnique'
    BY <1>1, <1>4, <2>1, <2>3, <2>4 DEF AdminsAreUnique, HasAdmin
  <2>6. Pinned
    BY <1>5, <2>1, <2>3 DEF Pinned
  <2>7. subscription[c] \in Subscription
    BY <1>1, <1>2, <2>1 DEF SubscriptionsExist
  <2>8. PICK st \in {"active", "suspended"} :
          subscription' = [subscription EXCEPT
                             ![r] = active,
                             ![c] = [subscription[c] EXCEPT !.status = st]]
    <3>1. subscription[c].status \in {"active", "suspended"}
      BY <2>7 DEF Subscription
    <3>2. CASE subscription[c].status = "active"
      BY <1>2, <1>8, <2>1, <2>7, <3>2
    <3>3. CASE subscription[c].status = "suspended"
      BY <1>2, <1>8, <2>1, <2>7, <3>3
    <3>. QED
      BY <3>1, <3>2, <3>3
  <2>9. /\ [subscription[c] EXCEPT !.status = st] \in Subscription
        /\ [subscription[c] EXCEPT !.status = st] # NoSubscription
    BY <2>7 DEF Subscription, NoSubscription
  <2>10. subscription' \in [Resellers -> Subscription \cup {NoSubscription}]
    BY <1>2, <1>4, <2>8, <2>9
  <2>11. \A x \in Resellers :
           x # r /\ subscription[x] # NoSubscription => subscription'[x] # NoSubscription
    BY <1>2, <2>1, <2>8, <2>9
  <2>12. subscription'[r] = active
    BY <1>2, <2>1, <2>8
  <2>13. SubscriptionsExist'
    BY <1>1, <1>5, <2>1, <2>3, <2>11, <2>12 DEF SubscriptionsExist
  <2>. QED
    BY <2>3, <2>5, <2>6, <2>10, <2>13
<1>. QED
  BY <1>6, <1>7, <1>8 DEF InsertAccount, new, active
-----------------------------------------------------------------------------
(* Sessions *)

\* A session that ends leaves every other session's copies as good as before.
LEMMA FinishSessions ==
  ASSUME SessionsOK, NEW s \in Sessions, Pinned, sess' = [sess EXCEPT ![s] = Idle]
  PROVE  SessionsOK'
<1>1. /\ sess'[s] = Idle
      /\ \A t \in Sessions \ {s} : sess'[t] = sess[t]
      /\ sess' = [t \in Sessions |-> sess'[t]]
  BY DEF SessionsOK
<1>2. SessionOK(s)'
  BY <1>1 DEF SessionOK, Idle
<1>3. ASSUME NEW t \in Sessions \ {s} PROVE SessionOK(t)'
  <2>1. SessionOK(t) /\ sess'[t] = sess[t]
    BY <1>1 DEF SessionsOK
  <2>2. CASE sess[t].stage # "ready"
    BY <2>1, <2>2 DEF SessionOK
  <2>3. CASE sess[t].stage = "ready"
    <3>1. ReadyOK(t) /\ sess[t].order \in Orders
      BY <2>1, <2>3 DEF SessionOK
    <3>2. ResellerOf(sess[t].order) \in Resellers
      BY <3>1, FulfillmentAssumption DEF ResellerOf, Orders
    <3>3. ReadyOK(t)'
      BY <2>1, <3>1, <3>2 DEF ReadyOK, Pinned, ResellerOf
    <3>. QED
      BY <2>1, <3>3 DEF SessionOK
  <2>. QED
    BY <2>2, <2>3
<1>. QED
  BY <1>1, <1>2, <1>3 DEF SessionsOK

\* What a session that is ready to finish works on.
LEMMA ReadyFacts ==
  ASSUME IInv, NEW s \in Sessions, NEW work, NEW kinds, Working(s, work, kinds)
  PROVE  /\ sess[s].order \in Orders \cap kinds
         /\ sess[s].work = work
         /\ sess[s].panel \in Panels
         /\ ResellerOf(sess[s].order) \in Resellers
         /\ Seen(s) \in Account \cup {NoAccount}
         /\ sess[s].account = NoAccount =>
              Seen(s) = account[ResellerOf(sess[s].order)]
         /\ sess[s].account # NoAccount =>
              /\ Seen(s) = sess[s].account
              /\ Seen(s).panel = sess[s].panel
              /\ account[ResellerOf(sess[s].order)] # NoAccount
              /\ account[ResellerOf(sess[s].order)].panel = sess[s].panel
         /\ sess[s].account = NoAccount =>
              sess[s].order \in Resellers /\ work = "fulfill"
<1>1. /\ sess[s].stage = "ready" /\ sess[s].work = work /\ sess[s].order \in kinds
  BY DEF Working
<1>2. ReadyOK(s) /\ sess[s].order \in Orders
  BY <1>1 DEF IInv, SessionsOK, SessionOK
<1>3. ResellerOf(sess[s].order) \in Resellers
  BY <1>2, FulfillmentAssumption DEF ResellerOf, Orders
<1>4. account[ResellerOf(sess[s].order)] \in Account \cup {NoAccount}
  BY <1>3 DEF IInv, RowsOK, TypeOK
<1>. QED
  BY <1>1, <1>2, <1>3, <1>4 DEF ReadyOK, Seen

\* The account a session works on exists whenever it has seen one.
LEMMA SeenExists ==
  ASSUME IInv, NEW s \in Sessions, NEW work, NEW kinds, Working(s, work, kinds),
         Seen(s) # NoAccount
  PROVE  account[ResellerOf(sess[s].order)] # NoAccount /\ Seen(s) \in Account
<1>. QED
  BY ReadyFacts
-----------------------------------------------------------------------------
(* Steps *)

StatusOK == status \in [Orders -> Statuses]
RemoteOK == remote \in [Panels -> [Resellers -> [id : AdminIds, limit : Nat]
                                               \cup {NoAdmin}]]

LEMMA SameRows ==
  ASSUME RowsOK, UNCHANGED <<account, subscription>>, StatusOK', RemoteOK'
  PROVE  RowsOK' /\ Pinned
<1>1. SubscriptionsExist' /\ AdminsAreUnique'
  BY DEF RowsOK, SubscriptionsExist, AdminsAreUnique, HasAdmin
<1>2. TypeOK'
  BY DEF RowsOK, TypeOK, StatusOK, RemoteOK, Statuses
<1>. QED
  BY <1>1, <1>2 DEF RowsOK, Pinned

LEMMA RowsTyped == RowsOK => StatusOK /\ RemoteOK /\ TypeOK
  BY DEF RowsOK, TypeOK, StatusOK, RemoteOK, Statuses

LEMMA RolledBackRows ==
  ASSUME RowsOK, RolledBack, RemoteOK'
  PROVE  RowsOK' /\ Pinned
<1>1. StatusOK' /\ UNCHANGED <<account, subscription>>
  BY RowsTyped DEF RolledBack, rows, StatusOK
<1>. QED
  BY <1>1, SameRows

\* A quota changes together with the subscription of its reseller.
LEMMA QuotaRows ==
  ASSUME RowsOK, NEW r \in Resellers, account[r] # NoAccount, NEW seen,
         NEW new \in Nat, SetQuota(r, seen, new),
         subscription' \in [Resellers -> Subscription \cup {NoSubscription}],
         subscription'[r] # NoSubscription,
         \A x \in Resellers \ {r} : subscription'[x] = subscription[x],
         StatusOK', RemoteOK'
  PROVE  RowsOK' /\ Pinned
<1>1. TypeOK /\ SubscriptionsExist /\ AdminsAreUnique
  BY DEF RowsOK
<1>2. /\ account' \in [Resellers -> Account \cup {NoAccount}]
      /\ \A x \in Resellers :
           /\ account'[x] = NoAccount <=> account[x] = NoAccount
           /\ account'[x].panel = account[x].panel
           /\ account'[x].admin = account[x].admin
  BY <1>1, QuotaTyped
<1>3. TypeOK'
  BY <1>2 DEF TypeOK, StatusOK, RemoteOK, Statuses
<1>4. SubscriptionsExist'
  BY <1>1, <1>2 DEF SubscriptionsExist
<1>5. AdminsAreUnique'
  BY <1>1, <1>2 DEF AdminsAreUnique, HasAdmin
<1>6. Pinned
  BY <1>2 DEF Pinned
<1>. QED
  BY <1>3, <1>4, <1>5, <1>6 DEF RowsOK

LEMMA QuotaNat == \A o \in Orders : Quota[o] \in Nat
  BY FulfillmentAssumption

LEMMA SyncQuotaRows ==
  ASSUME IInv, NEW s \in Sessions, SyncQuota(s)
  PROVE  RowsOK' /\ Pinned
<1>1. Working(s, "fulfill", Resellers) /\ HasAdmin(Seen(s))
  BY DEF SyncQuota
<1>2. RowsOK
  BY DEF IInv
<1>3. PICK r \in Resellers : r = sess[s].order
  BY <1>1, ReadyFacts
<1>4. ResellerOf(sess[s].order) = r
  BY <1>3 DEF ResellerOf
<1>5. account[r] # NoAccount /\ sess[s].panel \in Panels
  BY <1>1, <1>4, SeenExists, ReadyFacts DEF HasAdmin
<1>6. r \in Orders /\ Quota[r] \in Nat
  BY QuotaNat DEF Orders
<1>7. CASE RolledBack /\ UNCHANGED remote
  BY <1>2, <1>7, RowsTyped, RolledBackRows DEF RemoteOK
<1>8. CASE /\ ModifyAdminById(sess[s].panel, Seen(s).admin, Quota[r])
           /\ RolledBack
  <2>1. PICK p \in Panels : p = sess[s].panel
    BY <1>5
  <2>a. PICK id : id = Seen(s).admin
    OBVIOUS
  <2>2. ModifyAdminById(p, id, Quota[r])
    BY <1>8, <2>1, <2>a
  <2>3. RemoteOK'
    BY <1>2, <1>6, <2>2, ModifyTyped, RowsTyped DEF RemoteOK
  <2>. QED
    BY <1>2, <1>8, <2>3, RolledBackRows
<1>9. CASE /\ ModifyAdminById(sess[s].panel, Seen(s).admin, Quota[r])
           /\ SetQuota(r, Seen(s).quota, Quota[r])
           /\ subscription' = [subscription EXCEPT
                 ![r] = [status |-> "active", quota |-> Quota[r]]]
           /\ SetStatus(r, sess[s].status, "completed")
  <2>1. PICK p \in Panels : p = sess[s].panel
    BY <1>5
  <2>a. PICK id, seen, st :
          id = Seen(s).admin /\ seen = Seen(s).quota /\ st = sess[s].status
    OBVIOUS
  <2>2. /\ ModifyAdminById(p, id, Quota[r])
        /\ SetQuota(r, seen, Quota[r])
        /\ SetStatus(r, st, "completed")
    BY <1>9, <2>1, <2>a
  <2>3. RemoteOK'
    BY <1>2, <1>6, <2>2, ModifyTyped, RowsTyped DEF RemoteOK
  <2>4. StatusOK'
    BY <1>2, <1>6, <2>2, StatusTyped, StatusNames, RowsTyped DEF StatusOK
  <2>5. /\ [status |-> "active", quota |-> Quota[r]] \in Subscription
        /\ [status |-> "active", quota |-> Quota[r]] # NoSubscription
    BY <1>6 DEF Subscription, NoSubscription
  <2>6. subscription \in [Resellers -> Subscription \cup {NoSubscription}]
    BY <1>2 DEF RowsOK, TypeOK
  <2>7. /\ subscription' \in [Resellers -> Subscription \cup {NoSubscription}]
        /\ subscription'[r] # NoSubscription
        /\ \A x \in Resellers \ {r} : subscription'[x] = subscription[x]
    BY <1>9, <2>5, <2>6
  <2>. QED
    BY <1>2, <1>5, <1>6, <2>2, <2>3, <2>4, <2>7, QuotaRows
<1>. QED
  BY <1>3, <1>7, <1>8, <1>9 DEF SyncQuota

LEMMA ProvisionRows ==
  ASSUME IInv, NEW s \in Sessions, Provision(s)
  PROVE  RowsOK' /\ Pinned
<1>1. Working(s, "fulfill", Resellers)
  BY DEF Provision
<1>2. RowsOK /\ TypeOK
  BY DEF IInv, RowsOK
<1>3. PICK r \in Resellers, p \in Panels : r = sess[s].order /\ p = sess[s].panel
  BY <1>1, ReadyFacts
<1>4. ResellerOf(sess[s].order) = r /\ r \in Orders
  BY <1>3 DEF ResellerOf, Orders
<1>5. CASE /\ status' = [status EXCEPT ![r] = "failed"]
           /\ UNCHANGED <<account, subscription, remote>>
  <2>1. StatusOK' /\ RemoteOK'
    BY <1>2, <1>4, <1>5, StatusTyped, StatusNames, RowsTyped DEF StatusOK, RemoteOK
  <2>. QED
    BY <1>2, <1>5, <2>1, SameRows
<1>6. ASSUME NEW id \in EnsuredIds(p, r), EnsureAdmin(p, r, id)
      PROVE  /\ id \in AdminIds
             /\ RemoteOK'
  BY <1>2, <1>6, EnsureTyped DEF RemoteOK
<1>7. ASSUME NEW id \in EnsuredIds(p, r), EnsureAdmin(p, r, id), RolledBack
      PROVE  RowsOK' /\ Pinned
  BY <1>2, <1>6, <1>7, RolledBackRows
<1>8. ASSUME NEW id \in EnsuredIds(p, r), EnsureAdmin(p, r, id),
             status' = [status EXCEPT ![r] = "failed"],
             UNCHANGED <<account, subscription>>
      PROVE  RowsOK' /\ Pinned
  <2>1. StatusOK'
    BY <1>2, <1>4, <1>8, StatusTyped, StatusNames, RowsTyped DEF StatusOK
  <2>. QED
    BY <1>2, <1>6, <1>8, <2>1, SameRows
<1>9. ASSUME NEW id \in EnsuredIds(p, r), EnsureAdmin(p, r, id),
             Seen(s) = NoAccount, InsertAccount(p, r, id),
             status' = [status EXCEPT ![r] = "completed"]
      PROVE  RowsOK' /\ Pinned
  <2>1. account[r] = NoAccount
    BY <1>1, <1>4, <1>9, ReadyFacts
  <2>2. id \in AdminIds /\ RemoteOK'
    BY <1>6, <1>9
  <2>3. StatusOK'
    BY <1>2, <1>4, <1>9, StatusTyped, StatusNames, RowsTyped DEF StatusOK
  <2>4. /\ account' \in [Resellers -> Account \cup {NoAccount}]
        /\ subscription' \in [Resellers -> Subscription \cup {NoSubscription}]
        /\ SubscriptionsExist' /\ AdminsAreUnique' /\ Pinned
    BY <1>2, <1>9, <2>1, <2>2, InsertRows
  <2>. QED
    BY <2>2, <2>3, <2>4 DEF RowsOK, TypeOK, StatusOK, RemoteOK, Statuses
<1>. QED
  BY <1>3, <1>5, <1>7, <1>8, <1>9 DEF Provision
LEMMA ReissueRows ==
  ASSUME IInv, NEW s \in Sessions, Reissue(s)
  PROVE  RowsOK' /\ Pinned
<1>1. Working(s, "reissue", Resellers)
  BY DEF Reissue
<1>2. RowsOK /\ TypeOK /\ SubscriptionsExist /\ AdminsAreUnique
  BY DEF IInv, RowsOK
<1>3. PICK r \in Resellers, p \in Panels : r = sess[s].order /\ p = sess[s].panel
  BY <1>1, ReadyFacts
<1>4. ResellerOf(sess[s].order) = r /\ r \in Orders /\ Quota[r] \in Nat
  BY <1>3, QuotaNat DEF ResellerOf, Orders
<1>5. PICK seen \in Account : seen = Seen(s) /\ seen.panel = p
  BY <1>1, <1>3, ReadyFacts
<1>6. account[r] # NoAccount /\ account[r].panel = p
  BY <1>1, <1>3, <1>4, ReadyFacts
<1>7. account \in [Resellers -> Account \cup {NoAccount}] /\ account[r] \in Account
  BY <1>2, <1>6 DEF TypeOK
<1>8. CASE RolledBack /\ UNCHANGED remote
  BY <1>2, <1>8, RowsTyped, RolledBackRows DEF RemoteOK
<1>9. ASSUME NEW id \in EnsuredIds(p, r), EnsureAdmin(p, r, id)
      PROVE  /\ id \in AdminIds
             /\ RemoteOK'
  BY <1>2, <1>9, EnsureTyped DEF RemoteOK
<1>10. ASSUME NEW id \in EnsuredIds(p, r), EnsureAdmin(p, r, id), RolledBack
       PROVE  RowsOK' /\ Pinned
  BY <1>2, <1>9, <1>10, RolledBackRows
<1>11. ASSUME NEW id \in EnsuredIds(p, r), EnsureAdmin(p, r, id),
              Collision(p, r, id) = {},
              account' = [account EXCEPT ![r] =
                            [panel |-> Flush(@.panel, seen.panel, p),
                             admin |-> Flush(@.admin, seen.admin, id),
                             quota |-> Flush(@.quota, seen.quota, Quota[r])]],
              SetStatus(r, sess[s].status, "completed"),
              UNCHANGED subscription
       PROVE  RowsOK' /\ Pinned
  <2>1. id \in AdminIds /\ RemoteOK'
    BY <1>9, <1>11
  <2>2. PICK a \in AdminIds \cup {NoId}, q \in Nat :
          /\ a \in {account[r].admin, id}
          /\ account' = [account EXCEPT ![r] = [panel |-> p, admin |-> a, quota |-> q]]
    <3>1. account[r].admin \in AdminIds \cup {NoId} /\ account[r].quota \in Nat
      BY <1>7 DEF Account
    <3>2. /\ Flush(account[r].panel, seen.panel, p) = p
          /\ Flush(account[r].admin, seen.admin, id) \in {account[r].admin, id}
          /\ Flush(account[r].quota, seen.quota, Quota[r]) \in Nat
      BY <1>4, <1>5, <1>6, <3>1 DEF Flush
    <3>. QED
      BY <1>7, <1>11, <2>1, <3>1, <3>2
  <2>. DEFINE new == [panel |-> p, admin |-> a, quota |-> q]
  <2>3. new \in Account /\ new.panel = p /\ new.admin = a /\ new # NoAccount
    BY DEF Account, NoAccount
  <2>. HIDE DEF new
  <2>4. account' = [account EXCEPT ![r] = new]
    BY <2>2 DEF new
  <2>5. \A x \in Resellers : account'[x] = IF x = r THEN new ELSE account[x]
    BY <1>7, <2>4
  <2>6. account' \in [Resellers -> Account \cup {NoAccount}]
    BY <1>7, <2>3, <2>4
  <2>7. ASSUME NEW x \in Resellers \ {r}, HasAdmin(account[x]), account[x].panel = p,
               a # NoId
        PROVE  account[x].admin # a
    <3>1. account[x].admin # id
      BY <1>11, <2>7 DEF Collision, HasAdmin
    <3>2. a = account[r].admin => HasAdmin(account[r])
      BY <1>6, <2>7 DEF HasAdmin
    <3>3. a = account[r].admin => account[x].admin # a
      BY <1>2, <1>6, <2>7, <3>2 DEF AdminsAreUnique
    <3>. QED
      BY <2>2, <3>1, <3>3
  <2>8. AdminsAreUnique'
    BY <1>2, <2>3, <2>5, <2>7 DEF AdminsAreUnique, HasAdmin
  <2>9. SubscriptionsExist'
    BY <1>2, <1>6, <1>11, <2>5 DEF SubscriptionsExist
  <2>10. Pinned
    BY <1>6, <2>3, <2>5 DEF Pinned
  <2>11. StatusOK'
    <3>1. PICK st : st = sess[s].status
      OBVIOUS
    <3>2. SetStatus(r, st, "completed")
      BY <1>11, <3>1
    <3>. QED
      BY <1>2, <1>4, <3>2, StatusTyped, StatusNames, RowsTyped DEF StatusOK
  <2>12. TypeOK'
    BY <1>2, <1>11, <2>1, <2>6, <2>11 DEF TypeOK, StatusOK, RemoteOK, Statuses
  <2>. QED
    BY <2>8, <2>9, <2>10, <2>12 DEF RowsOK
<1>. QED
  BY <1>3, <1>5, <1>8, <1>10, <1>11 DEF Reissue

LEMMA QuotaAfterNat ==
  ASSUME NEW o \in Orders, NEW n \in Nat PROVE QuotaAfter(o, n) \in Nat
  BY QuotaNat DEF QuotaAfter, CombinedQuota

LEMMA ApplyChangeRows ==
  ASSUME IInv, NEW s \in Sessions, ApplyChange(s)
  PROVE  RowsOK' /\ Pinned
<1>1. Working(s, "fulfill", Changes) /\ HasAdmin(Seen(s))
  BY DEF ApplyChange
<1>2. RowsOK /\ TypeOK /\ SubscriptionsExist
  BY DEF IInv, RowsOK
<1>3. PICK o \in Orders, p \in Panels, r \in Resellers :
        o = sess[s].order /\ p = sess[s].panel /\ r = ResellerOf(o)
  BY <1>1, ReadyFacts
<1>4. Seen(s) # NoAccount
  BY <1>1 DEF HasAdmin
<1>5. PICK seen \in Account : seen = Seen(s)
  BY <1>1, <1>4, SeenExists
<1>6. account[r] # NoAccount
  BY <1>1, <1>3, <1>4, SeenExists
<1>7. PICK new \in Nat : new = QuotaAfter(o, seen.quota)
  BY QuotaAfterNat DEF Account
<1>8. CASE /\ status' = [status EXCEPT ![o] = "failed"]
           /\ UNCHANGED <<account, subscription>>
           /\ \/ UNCHANGED remote
              \/ ModifyAdminById(p, seen.admin, new)
  <2>1. StatusOK'
    BY <1>2, <1>8, StatusTyped, StatusNames, RowsTyped DEF StatusOK
  <2>2. RemoteOK'
    BY <1>2, <1>8, ModifyTyped, RowsTyped DEF RemoteOK
  <2>. QED
    BY <1>2, <1>8, <2>1, <2>2, SameRows
<1>9. CASE ModifyAdminById(p, seen.admin, new) /\ RolledBack
  <2>1. RemoteOK'
    BY <1>2, <1>9, ModifyTyped DEF RemoteOK
  <2>. QED
    BY <1>2, <1>9, <2>1, RolledBackRows
<1>10. CASE /\ ModifyAdminById(p, seen.admin, new)
            /\ SetQuota(r, seen.quota, new)
            /\ subscription' = [subscription EXCEPT ![r] =
                  [status |-> Flush(@.status, sess[s].subscription.status, "active"),
                   quota |-> Flush(@.quota, sess[s].subscription.quota, new)]]
            /\ status' = [status EXCEPT ![o] = "completed"]
  <2>1. StatusOK'
    BY <1>2, <1>10, StatusTyped, StatusNames, RowsTyped DEF StatusOK
  <2>2. RemoteOK'
    BY <1>2, <1>10, ModifyTyped DEF RemoteOK
  <2>3. /\ subscription \in [Resellers -> Subscription \cup {NoSubscription}]
        /\ subscription[r] \in Subscription
    BY <1>2, <1>6 DEF TypeOK, SubscriptionsExist
  <2>4. PICK row \in Subscription : subscription' = [subscription EXCEPT ![r] = row]
    <3>. DEFINE st == Flush(subscription[r].status, sess[s].subscription.status, "active")
                q == Flush(subscription[r].quota, sess[s].subscription.quota, new)
    <3>1. st \in {"active", "suspended"} /\ q \in Nat
      BY <2>3 DEF Subscription, Flush
    <3>2. subscription' = [subscription EXCEPT ![r] = [status |-> st, quota |-> q]]
      BY <1>10, <2>3
    <3>. HIDE DEF st, q
    <3>. QED
      BY <3>1, <3>2 DEF Subscription
  <2>5. row # NoSubscription
    BY DEF Subscription, NoSubscription
  <2>6. /\ subscription' \in [Resellers -> Subscription \cup {NoSubscription}]
        /\ subscription'[r] # NoSubscription
        /\ \A x \in Resellers \ {r} : subscription'[x] = subscription[x]
    BY <2>3, <2>4, <2>5
  <2>. QED
    BY <1>2, <1>6, <1>10, <2>1, <2>2, <2>6, QuotaRows
<1>. QED
  BY <1>3, <1>5, <1>7, <1>8, <1>9, <1>10 DEF ApplyChange
\* Steps of the shop change statuses only, to statuses.
LEMMA ShopRows ==
  ASSUME RowsOK, Shop
  PROVE  RowsOK' /\ Pinned /\ UNCHANGED sess
<1>1. PICK o \in Orders : Life!Place(o) \/ Life!Pay(o) \/ Life!Cancel(o) \/ Life!Repay(o)
  BY DEF Shop
<1>2. PICK st \in Statuses : status' = [status EXCEPT ![o] = st]
  BY <1>1 DEF Life!Place, Life!Pay, Life!Cancel, Life!Repay, Life!Become, Statuses,
              Life!Unpaid, Life!Settled
<1>3. StatusOK'
  BY <1>2, RowsTyped DEF StatusOK
<1>4. UNCHANGED <<account, subscription, remote, sess>>
  BY DEF Shop
<1>. QED
  BY <1>3, <1>4, RowsTyped, SameRows DEF RemoteOK

LEMMA LoadOrderSessions ==
  ASSUME IInv, NEW s \in Sessions, NEW o \in Orders, NEW work, LoadOrder(s, o, work)
  PROVE  SessionsOK'
<1>1. status[o] \in Statuses
  BY RowsTyped DEF IInv, StatusOK
<1>. DEFINE new == [stage |-> "order", work |-> work, order |-> o, status |-> status[o]]
<1>2. new.stage = "order" /\ new.order = o /\ new.status = status[o]
  OBVIOUS
<1>. HIDE DEF new
<1>3. /\ sess'[s] = new
      /\ \A t \in Sessions \ {s} : sess'[t] = sess[t]
      /\ sess' = [t \in Sessions |-> sess'[t]]
      /\ UNCHANGED account
  BY DEF IInv, SessionsOK, LoadOrder, new, rows
<1>4. SessionOK(s)'
  BY <1>1, <1>2, <1>3 DEF SessionOK
<1>5. ASSUME NEW t \in Sessions \ {s} PROVE SessionOK(t)'
  BY <1>3 DEF IInv, SessionsOK, SessionOK, ReadyOK, ResellerOf
<1>. QED
  BY <1>3, <1>4, <1>5 DEF SessionsOK

LEMMA LoadAccountSessions ==
  ASSUME IInv, NEW s \in Sessions, LoadAccount(s)
  PROVE  SessionsOK'
<1>1. sess[s].order \in Orders /\ sess[s].status \in Statuses
  BY DEF IInv, SessionsOK, SessionOK, LoadAccount
<1>. DEFINE r == ResellerOf(sess[s].order)
<1>2. r \in Resellers
  BY <1>1, FulfillmentAssumption DEF ResellerOf, Orders
<1>3. account[r] \in Account \cup {NoAccount}
  BY <1>2 DEF IInv, RowsOK, TypeOK
<1>4. PICK p \in RoutedPanels(r) :
        sess' = [sess EXCEPT ![s] =
                   [stage |-> "ready", work |-> @.work, order |-> @.order,
                    status |-> @.status, account |-> account[r],
                    subscription |-> subscription[r], panel |-> p]]
  BY DEF LoadAccount
<1>5. /\ p \in Panels
      /\ account[r] # NoAccount => account[r].panel = p
  BY <1>3 DEF RoutedPanels, Account
<1>6. account[r] = NoAccount => sess[s].order \in Resellers /\ sess[s].work = "fulfill"
  BY DEF LoadAccount
<1>. DEFINE new == [stage |-> "ready", work |-> sess[s].work, order |-> sess[s].order,
                    status |-> sess[s].status, account |-> account[r],
                    subscription |-> subscription[r], panel |-> p]
<1>7. /\ new.stage = "ready" /\ new.work = sess[s].work /\ new.order = sess[s].order
      /\ new.status = sess[s].status /\ new.account = account[r] /\ new.panel = p
  OBVIOUS
<1>. HIDE DEF new
<1>8. /\ sess'[s] = new
      /\ \A t \in Sessions \ {s} : sess'[t] = sess[t]
      /\ sess' = [t \in Sessions |-> sess'[t]]
      /\ UNCHANGED account
  BY <1>4 DEF IInv, SessionsOK, LoadAccount, new, rows
<1>9. ReadyOK(s)'
  BY <1>3, <1>5, <1>6, <1>7, <1>8 DEF ReadyOK, ResellerOf
<1>10. SessionOK(s)'
  BY <1>1, <1>7, <1>8, <1>9 DEF SessionOK
<1>11. ASSUME NEW t \in Sessions \ {s} PROVE SessionOK(t)'
  BY <1>8 DEF IInv, SessionsOK, SessionOK, ReadyOK, ResellerOf
<1>. QED
  BY <1>8, <1>10, <1>11 DEF SessionsOK

\* Sessions keep what they loaded while no account moves.
LEMMA SameSessions ==
  ASSUME SessionsOK, Pinned, UNCHANGED sess
  PROVE  SessionsOK'
<1>1. ASSUME NEW t \in Sessions PROVE SessionOK(t)'
  <2>1. SessionOK(t)
    BY DEF SessionsOK
  <2>2. CASE sess[t].stage # "ready"
    BY <2>1, <2>2 DEF SessionOK
  <2>3. CASE sess[t].stage = "ready"
    <3>1. ReadyOK(t) /\ sess[t].order \in Orders
      BY <2>1, <2>3 DEF SessionOK
    <3>2. ResellerOf(sess[t].order) \in Resellers
      BY <3>1, FulfillmentAssumption DEF ResellerOf, Orders
    <3>3. ReadyOK(t)'
      BY <3>1, <3>2 DEF ReadyOK, Pinned, ResellerOf
    <3>. QED
      BY <2>1, <3>3 DEF SessionOK
  <2>. QED
    BY <2>2, <2>3
<1>2. (sess = [s \in Sessions |-> sess[s]])'
  BY DEF SessionsOK
<1>. QED
  BY <1>1, <1>2 DEF SessionsOK

-----------------------------------------------------------------------------
(* Invariance *)

LEMMA InitIInv == Init => IInv
<1>. SUFFICES ASSUME Init PROVE IInv
  OBVIOUS
<1>1. TypeOK
  BY DEF Init, Life!Init, TypeOK
<1>2. \A r \in Resellers : account[r] = NoAccount
  BY DEF Init
<1>3. SubscriptionsExist /\ AdminsAreUnique
  BY <1>2 DEF SubscriptionsExist, AdminsAreUnique, HasAdmin
<1>4. SessionsOK
  BY DEF Init, SessionsOK, SessionOK, Idle
<1>. QED
  BY <1>1, <1>3, <1>4 DEF IInv, RowsOK

LEMMA StepIInv == IInv /\ [Next]_vars => IInv' /\ Pinned
<1>. SUFFICES ASSUME IInv, [Next]_vars PROVE IInv' /\ Pinned
  OBVIOUS
<1>1. RowsOK /\ SessionsOK
  BY DEF IInv
<1>2. ASSUME UNCHANGED <<rows, remote>> PROVE RowsOK' /\ Pinned
  BY <1>1, <1>2, RowsTyped, RolledBackRows DEF RolledBack, RemoteOK
<1>3. ASSUME NEW s \in Sessions, sess' = [sess EXCEPT ![s] = Idle], RowsOK', Pinned
      PROVE  IInv' /\ Pinned
  BY <1>1, <1>3, FinishSessions DEF IInv
<1>4. CASE Shop
  BY <1>1, <1>4, ShopRows, SameSessions DEF IInv
<1>5. ASSUME NEW p \in Panels, NEW r \in Resellers, PanelLosesAdmin(p, r)
      PROVE  IInv' /\ Pinned
  <2>1. RemoteOK'
    BY <1>1, <1>5, RowsTyped DEF PanelLosesAdmin, RemoteOK
  <2>2. UNCHANGED rows /\ UNCHANGED sess
    BY <1>5 DEF PanelLosesAdmin
  <2>3. RowsOK' /\ Pinned
    BY <1>1, <2>1, <2>2, RolledBackRows DEF RolledBack
  <2>. QED
    BY <1>1, <2>2, <2>3, SameSessions DEF IInv
<1>6. ASSUME NEW s \in Sessions, NEW o \in Orders, NEW work, LoadOrder(s, o, work)
      PROVE  IInv' /\ Pinned
  BY <1>2, <1>6, LoadOrderSessions DEF LoadOrder, IInv
<1>7. ASSUME NEW s \in Sessions, LoadAccount(s) PROVE IInv' /\ Pinned
  BY <1>2, <1>7, LoadAccountSessions DEF LoadAccount, IInv
<1>8. ASSUME NEW s \in Sessions, SyncQuota(s) PROVE IInv' /\ Pinned
  BY <1>3, <1>8, SyncQuotaRows DEF SyncQuota, Working
<1>9. ASSUME NEW s \in Sessions, Provision(s) PROVE IInv' /\ Pinned
  BY <1>3, <1>9, ProvisionRows DEF Provision, Working
<1>10. ASSUME NEW s \in Sessions, Reissue(s) PROVE IInv' /\ Pinned
  BY <1>3, <1>10, ReissueRows DEF Reissue, Working
<1>11. ASSUME NEW s \in Sessions, ApplyChange(s) PROVE IInv' /\ Pinned
  BY <1>3, <1>11, ApplyChangeRows DEF ApplyChange, Working
<1>12. ASSUME NEW s \in Sessions, GiveUp(s) PROVE IInv' /\ Pinned
  BY <1>2, <1>3, <1>12 DEF GiveUp
<1>13. CASE UNCHANGED vars
  BY <1>1, <1>2, <1>13, SameSessions DEF vars, rows, IInv
<1>. QED
  BY <1>4, <1>5, <1>6, <1>7, <1>8, <1>9, <1>10, <1>11, <1>12, <1>13 DEF Next, Orders

\* The inductive invariant of Fulfillment, for any number of sessions.
THEOREM Invariance == Spec => []IInv
  BY InitIInv, StepIInv, PTL DEF Spec

\* The rows and the panels' admins keep their types
\* (services/provisioning.py, subscriptions.py).
THEOREM TypeCorrect == Spec => []TypeOK
<1>1. IInv => TypeOK
  BY DEF IInv, RowsOK
<1>. QED
  BY Invariance, <1>1, PTL

\* No two accounts of a panel ever record one admin, whatever sessions race and
\* whichever ids the panel hands out again (services/provisioning.py:164-215,
\* 427-466).
THEOREM AdminsStayUnique == Spec => []AdminsAreUnique
<1>1. IInv => AdminsAreUnique
  BY DEF IInv, RowsOK
<1>. QED
  BY Invariance, <1>1, PTL

\* No handler moves an account to another panel, even one that chose its panel
\* before another session created the account
\* (services/pasarguard_instances.py:210-227, provisioning.py:292).
THEOREM Pinning == Spec => AccountsStayPinned
<1>1. IInv /\ [Next]_vars => [Pinned]_vars
  BY StepIInv
<1>2. [Pinned]_vars <=> [\A r \in Resellers :
        account[r] # NoAccount => account'[r] # NoAccount
                                  /\ account'[r].panel = account[r].panel]_vars
  BY DEF Pinned
<1>. QED
  BY Invariance, <1>1, <1>2, PTL DEF Spec, AccountsStayPinned
-----------------------------------------------------------------------------
(* What one handler changes: the status of its order, the account of the    *)
(* order's reseller, and the admins of accounts that its own collides with. *)

Busy(s) == sess[s].stage # "idle"

\* The order is left alone, delivered or given up, as its life cycle allows.
Outcome(o) == status' = status \/ Life!Deliver(o) \/ Life!Fail(o)

\* An account appears only when its order is delivered.
Appears(o) == \A x \in Resellers :
    account'[x] # NoAccount => account[x] # NoAccount \/ (x = o /\ Life!Deliver(o))

\* No other account gets another quota.
OthersKeepQuota(r) == \A x \in Resellers \ {r} :
    /\ account'[x] = NoAccount <=> account[x] = NoAccount
    /\ account[x] # NoAccount => account'[x].quota = account[x].quota

\* Accounts of other panels keep their admins, and every account that stays
\* active keeps having one.
OthersKeepAdmin(p, r) == \A x \in Resellers \ {r} :
    /\ account[x] # NoAccount /\ account[x].panel # p =>
         account'[x].admin = account[x].admin
    /\ subscription'[x].status = "active" =>
         subscription[x].status = "active"
         /\ (HasAdmin(account[x]) => HasAdmin(account'[x]))

\* The account keeps its quota, or gets that of its plan.
KeepsPlan(r) == account'[r] # NoAccount =>
    \/ account[r] # NoAccount /\ account'[r].quota = account[r].quota
    \/ account'[r].quota = Quota[r]

ActiveOK(r) == subscription[r].status = "active" => HasAdmin(account[r])

\* The session's copy of the account, if it has one, names the account's admin.
AdminCopied(s) == sess[s].account # NoAccount =>
    sess[s].account.admin = account[ResellerOf(sess[s].order)].admin

\* A delivered order's account exists, and a session that would deliver found
\* its order paid for and finds it so still: nobody else worked on the order.
LifeInv ==
    /\ \A r \in Resellers : account[r] # NoAccount => status[r] \in Life!Settled
    /\ \A s \in Sessions : Busy(s) /\ Deliverable(sess[s].status) =>
         status[sess[s].order] \in Life!Settled \ {"completed"}

\* What a new account leaves alone: accounts of other panels, every other quota,
\* and the admins of accounts whose subscription stays active.
LEMMA InsertEffect ==
  ASSUME RowsOK, NEW p \in Panels, NEW r \in Resellers, NEW id \in AdminIds,
         account[r] = NoAccount, InsertAccount(p, r, id)
  PROVE  /\ account'[r] = [panel |-> p, admin |-> id, quota |-> Quota[r]]
         /\ OthersKeepQuota(r)
         /\ \A x \in Resellers \ {r} :
              account[x] = NoAccount \/ account[x].panel # p => account'[x] = account[x]
         /\ \A x \in Resellers \ {r} : subscription'[x].status = "active" =>
              subscription[x].status = "active"
              /\ (HasAdmin(account[x]) => HasAdmin(account'[x]))
<1>. DEFINE new    == [panel |-> p, admin |-> id, quota |-> Quota[r]]
            active == [status |-> "active", quota |-> Quota[r]]
            Goal ==
              /\ account'[r] = new
              /\ OthersKeepQuota(r)
              /\ \A x \in Resellers \ {r} :
                   account[x] = NoAccount \/ account[x].panel # p => account'[x] = account[x]
              /\ \A x \in Resellers \ {r} : subscription'[x].status = "active" =>
                   subscription[x].status = "active"
                   /\ (HasAdmin(account[x]) => HasAdmin(account'[x]))
<1>1. /\ TypeOK
      /\ account \in [Resellers -> Account \cup {NoAccount}]
      /\ subscription \in [Resellers -> Subscription \cup {NoSubscription}]
      /\ remote \in [Panels -> [Resellers -> [id : AdminIds, limit : Nat]
                                             \cup {NoAdmin}]]
  BY DEF RowsOK, TypeOK
<1>2. new \in Account
  BY QuotaNat DEF Account, Orders
<1>. SUFFICES Goal
  OBVIOUS
<1>. HIDE DEF new, active
<1>3. CASE /\ account' = [account EXCEPT ![r] = new]
           /\ subscription' = [subscription EXCEPT ![r] = active]
  <2>1. /\ account'[r] = new
        /\ \A x \in Resellers \ {r} :
             account'[x] = account[x] /\ subscription'[x] = subscription[x]
    BY <1>1, <1>3
  <2>. QED
    BY <2>1 DEF OthersKeepQuota, HasAdmin
<1>4. ASSUME NEW c \in Collision(p, r, id), NEW a \in AdminIds \cup {NoId},
             Replaced(r, new, c, a)
      PROVE  /\ c \in Resellers \ {r} /\ account[c] # NoAccount
             /\ account'[r] = new
             /\ OthersKeepQuota(r)
             /\ \A x \in Resellers \ {r} :
                  account[x] = NoAccount \/ account[x].panel # p => account'[x] = account[x]
             /\ account'[c].admin = a /\ account'[c] # NoAccount
             /\ \A x \in Resellers \ {r, c} : account'[x] = account[x]
  <2>1. c \in Resellers /\ c # r /\ account[c] # NoAccount /\ account[c].panel = p
    BY DEF Collision
  <2>2. /\ account' \in [Resellers -> Account \cup {NoAccount}]
        /\ account'[r] = new
        /\ account'[c].quota = account[c].quota
        /\ account'[c].admin = a
        /\ \A x \in Resellers \ {r, c} : account'[x] = account[x]
        /\ \A x \in Resellers : account'[x] = NoAccount => account[x] = NoAccount
    BY <1>1, <1>2, <1>4, <2>1, ReplaceAdmin
  <2>. QED
    BY <2>1, <2>2 DEF OthersKeepQuota
<1>5. ASSUME NEW c \in Collision(p, r, id),
             remote[p][c] # NoAdmin,
             account' = [account EXCEPT ![r] = new, ![c].admin = remote[p][c].id],
             subscription' = [subscription EXCEPT ![r] = active]
      PROVE  Goal
  <2>1. PICK other \in AdminIds : other = remote[p][c].id
    BY <1>1, <1>5 DEF Collision
  <2>2. Replaced(r, new, c, other)
    BY <1>5, <2>1 DEF Replaced
  <2>3. \A x \in Resellers \ {r} : subscription'[x] = subscription[x]
    BY <1>1, <1>5
  <2>4. /\ c \in Resellers \ {r}
        /\ account'[c].admin = other /\ account'[c] # NoAccount
        /\ \A x \in Resellers \ {r, c} : account'[x] = account[x]
    BY <1>4, <2>2
  <2>5. HasAdmin(account'[c])
    BY <2>4, FulfillmentAssumption DEF HasAdmin
  <2>6. ASSUME NEW x \in Resellers \ {r}, HasAdmin(account[x]) PROVE HasAdmin(account'[x])
    BY <2>4, <2>5, <2>6
  <2>. QED
    BY <1>4, <2>2, <2>3, <2>6
<1>6. ASSUME NEW c \in Collision(p, r, id),
             account' = [account EXCEPT ![r] = new, ![c].admin = NoId],
             subscription' = [subscription EXCEPT
                                ![r] = active,
                                ![c].status = IF @ = "active" THEN "suspended" ELSE @]
      PROVE  Goal
  <2>1. Replaced(r, new, c, NoId)
    BY <1>6 DEF Replaced
  <2>2. /\ c \in Resellers \ {r} /\ account[c] # NoAccount
        /\ \A x \in Resellers \ {r, c} : account'[x] = account[x]
    BY <1>4, <2>1
  <2>3. subscription[c] \in Subscription
    BY <1>1, <2>2 DEF RowsOK, SubscriptionsExist
  <2>4. /\ subscription'[c].status # "active"
        /\ \A x \in Resellers \ {r, c} : subscription'[x] = subscription[x]
    BY <1>1, <1>6, <2>2, <2>3 DEF Subscription
  <2>5. ASSUME NEW x \in Resellers \ {r}, subscription'[x].status = "active"
        PROVE  /\ subscription[x].status = "active"
               /\ HasAdmin(account[x]) => HasAdmin(account'[x])
    BY <2>2, <2>4, <2>5
  <2>. QED
    BY <1>4, <2>1, <2>5
<1>. QED
  BY <1>3, <1>5, <1>6 DEF InsertAccount, new, active

LEMMA KeptRows ==
  ASSUME NEW r, NEW p, NEW o, UNCHANGED <<account, subscription>>
  PROVE  /\ OthersKeepQuota(r) /\ OthersKeepAdmin(p, r) /\ KeepsPlan(r)
         /\ Appears(o)
         /\ ActiveOK(r) => ActiveOK(r)'
  BY DEF OthersKeepQuota, OthersKeepAdmin, KeepsPlan, Appears, ActiveOK, HasAdmin

LEMMA QuotaEffect ==
  ASSUME TypeOK, NEW r \in Resellers, account[r] # NoAccount, NEW o, NEW p,
         NEW seen, NEW new, SetQuota(r, seen, new),
         \A x \in Resellers \ {r} : subscription'[x] = subscription[x]
  PROVE  /\ OthersKeepQuota(r) /\ OthersKeepAdmin(p, r)
         /\ Appears(o)
         /\ account'[r].quota = Flush(account[r].quota, seen, new)
         /\ account'[r].admin = account[r].admin
         /\ HasAdmin(account[r]) => HasAdmin(account'[r])
<1>1. account \in [Resellers -> Account \cup {NoAccount}] /\ account[r] \in Account
  BY DEF TypeOK
<1>2. PICK q : q = Flush(account[r].quota, seen, new)
  OBVIOUS
<1>. DEFINE row == [account[r] EXCEPT !.quota = q]
<1>3. row.quota = q /\ row.admin = account[r].admin /\ row.panel = account[r].panel
  BY <1>1 DEF Account
<1>5. row # NoAccount
  BY <1>1 DEF Account, NoAccount
<1>6. account' = [account EXCEPT ![r] = row]
  BY <1>1, <1>2 DEF SetQuota
<1>. HIDE DEF row
<1>7. account'[r] = row /\ \A x \in Resellers \ {r} : account'[x] = account[x]
  BY <1>1, <1>6
<1>. QED
  BY <1>2, <1>3, <1>5, <1>7
  DEF OthersKeepQuota, OthersKeepAdmin, Appears, HasAdmin

\* Asking the panel for the quota again changes the account's quota, to the
\* plan's, and settles the order for good.
LEMMA SyncQuotaEffect ==
  ASSUME IInv, NEW s \in Sessions, SyncQuota(s),
         NEW r \in Resellers, r = sess[s].order
  PROVE  /\ LifeInv => Outcome(r) /\ Appears(r)
         /\ KeepsPlan(r)
         /\ OthersKeepQuota(r) /\ OthersKeepAdmin(sess[s].panel, r)
         /\ account[r] # NoAccount /\ account'[r].admin = account[r].admin
         /\ AdminCopied(s) /\ ActiveOK(r) => ActiveOK(r)'
<1>1. Working(s, "fulfill", Resellers) /\ HasAdmin(Seen(s))
  BY DEF SyncQuota
<1>2. ResellerOf(sess[s].order) = r /\ r \in Orders /\ TypeOK
  BY DEF ResellerOf, Orders, IInv, RowsOK
<1>3. account[r] # NoAccount /\ Seen(s) \in Account
  BY <1>1, <1>2, SeenExists DEF HasAdmin
<1>4. AdminCopied(s) => HasAdmin(account[r])
  <2>1. CASE sess[s].account = NoAccount
    BY <1>1, <1>2, <2>1 DEF Seen
  <2>2. CASE sess[s].account # NoAccount
    BY <1>1, <1>2, <1>3, <2>2 DEF Seen, AdminCopied, HasAdmin
  <2>. QED
    BY <2>1, <2>2
<1>5. CASE RolledBack
  BY <1>3, <1>5, KeptRows DEF RolledBack, rows, Outcome
<1>6. CASE /\ SetQuota(r, Seen(s).quota, Quota[r])
           /\ subscription' = [subscription EXCEPT
                 ![r] = [status |-> "active", quota |-> Quota[r]]]
           /\ SetStatus(r, sess[s].status, "completed")
  <2>1. PICK seen, st, p :
          seen = Seen(s).quota /\ st = sess[s].status /\ p = sess[s].panel
    OBVIOUS
  <2>2. \A x \in Resellers \ {r} : subscription'[x] = subscription[x]
    BY <1>2, <1>6 DEF TypeOK
  <2>3. /\ OthersKeepQuota(r) /\ OthersKeepAdmin(p, r) /\ Appears(r)
        /\ account'[r].quota = Flush(account[r].quota, seen, Quota[r])
        /\ account'[r].admin = account[r].admin
        /\ HasAdmin(account[r]) => HasAdmin(account'[r])
    BY <1>2, <1>3, <1>6, <2>1, <2>2, QuotaEffect
  <2>4. KeepsPlan(r)
    BY <1>3, <2>3 DEF KeepsPlan, Flush
  <2>5. ASSUME LifeInv PROVE Outcome(r)
    <3>1. status[r] \in Life!Settled
      BY <1>3, <2>5 DEF LifeInv
    <3>2. status' = [status EXCEPT ![r] = Flush(status[r], st, "completed")]
      BY <1>2, <1>6, <2>1 DEF SetStatus, TypeOK
    <3>3. CASE "completed" = st
      BY <1>2, <3>2, <3>3 DEF Flush, Outcome, TypeOK
    <3>4. CASE "completed" # st
      BY <3>1, <3>2, <3>4 DEF Flush, Outcome, Life!Deliver, Life!Become
    <3>. QED
      BY <3>3, <3>4
  <2>6. AdminCopied(s) => ActiveOK(r)'
    BY <1>4, <2>3 DEF ActiveOK, HasAdmin
  <2>. QED
    BY <1>3, <2>1, <2>3, <2>4, <2>5, <2>6
<1>. QED
  BY <1>5, <1>6 DEF SyncQuota

\* Provisioning creates the order's account, once, or gives the order up.
LEMMA ProvisionEffect ==
  ASSUME IInv, NEW s \in Sessions, Provision(s),
         NEW r \in Resellers, r = sess[s].order
  PROVE  /\ LifeInv => Outcome(r) /\ Appears(r)
         /\ KeepsPlan(r)
         /\ OthersKeepQuota(r) /\ OthersKeepAdmin(sess[s].panel, r)
         /\ account[r] # NoAccount => account'[r].admin = account[r].admin
         /\ AdminCopied(s) /\ ActiveOK(r) => ActiveOK(r)'
<1>1. Working(s, "fulfill", Resellers) /\ Deliverable(sess[s].status)
  BY DEF Provision
<1>2. /\ ResellerOf(sess[s].order) = r /\ r \in Orders /\ TypeOK /\ RowsOK
      /\ Busy(s)
  BY <1>1 DEF ResellerOf, Orders, IInv, RowsOK, Busy, Working
<1>3. LifeInv => status[r] \in Life!Settled \ {"completed"}
  BY <1>1, <1>2 DEF LifeInv
<1>4. CASE UNCHANGED <<account, subscription>> /\ (LifeInv => Outcome(r))
  BY <1>4, KeptRows
<1>5. CASE RolledBack
  BY <1>4, <1>5 DEF RolledBack, rows, Outcome
<1>6. CASE status' = [status EXCEPT ![r] = "failed"] /\ UNCHANGED <<account, subscription>>
  BY <1>3, <1>4, <1>6 DEF Outcome, Life!Fail, Life!Become
<1>7. ASSUME NEW id \in EnsuredIds(sess[s].panel, r), EnsureAdmin(sess[s].panel, r, id),
             Seen(s) = NoAccount, InsertAccount(sess[s].panel, r, id),
             status' = [status EXCEPT ![r] = "completed"]
      PROVE  /\ LifeInv => Outcome(r) /\ Appears(r)
             /\ KeepsPlan(r)
             /\ OthersKeepQuota(r) /\ OthersKeepAdmin(sess[s].panel, r)
             /\ account[r] # NoAccount => account'[r].admin = account[r].admin
             /\ AdminCopied(s) /\ ActiveOK(r) => ActiveOK(r)'
  <2>1. account[r] = NoAccount
    BY <1>1, <1>2, <1>7, ReadyFacts
  <2>2. PICK p \in Panels : p = sess[s].panel
    BY <1>1, ReadyFacts
  <2>3. id \in AdminIds
    BY <1>2, <1>7, <2>2, EnsureTyped
  <2>4. /\ account'[r] = [panel |-> p, admin |-> id, quota |-> Quota[r]]
        /\ OthersKeepQuota(r)
        /\ \A x \in Resellers \ {r} :
             account[x] = NoAccount \/ account[x].panel # p => account'[x] = account[x]
        /\ \A x \in Resellers \ {r} : subscription'[x].status = "active" =>
             subscription[x].status = "active"
             /\ (HasAdmin(account[x]) => HasAdmin(account'[x]))
    BY <1>2, <1>7, <2>1, <2>2, <2>3, InsertEffect
  <2>5. /\ account'[r].quota = Quota[r]
        /\ account'[r].admin = id
        /\ account'[r] # NoAccount
    BY <2>4 DEF NoAccount
  <2>6. HasAdmin(account'[r])
    BY <2>3, <2>5, FulfillmentAssumption DEF HasAdmin
  <2>7. LifeInv => Life!Deliver(r)
    BY <1>3, <1>7 DEF Life!Deliver, Life!Become
  <2>8. OthersKeepAdmin(p, r)
    BY <2>4 DEF OthersKeepAdmin
  <2>9. (LifeInv => Appears(r) /\ Outcome(r)) /\ KeepsPlan(r)
    BY <2>4, <2>5, <2>7 DEF Appears, Outcome, KeepsPlan, OthersKeepQuota
  <2>. QED
    BY <2>1, <2>2, <2>4, <2>6, <2>8, <2>9 DEF ActiveOK
<1>. QED
  BY <1>5, <1>6, <1>7 DEF Provision

\* A reissue gives the account the admin its username has on the panel.
LEMMA ReissueEffect ==
  ASSUME IInv, NEW s \in Sessions, Reissue(s),
         NEW r \in Resellers, r = sess[s].order
  PROVE  /\ LifeInv => Outcome(r) /\ Appears(r)
         /\ KeepsPlan(r)
         /\ OthersKeepQuota(r) /\ OthersKeepAdmin(sess[s].panel, r)
         /\ account[r] # NoAccount /\ account[r].panel = sess[s].panel
         /\ AdminCopied(s) /\ ActiveOK(r) => ActiveOK(r)'
<1>1. Working(s, "reissue", Resellers)
  BY DEF Reissue
<1>2. ResellerOf(sess[s].order) = r /\ r \in Orders /\ TypeOK /\ RowsOK
  BY DEF ResellerOf, Orders, IInv, RowsOK
<1>3. /\ account[r] # NoAccount /\ account[r].panel = sess[s].panel
      /\ sess[s].account # NoAccount
  BY <1>1, <1>2, ReadyFacts
<1>4. LifeInv => status[r] \in Life!Settled
  BY <1>3 DEF LifeInv
<1>5. PICK p \in Panels : p = sess[s].panel
  BY <1>1, ReadyFacts
<1>6. PICK seen : seen = Seen(s) /\ seen = sess[s].account
  BY <1>1, <1>3, ReadyFacts
<1>7. CASE RolledBack
  BY <1>3, <1>7, KeptRows DEF RolledBack, rows, Outcome
<1>8. ASSUME NEW id \in EnsuredIds(p, r), EnsureAdmin(p, r, id),
             account' = [account EXCEPT ![r] =
                           [panel |-> Flush(@.panel, seen.panel, p),
                            admin |-> Flush(@.admin, seen.admin, id),
                            quota |-> Flush(@.quota, seen.quota, Quota[r])]],
             SetStatus(r, sess[s].status, "completed"),
             UNCHANGED subscription
      PROVE  /\ LifeInv => Outcome(r) /\ Appears(r)
             /\ KeepsPlan(r)
             /\ OthersKeepQuota(r) /\ OthersKeepAdmin(p, r)
             /\ AdminCopied(s) /\ ActiveOK(r) => ActiveOK(r)'
  <2>1. id \in AdminIds
    BY <1>2, <1>8, EnsureTyped
  <2>2. PICK panel, admin, quota :
          /\ panel = Flush(account[r].panel, seen.panel, p)
          /\ admin = Flush(account[r].admin, seen.admin, id)
          /\ quota = Flush(account[r].quota, seen.quota, Quota[r])
    OBVIOUS
  <2>. DEFINE new == [panel |-> panel, admin |-> admin, quota |-> quota]
  <2>3. new.admin = admin /\ new.quota = quota /\ new # NoAccount
    BY DEF NoAccount
  <2>. HIDE DEF new
  <2>4. account \in [Resellers -> Account \cup {NoAccount}]
    BY <1>2 DEF TypeOK
  <2>5. account' = [account EXCEPT ![r] = new]
    BY <1>8, <2>2, <2>4 DEF new
  <2>6. account'[r] = new /\ \A x \in Resellers \ {r} : account'[x] = account[x]
    BY <2>4, <2>5
  <2>7. OthersKeepQuota(r) /\ OthersKeepAdmin(p, r) /\ Appears(r)
    BY <1>3, <1>8, <2>6 DEF OthersKeepQuota, OthersKeepAdmin, Appears
  <2>8. KeepsPlan(r)
    BY <1>3, <2>2, <2>3, <2>6 DEF KeepsPlan, Flush
  <2>9. AdminCopied(s) => ActiveOK(r)'
    <3>1. AdminCopied(s) => admin = id
      BY <1>2, <1>3, <1>6, <2>2 DEF AdminCopied, Flush
    <3>. QED
      BY <2>1, <2>3, <2>6, <3>1, FulfillmentAssumption DEF ActiveOK, HasAdmin
  <2>10. LifeInv => Outcome(r)
    <3>1. PICK st : st = sess[s].status
      OBVIOUS
    <3>2. status' = [status EXCEPT ![r] = Flush(status[r], st, "completed")]
      BY <1>2, <1>8, <3>1 DEF SetStatus, TypeOK
    <3>3. CASE "completed" = st
      BY <1>2, <3>2, <3>3 DEF Flush, Outcome, TypeOK
    <3>4. CASE "completed" # st
      BY <1>4, <3>2, <3>4 DEF Flush, Outcome, Life!Deliver, Life!Become
    <3>. QED
      BY <3>3, <3>4
  <2>. QED
    BY <2>7, <2>8, <2>9, <2>10
<1>. QED
  BY <1>3, <1>5, <1>6, <1>7, <1>8 DEF Reissue

\* The quota is changed in the step that delivers the renewal or top-up.
ChangesQuota(o, r, copied) ==
    \/ account'[r].quota = account[r].quota
    \/ /\ Life!Deliver(o) /\ status[o] # "completed"
       /\ account'[r].quota = Flush(account[r].quota, copied, QuotaAfter(o, copied))

LEMMA ApplyChangeEffect ==
  ASSUME IInv, NEW s \in Sessions, ApplyChange(s),
         NEW o \in Changes, o = sess[s].order, NEW r \in Resellers, r = Target[o]
  PROVE  /\ LifeInv => /\ Outcome(o) /\ Appears(o)
                       /\ ChangesQuota(o, r, sess[s].account.quota)
         /\ OthersKeepQuota(r) /\ OthersKeepAdmin(sess[s].panel, r)
         /\ account[r] # NoAccount /\ account'[r].admin = account[r].admin
         /\ sess[s].account # NoAccount
         /\ AdminCopied(s) /\ ActiveOK(r) => ActiveOK(r)'
<1>1. /\ Working(s, "fulfill", Changes) /\ Deliverable(sess[s].status)
      /\ HasAdmin(Seen(s))
  BY DEF ApplyChange
<1>2. ResellerOf(o) = r /\ o \in Orders /\ o \notin Resellers /\ TypeOK /\ Busy(s)
  BY <1>1, FulfillmentAssumption DEF ResellerOf, Orders, IInv, RowsOK, Busy, Working
<1>3. /\ sess[s].account # NoAccount /\ Seen(s) = sess[s].account
      /\ account[r] # NoAccount
  BY <1>1, <1>2, ReadyFacts
<1>4. LifeInv => status[o] \in Life!Settled \ {"completed"}
  BY <1>1, <1>2 DEF LifeInv
<1>5. AdminCopied(s) => HasAdmin(account[r])
  BY <1>1, <1>2, <1>3 DEF AdminCopied, HasAdmin
<1>6. CASE UNCHANGED <<account, subscription>> /\ (LifeInv => Outcome(o))
  BY <1>3, <1>6, KeptRows DEF ChangesQuota
<1>7. CASE RolledBack
  BY <1>6, <1>7 DEF RolledBack, rows, Outcome
<1>8. CASE status' = [status EXCEPT ![o] = "failed"] /\ UNCHANGED <<account, subscription>>
  BY <1>4, <1>6, <1>8 DEF Outcome, Life!Fail, Life!Become
<1>9. PICK copied : copied = sess[s].account.quota
  OBVIOUS
<1>10. CASE /\ SetQuota(r, copied, QuotaAfter(o, copied))
            /\ subscription' = [subscription EXCEPT ![r] =
                  [status |-> Flush(@.status, sess[s].subscription.status, "active"),
                   quota |-> Flush(@.quota, sess[s].subscription.quota,
                                   QuotaAfter(o, copied))]]
            /\ status' = [status EXCEPT ![o] = "completed"]
  <2>1. \A x \in Resellers \ {r} : subscription'[x] = subscription[x]
    BY <1>2, <1>10 DEF TypeOK
  <2>2. PICK p, new : p = sess[s].panel /\ new = QuotaAfter(o, copied)
    OBVIOUS
  <2>3. /\ OthersKeepQuota(r) /\ OthersKeepAdmin(p, r) /\ Appears(o)
        /\ account'[r].quota = Flush(account[r].quota, copied, new)
        /\ account'[r].admin = account[r].admin
        /\ HasAdmin(account[r]) => HasAdmin(account'[r])
    BY <1>2, <1>3, <1>10, <2>1, <2>2, QuotaEffect
  <2>4. LifeInv => Life!Deliver(o)
    BY <1>4, <1>10 DEF Life!Deliver, Life!Become
  <2>5. LifeInv => Outcome(o) /\ ChangesQuota(o, r, copied)
    BY <1>4, <2>2, <2>3, <2>4 DEF Outcome, ChangesQuota
  <2>6. AdminCopied(s) => ActiveOK(r)'
    BY <1>5, <2>3 DEF ActiveOK
  <2>. QED
    BY <1>3, <1>9, <2>2, <2>3, <2>5, <2>6
<1>. QED
  BY <1>2, <1>3, <1>7, <1>8, <1>9, <1>10 DEF ApplyChange
-----------------------------------------------------------------------------
(* The life cycle of orders.  Locking the order row does not refresh the     *)
(* copy a session decides from, so what is proved here is that sessions that *)
(* work on different orders, however many and however interleaved, keep to   *)
(* the life cycle.                                                           *)

OrdersApart == \A s, t \in Sessions :
    s # t /\ Busy(s) /\ Busy(t) => sess[s].order # sess[t].order

\* What the steps of a handler that end a session have in common.
Finishes(s) == Busy(s) /\ sess' = [sess EXCEPT ![s] = Idle]

LEMMA FinishOthers ==
  ASSUME SessionsOK, NEW s \in Sessions, Finishes(s)
  PROVE  /\ \A t \in Sessions \ {s} : sess'[t] = sess[t]
         /\ ~ Busy(s)'
         /\ sess[s].order \in Orders
  BY DEF SessionsOK, SessionOK, Finishes, Busy, Idle

LEMMA OutcomeLife ==
  ASSUME StatusOK, NEW o \in Orders, Outcome(o)
  PROVE  /\ [Life!Next]_status
         /\ \A x \in Orders \ {o} : status'[x] = status[x]
         /\ status[o] \in Life!Settled => status'[o] \in Life!Settled
         /\ Life!Deliver(o) => status'[o] = "completed"
  BY DEF StatusOK, Outcome, Life!Next, Life!Deliver, Life!Fail, Life!Become, Life!Settled

LEMMA HandlerLife ==
  ASSUME IInv, LifeInv, OrdersApart, NEW s \in Sessions, Finishes(s),
         NEW o, o = sess[s].order, Outcome(o), Appears(o)
  PROVE  LifeInv' /\ [Life!Next]_status
<1>1. o \in Orders /\ StatusOK /\ SessionsOK
  BY FinishOthers, RowsTyped DEF IInv
<1>2. /\ [Life!Next]_status
      /\ \A x \in Orders \ {o} : status'[x] = status[x]
      /\ status[o] \in Life!Settled => status'[o] \in Life!Settled
      /\ Life!Deliver(o) => status'[o] = "completed"
  BY <1>1, OutcomeLife
<1>3. \A t \in Sessions \ {s} : sess'[t] = sess[t] /\ ~ Busy(s)'
  BY <1>1, FinishOthers
<1>4. ASSUME NEW r \in Resellers, account'[r] # NoAccount
      PROVE  status'[r] \in Life!Settled
  <2>1. CASE account[r] # NoAccount
    BY <1>2, <2>1 DEF LifeInv, Orders
  <2>2. CASE r = o /\ Life!Deliver(o)
    BY <1>2, <2>2 DEF Life!Settled
  <2>. QED
    BY <1>4, <2>1, <2>2 DEF Appears
<1>5. ASSUME NEW t \in Sessions, Busy(t)', Deliverable(sess'[t].status)
      PROVE  status'[sess'[t].order] \in Life!Settled \ {"completed"}
  <2>1. t # s /\ sess'[t] = sess[t] /\ Busy(t)
    <3>1. t # s
      BY <1>5, FinishOthers, <1>1
    <3>. QED
      BY <1>3, <1>5, <3>1 DEF Busy
  <2>2. sess[t].order # o
    BY <2>1 DEF OrdersApart, Finishes
  <2>3. sess[t].order \in Orders
    BY <1>1, <2>1 DEF SessionsOK, SessionOK, Busy
  <2>. QED
    BY <1>2, <1>5, <2>1, <2>2, <2>3 DEF LifeInv
<1>. QED
  BY <1>2, <1>4, <1>5 DEF LifeInv

LEMMA ShopLife ==
  ASSUME IInv, LifeInv, Shop
  PROVE  LifeInv' /\ [Life!Next]_status
<1>1. PICK o \in Orders : Life!Place(o) \/ Life!Pay(o) \/ Life!Cancel(o) \/ Life!Repay(o)
  BY DEF Shop
<1>2. StatusOK /\ UNCHANGED <<account, sess>>
  BY RowsTyped DEF IInv, Shop
<1>3. [Life!Next]_status
  BY <1>1 DEF Life!Next
<1>4. /\ \A x \in Orders \ {o} : status'[x] = status[x]
      /\ status[o] \in Life!Settled => status'[o] = "paid"
  BY <1>1, <1>2 DEF StatusOK, Life!Place, Life!Pay, Life!Cancel, Life!Repay, Life!Become,
                    Life!Unpaid, Life!Settled
<1>5. \A x \in Orders :
        /\ status[x] \in Life!Settled => status'[x] \in Life!Settled
        /\ status[x] \in Life!Settled \ {"completed"}
           => status'[x] \in Life!Settled \ {"completed"}
  BY <1>4 DEF Life!Settled
<1>6. \A s \in Sessions : Busy(s) => sess[s].order \in Orders
  BY DEF IInv, SessionsOK, SessionOK, Busy
<1>. QED
  BY <1>2, <1>3, <1>5, <1>6 DEF LifeInv, Busy, Orders

\* What a session loads is true when it loads it.
LEMMA LoadLife ==
  ASSUME IInv, LifeInv, UNCHANGED <<status, account>>, NEW s \in Sessions, NEW new,
         sess' = [sess EXCEPT ![s] = new],
         new.order \in Orders,
         \/ new.status = status[new.order]
         \/ Busy(s) /\ new.order = sess[s].order /\ new.status = sess[s].status
  PROVE  LifeInv' /\ [Life!Next]_status
<1>1. sess'[s] = new /\ \A t \in Sessions \ {s} : sess'[t] = sess[t]
  BY DEF IInv, SessionsOK
<1>2. status[new.order] \in Statuses
  BY RowsTyped DEF IInv, StatusOK
<1>3. Deliverable(new.status) => status[new.order] \in Life!Settled \ {"completed"}
  BY <1>2 DEF LifeInv, Deliverable, Statuses, Life!Settled, Life!Unpaid
<1>. QED
  BY <1>1, <1>3 DEF LifeInv, Busy

LEMMA StepLife ==
  IInv /\ LifeInv /\ OrdersApart /\ [Next]_vars => LifeInv' /\ [Life!Next]_status
<1>. SUFFICES ASSUME IInv, LifeInv, OrdersApart, [Next]_vars
              PROVE  LifeInv' /\ [Life!Next]_status
  OBVIOUS
<1>1. CASE Shop
  BY <1>1, ShopLife
<1>2. ASSUME NEW p \in Panels, NEW r \in Resellers, PanelLosesAdmin(p, r)
      PROVE  LifeInv' /\ [Life!Next]_status
  BY <1>2 DEF PanelLosesAdmin, LifeInv, rows, Busy
<1>3. ASSUME NEW s \in Sessions, NEW o \in Orders, NEW work, LoadOrder(s, o, work)
      PROVE  LifeInv' /\ [Life!Next]_status
  <2>1. PICK new : /\ new = [stage |-> "order", work |-> work, order |-> o,
                            status |-> status[o]]
                   /\ sess' = [sess EXCEPT ![s] = new]
    BY <1>3 DEF LoadOrder
  <2>2. new.order = o /\ new.status = status[o]
    BY <2>1
  <2>3. UNCHANGED <<status, account>>
    BY <1>3 DEF LoadOrder, rows
  <2>. QED
    BY <2>1, <2>2, <2>3, LoadLife
<1>4. ASSUME NEW s \in Sessions, LoadAccount(s) PROVE LifeInv' /\ [Life!Next]_status
  <2>1. sess[s].order \in Orders /\ Busy(s)
    BY <1>4 DEF IInv, SessionsOK, SessionOK, LoadAccount, Busy
  <2>2. PICK new : /\ new.order = sess[s].order /\ new.status = sess[s].status
                   /\ sess' = [sess EXCEPT ![s] = new]
    BY <1>4 DEF LoadAccount, IInv, SessionsOK
  <2>3. UNCHANGED <<status, account>>
    BY <1>4 DEF LoadAccount, rows
  <2>. QED
    BY <2>1, <2>2, <2>3, LoadLife
<1>5. ASSUME NEW s \in Sessions, NEW work, NEW kinds, Working(s, work, kinds)
      PROVE  Finishes(s) /\ sess[s].order \in kinds
  BY <1>5 DEF Working, Finishes, Busy
<1>6. ASSUME NEW s \in Sessions, SyncQuota(s) PROVE LifeInv' /\ [Life!Next]_status
  <2>1. Finishes(s) /\ sess[s].order \in Resellers
    BY <1>5, <1>6 DEF SyncQuota
  <2>. QED
    BY <1>6, <2>1, SyncQuotaEffect, HandlerLife
<1>7. ASSUME NEW s \in Sessions, Provision(s) PROVE LifeInv' /\ [Life!Next]_status
  <2>1. Finishes(s) /\ sess[s].order \in Resellers
    BY <1>5, <1>7 DEF Provision
  <2>. QED
    BY <1>7, <2>1, ProvisionEffect, HandlerLife
<1>8. ASSUME NEW s \in Sessions, Reissue(s) PROVE LifeInv' /\ [Life!Next]_status
  <2>1. Finishes(s) /\ sess[s].order \in Resellers
    BY <1>5, <1>8 DEF Reissue
  <2>. QED
    BY <1>8, <2>1, ReissueEffect, HandlerLife
<1>9. ASSUME NEW s \in Sessions, ApplyChange(s) PROVE LifeInv' /\ [Life!Next]_status
  <2>1. Finishes(s) /\ sess[s].order \in Changes
    BY <1>5, <1>9 DEF ApplyChange
  <2>2. Target[sess[s].order] \in Resellers
    BY <2>1, FulfillmentAssumption
  <2>. QED
    BY <1>9, <2>1, <2>2, ApplyChangeEffect, HandlerLife
<1>10. ASSUME NEW s \in Sessions, GiveUp(s) PROVE LifeInv' /\ [Life!Next]_status
  <2>1. \A t \in Sessions : Busy(t)' => sess'[t] = sess[t] /\ Busy(t)
    BY <1>10 DEF GiveUp, IInv, SessionsOK, Busy, Idle
  <2>. QED
    BY <1>10, <2>1 DEF LifeInv, GiveUp, rows
<1>11. CASE UNCHANGED vars
  BY <1>11 DEF vars, LifeInv, Busy
<1>. QED
  BY <1>1, <1>2, <1>3, <1>4, <1>6, <1>7, <1>8, <1>9, <1>10, <1>11 DEF Next, Orders

\* While no two sessions work on one order, deliveries follow the life cycle:
\* nothing unpaid is delivered and nothing delivered fails afterwards, through
\* every retry, lost reply, crash and repeated payment
\* (services/provisioning.py:377-393, subscriptions.py:138-144).
THEOREM DeliveriesFollowLifecycle == Spec /\ []OrdersApart => FollowsLifecycle
<1>1. Init => LifeInv /\ Life!Init
  BY DEF Init, LifeInv, Busy, Idle
<1>2. IInv /\ LifeInv /\ OrdersApart /\ [Next]_vars => LifeInv' /\ [Life!Next]_status
  BY StepLife
<1>. QED
  BY Invariance, <1>1, <1>2, PTL DEF Spec, FollowsLifecycle, Life!Spec
-----------------------------------------------------------------------------
(* What was paid for.  A session adds a top-up to the quota it copied, so    *)
(* two that change one account can lose an update; one that is the only one  *)
(* on its account copied the quota the account has.                          *)

ResellersApart == \A s, t \in Sessions :
    s # t /\ Busy(s) /\ Busy(t)
    => ResellerOf(sess[s].order) # ResellerOf(sess[t].order)

\* A quota that the plans and additions together allow.
Backed(quota, plans, added) ==
    IF quota = 0 THEN \E o \in plans \cup added : Quota[o] = 0
    ELSE \E o \in plans : quota <= Quota[o] + QuotaSum(added)

Done(r, kind) == {o \in kind : Target[o] = r /\ status[o] = "completed"}

\* Stronger than QuotaIsPaidFor: changes count once they are delivered.
QuotaInv ==
    /\ \A r \in Resellers : account[r] # NoAccount =>
         Backed(account[r].quota, {r} \cup Done(r, Renewals), Done(r, Topups))
    /\ \A s \in Sessions : sess[s].stage = "ready" /\ sess[s].account # NoAccount =>
         sess[s].account.quota = account[ResellerOf(sess[s].order)].quota

LEMMA OrdersFinite ==
  ASSUME NEW S \in SUBSET Orders
  PROVE  IsFiniteSet(S) /\ \A o \in S : Quota[o] \in Nat
  BY FulfillmentAssumption, FS_Subset

LEMMA QuotaSumNat == ASSUME NEW S \in SUBSET Orders PROVE QuotaSum(S) \in Nat
  BY OrdersFinite, SumNat DEF QuotaSum

LEMMA QuotaSumMore ==
  ASSUME NEW S \in SUBSET Orders, NEW T \in SUBSET S
  PROVE  QuotaSum(T) <= QuotaSum(S)
  BY OrdersFinite, SumMonotone DEF QuotaSum

LEMMA QuotaSumAdd ==
  ASSUME NEW S \in SUBSET Orders, NEW o \in Orders \ S
  PROVE  QuotaSum(S \cup {o}) = Quota[o] + QuotaSum(S)
<1>1. IsFiniteSet(S) /\ \A x \in S \cup {o} : Quota[x] \in Nat
  BY OrdersFinite
<1>. QED
  BY <1>1, SumAdd DEF QuotaSum

\* More orders allow no less.
LEMMA BackedMore ==
  ASSUME NEW quota \in Nat,
         NEW P \in SUBSET Orders, NEW T \in SUBSET Orders,
         NEW P2 \in SUBSET P, NEW T2 \in SUBSET T,
         Backed(quota, P2, T2)
  PROVE  Backed(quota, P, T)
<1>1. CASE quota = 0
  BY <1>1 DEF Backed
<1>2. CASE quota # 0
  <2>1. PICK o \in P2 : quota <= Quota[o] + QuotaSum(T2)
    BY <1>2 DEF Backed
  <2>2. QuotaSum(T2) <= QuotaSum(T) /\ QuotaSum(T2) \in Nat /\ QuotaSum(T) \in Nat
    BY QuotaSumMore, QuotaSumNat
  <2>3. Quota[o] \in Nat
    BY QuotaNat
  <2>4. quota <= Quota[o] + QuotaSum(T)
    BY <2>1, <2>2, <2>3
  <2>. QED
    BY <1>2, <2>4 DEF Backed
<1>. QED
  BY <1>1, <1>2

\* The quota of one of the plans is allowed, whatever was added.
LEMMA BackedByPlan ==
  ASSUME NEW P \in SUBSET Orders, NEW T \in SUBSET Orders, NEW o \in P
  PROVE  Backed(Quota[o], P, T)
<1>1. Quota[o] \in Nat /\ QuotaSum(T) \in Nat
  BY QuotaNat, QuotaSumNat
<1>2. Quota[o] <= Quota[o] + QuotaSum(T)
  BY <1>1
<1>. QED
  BY <1>2 DEF Backed

\* A top-up that was not counted yet allows its quota to be added.
LEMMA BackedTopup ==
  ASSUME NEW quota \in Nat, NEW P \in SUBSET Orders, NEW T \in SUBSET Orders,
         NEW o \in Orders \ T, Backed(quota, P, T)
  PROVE  Backed(CombinedQuota(quota, Quota[o]), P, T \cup {o})
<1>1. Quota[o] \in Nat
  BY QuotaNat
<1>2. CASE quota = 0
  BY <1>2 DEF Backed, CombinedQuota
<1>3. CASE Quota[o] = 0
  BY <1>3 DEF Backed, CombinedQuota
<1>4. CASE quota # 0 /\ Quota[o] # 0
  <2>1. PICK x \in P : quota <= Quota[x] + QuotaSum(T)
    BY <1>4 DEF Backed
  <2>2. QuotaSum(T \cup {o}) = Quota[o] + QuotaSum(T) /\ QuotaSum(T) \in Nat
    BY QuotaSumAdd, QuotaSumNat
  <2>3. Quota[x] \in Nat
    BY QuotaNat
  <2>4. quota + Quota[o] <= Quota[x] + QuotaSum(T \cup {o})
    BY <1>1, <2>1, <2>2, <2>3
  <2>5. quota + Quota[o] # 0
    BY <1>1, <1>4
  <2>6. CombinedQuota(quota, Quota[o]) = quota + Quota[o]
    BY <1>4 DEF CombinedQuota
  <2>. QED
    BY <2>4, <2>5, <2>6 DEF Backed
<1>. QED
  BY <1>2, <1>3, <1>4

\* Without repeated payments a delivered order stays delivered.
DoneGrows == \A r \in Resellers :
    Done(r, Renewals) \subseteq Done(r, Renewals)' /\ Done(r, Topups) \subseteq Done(r, Topups)'

LEMMA LifeKeepsDone ==
  ASSUME ~ AllowRepay, StatusOK, [Life!Next]_status
  PROVE  DoneGrows
<1>1. CASE Life!Next
  <2>1. PICK o \in Orders : \/ Life!Place(o) \/ Life!Pay(o) \/ Life!Cancel(o)
                            \/ Life!Deliver(o) \/ Life!Fail(o) \/ Life!Repay(o)
    BY <1>1 DEF Life!Next
  <2>2. \A x \in Orders : status[x] = "completed" => status'[x] = "completed"
    BY <2>1 DEF StatusOK, Life!Place, Life!Pay, Life!Cancel, Life!Deliver, Life!Fail,
                Life!Repay, Life!Become, Life!Unpaid, Life!Settled
  <2>. QED
    BY <2>2 DEF DoneGrows, Done, Orders, Changes
<1>2. CASE UNCHANGED status
  BY <1>2 DEF DoneGrows, Done
<1>. QED
  BY <1>1, <1>2

LEMMA DoneOrders ==
  ASSUME NEW r \in Resellers
  PROVE  /\ {r} \cup Done(r, Renewals) \in SUBSET Orders
         /\ Done(r, Topups) \in SUBSET Orders
         /\ {r} \cup Done(r, Renewals)' \in SUBSET Orders
         /\ Done(r, Topups)' \in SUBSET Orders
  BY DEF Done, Orders, Changes

\* An account that keeps its quota stays backed by what is delivered.
LEMMA QuotaKept ==
  ASSUME IInv, QuotaInv, DoneGrows, NEW r \in Resellers,
         account[r] # NoAccount, account'[r].quota = account[r].quota
  PROVE  Backed(account'[r].quota, {r} \cup Done(r, Renewals)', Done(r, Topups)')
<1>. DEFINE P == {r} \cup Done(r, Renewals)'
            P2 == {r} \cup Done(r, Renewals)
            T == Done(r, Topups)'
            T2 == Done(r, Topups)
            q == account[r].quota
<1>1. P \in SUBSET Orders /\ T \in SUBSET Orders
  BY DoneOrders
<1>2. P2 \in SUBSET P /\ T2 \in SUBSET T
  BY DEF DoneGrows
<1>3. q \in Nat
  BY DEF IInv, RowsOK, TypeOK, Account
<1>4. Backed(q, P2, T2)
  BY DEF QuotaInv
<1>. HIDE DEF P, P2, T, T2, q
<1>5. Backed(q, P, T)
  BY <1>1, <1>2, <1>3, <1>4, BackedMore
<1>. QED
  BY <1>5 DEF P, T, q

LEMMA HandlerQuota ==
  ASSUME IInv, QuotaInv, ResellersApart, DoneGrows, NEW s \in Sessions, Finishes(s),
         NEW r \in Resellers, r = ResellerOf(sess[s].order), OthersKeepQuota(r),
         account'[r] # NoAccount =>
           Backed(account'[r].quota, {r} \cup Done(r, Renewals)', Done(r, Topups)')
  PROVE  QuotaInv'
<1>1. ASSUME NEW x \in Resellers, account'[x] # NoAccount
      PROVE  Backed(account'[x].quota, {x} \cup Done(x, Renewals)', Done(x, Topups)')
  <2>1. CASE x = r
    BY <1>1, <2>1
  <2>2. CASE x # r
    BY <1>1, <2>2, QuotaKept DEF OthersKeepQuota
  <2>. QED
    BY <2>1, <2>2
<1>2. ASSUME NEW t \in Sessions, sess'[t].stage = "ready", sess'[t].account # NoAccount
      PROVE  sess'[t].account.quota = account'[ResellerOf(sess'[t].order)].quota
  <2>1. t # s /\ sess'[t] = sess[t] /\ Busy(t)
    BY <1>2, FinishOthers DEF IInv, Busy
  <2>2. PICK x : x = ResellerOf(sess[t].order)
    OBVIOUS
  <2>3. ReadyOK(t) /\ sess[t].order \in Orders
    BY <1>2, <2>1 DEF IInv, SessionsOK, SessionOK
  <2>4. x # r
    BY <2>1, <2>2 DEF ResellersApart, Finishes
  <2>5. x \in Resellers /\ account[x] # NoAccount
    BY <1>2, <2>1, <2>2, <2>3, FulfillmentAssumption DEF ResellerOf, Orders, ReadyOK
  <2>6. sess[t].account.quota = account[x].quota
    BY <1>2, <2>1, <2>2 DEF QuotaInv
  <2>7. ResellerOf(sess'[t].order) = x
    BY <2>1, <2>2
  <2>. QED
    BY <2>1, <2>4, <2>5, <2>6, <2>7 DEF OthersKeepQuota
<1>. QED
  BY <1>1, <1>2 DEF QuotaInv, ResellerOf, Done

\* A handler that sets the quota of the reseller's plan, or none.
LEMMA PlanQuota ==
  ASSUME IInv, QuotaInv, DoneGrows, NEW r \in Resellers, KeepsPlan(r),
         account'[r] # NoAccount
  PROVE  Backed(account'[r].quota, {r} \cup Done(r, Renewals)', Done(r, Topups)')
<1>1. CASE account[r] # NoAccount /\ account'[r].quota = account[r].quota
  BY <1>1, QuotaKept
<1>2. CASE account'[r].quota = Quota[r]
  BY <1>2, DoneOrders, BackedByPlan
<1>. QED
  BY <1>1, <1>2 DEF KeepsPlan

\* A handler that delivers a renewal or a top-up to the quota it copied.
LEMMA ChangedQuota ==
  ASSUME IInv, QuotaInv, DoneGrows, NEW o \in Changes, NEW r \in Resellers,
         r = Target[o], account[r] # NoAccount,
         ChangesQuota(o, r, account[r].quota)
  PROVE  Backed(account'[r].quota, {r} \cup Done(r, Renewals)', Done(r, Topups)')
<1>1. CASE account'[r].quota = account[r].quota
  BY <1>1, QuotaKept
<1>2. CASE /\ Life!Deliver(o) /\ status[o] # "completed"
           /\ account'[r].quota = QuotaAfter(o, account[r].quota)
  <2>1. status'[o] = "completed" /\ o \in Orders
    BY <1>2 DEF Life!Deliver, Life!Become, Orders, IInv, RowsOK, TypeOK
  <2>2. CASE o \in Topups
    <3>. DEFINE P == {r} \cup Done(r, Renewals)'
                T == Done(r, Topups)'
                T2 == Done(r, Topups)
                P2 == {r} \cup Done(r, Renewals)
                q == account[r].quota
    <3>1. /\ P \in SUBSET Orders /\ T \in SUBSET Orders
          /\ P2 \in SUBSET Orders /\ T2 \in SUBSET Orders
      BY DoneOrders
    <3>2. o \in Orders \ T2 /\ T2 \cup {o} \in SUBSET T /\ P2 \in SUBSET P
      BY <1>2, <2>1, <2>2 DEF DoneGrows, Done
    <3>3. q \in Nat /\ Backed(q, P2, T2)
      BY DEF IInv, RowsOK, TypeOK, Account, QuotaInv
    <3>4. account'[r].quota = CombinedQuota(q, Quota[o])
      BY <1>2, <2>2 DEF QuotaAfter
    <3>5. CombinedQuota(q, Quota[o]) \in Nat
      BY <2>1, <3>3, QuotaNat DEF CombinedQuota
    <3>. HIDE DEF P, P2, T, T2, q
    <3>6. Backed(CombinedQuota(q, Quota[o]), P2, T2 \cup {o})
      BY <3>1, <3>2, <3>3, BackedTopup
    <3>7. Backed(CombinedQuota(q, Quota[o]), P, T)
      BY <3>1, <3>2, <3>5, <3>6, BackedMore
    <3>. QED
      BY <3>4, <3>7 DEF P, T
  <2>3. CASE o \notin Topups
    <3>1. o \in Done(r, Renewals)'
      BY <2>1, <2>3 DEF Done, Changes
    <3>2. account'[r].quota = Quota[o]
      BY <1>2, <2>3 DEF QuotaAfter
    <3>. QED
      BY <3>1, <3>2, DoneOrders, BackedByPlan
  <2>. QED
    BY <2>2, <2>3
<1>. QED
  BY <1>1, <1>2 DEF ChangesQuota, Flush

LEMMA SameQuota ==
  ASSUME QuotaInv, IInv, DoneGrows, UNCHANGED account,
         \A t \in Sessions : sess'[t].stage = "ready" /\ sess'[t].account # NoAccount =>
           sess'[t].account.quota = account[ResellerOf(sess'[t].order)].quota
  PROVE  QuotaInv'
<1>1. ASSUME NEW x \in Resellers, account'[x] # NoAccount
      PROVE  Backed(account'[x].quota, {x} \cup Done(x, Renewals)', Done(x, Topups)')
  BY <1>1, QuotaKept
<1>. QED
  BY <1>1 DEF QuotaInv, ResellerOf, Done

LEMMA ApartOrders == ResellersApart => OrdersApart
  BY DEF ResellersApart, OrdersApart, ResellerOf

LEMMA StepQuota ==
  ASSUME ~ AllowRepay, IInv, LifeInv, QuotaInv, ResellersApart, [Next]_vars
  PROVE  QuotaInv'
<1>1. DoneGrows
  BY ApartOrders, StepLife, LifeKeepsDone, RowsTyped DEF IInv
<1>2. ASSUME UNCHANGED <<account, sess>> PROVE QuotaInv'
  BY <1>1, <1>2, SameQuota DEF QuotaInv
<1>3. CASE Shop
  BY <1>2, <1>3 DEF Shop
<1>4. ASSUME NEW p \in Panels, NEW r \in Resellers, PanelLosesAdmin(p, r)
      PROVE  QuotaInv'
  BY <1>2, <1>4 DEF PanelLosesAdmin, rows
<1>5. ASSUME NEW s \in Sessions, NEW o \in Orders, NEW work, LoadOrder(s, o, work)
      PROVE  QuotaInv'
  <2>1. \A t \in Sessions : sess'[t].stage = "ready" => sess'[t] = sess[t]
    BY <1>5 DEF LoadOrder, IInv, SessionsOK
  <2>. QED
    BY <1>1, <1>5, <2>1, SameQuota DEF LoadOrder, rows, QuotaInv
<1>6. ASSUME NEW s \in Sessions, LoadAccount(s) PROVE QuotaInv'
  <2>1. \A t \in Sessions \ {s} : sess'[t] = sess[t]
    BY <1>6 DEF LoadAccount, IInv, SessionsOK
  <2>2. sess'[s].account = account[ResellerOf(sess[s].order)]
        /\ sess'[s].order = sess[s].order
    BY <1>6 DEF LoadAccount, IInv, SessionsOK
  <2>3. UNCHANGED account
    BY <1>6 DEF LoadAccount, rows
  <2>4. \A t \in Sessions : sess'[t].stage = "ready" /\ sess'[t].account # NoAccount =>
           sess'[t].account.quota = account[ResellerOf(sess'[t].order)].quota
    BY <2>1, <2>2 DEF QuotaInv
  <2>. QED
    BY <1>1, <2>3, <2>4, SameQuota
<1>7. ASSUME NEW s \in Sessions, NEW work, NEW kinds, Working(s, work, kinds)
      PROVE  Finishes(s) /\ sess[s].order \in kinds
  BY <1>7 DEF Working, Finishes, Busy
<1>8. ASSUME NEW s \in Sessions, Finishes(s), NEW r \in Resellers, r = sess[s].order,
             OthersKeepQuota(r), KeepsPlan(r)
      PROVE  QuotaInv'
  <2>1. ResellerOf(sess[s].order) = r
    BY <1>8 DEF ResellerOf
  <2>. QED
    BY <1>1, <1>8, <2>1, PlanQuota, HandlerQuota
<1>9. ASSUME NEW s \in Sessions, SyncQuota(s) PROVE QuotaInv'
  <2>1. Finishes(s) /\ sess[s].order \in Resellers
    BY <1>7, <1>9 DEF SyncQuota
  <2>. QED
    BY <1>8, <1>9, <2>1, SyncQuotaEffect
<1>10. ASSUME NEW s \in Sessions, Provision(s) PROVE QuotaInv'
  <2>1. Finishes(s) /\ sess[s].order \in Resellers
    BY <1>7, <1>10 DEF Provision
  <2>. QED
    BY <1>8, <1>10, <2>1, ProvisionEffect
<1>11. ASSUME NEW s \in Sessions, Reissue(s) PROVE QuotaInv'
  <2>1. Finishes(s) /\ sess[s].order \in Resellers
    BY <1>7, <1>11 DEF Reissue
  <2>. QED
    BY <1>8, <1>11, <2>1, ReissueEffect
<1>12. ASSUME NEW s \in Sessions, ApplyChange(s) PROVE QuotaInv'
  <2>1. /\ Finishes(s) /\ sess[s].order \in Changes
        /\ sess[s].stage = "ready"
    BY <1>7, <1>12 DEF ApplyChange, Working
  <2>2. PICK o \in Changes : o = sess[s].order
    BY <2>1
  <2>3. PICK r \in Resellers : r = Target[o]
    BY FulfillmentAssumption
  <2>4. r = ResellerOf(sess[s].order)
    BY <2>2, <2>3, FulfillmentAssumption DEF ResellerOf
  <2>5. /\ OthersKeepQuota(r) /\ ChangesQuota(o, r, sess[s].account.quota)
        /\ account[r] # NoAccount /\ sess[s].account # NoAccount
    BY <1>12, <2>2, <2>3, ApplyChangeEffect
  <2>6. sess[s].account.quota = account[r].quota
    BY <2>1, <2>4, <2>5 DEF QuotaInv
  <2>. QED
    BY <1>1, <2>1, <2>2, <2>3, <2>4, <2>5, <2>6, ChangedQuota, HandlerQuota
<1>13. ASSUME NEW s \in Sessions, GiveUp(s) PROVE QuotaInv'
  <2>1. \A t \in Sessions : sess'[t].stage = "ready" => sess'[t] = sess[t]
    BY <1>13 DEF GiveUp, IInv, SessionsOK, Idle
  <2>. QED
    BY <1>1, <1>13, <2>1, SameQuota DEF GiveUp, rows, QuotaInv
<1>14. CASE UNCHANGED vars
  BY <1>2, <1>14 DEF vars
<1>. QED
  BY <1>3, <1>4, <1>5, <1>6, <1>9, <1>10, <1>11, <1>12, <1>13, <1>14 DEF Next, Orders

LEMMA QuotaInvPaid ==
  ASSUME IInv, QuotaInv
  PROVE  QuotaIsPaidFor
<1>1. ASSUME NEW r \in Resellers, account[r] # NoAccount
      PROVE  Backed(account[r].quota, {r} \cup PaidChanges(r, Renewals),
                    PaidChanges(r, Topups))
  <2>. DEFINE P == {r} \cup PaidChanges(r, Renewals)
              P2 == {r} \cup Done(r, Renewals)
              T == PaidChanges(r, Topups)
              T2 == Done(r, Topups)
              q == account[r].quota
  <2>1. /\ P \in SUBSET Orders /\ T \in SUBSET Orders
        /\ P2 \in SUBSET P /\ T2 \in SUBSET T
    BY DEF PaidChanges, Done, Orders, Changes, Life!Settled
  <2>2. q \in Nat /\ Backed(q, P2, T2)
    BY <1>1 DEF IInv, RowsOK, TypeOK, Account, QuotaInv
  <2>. HIDE DEF P, P2, T, T2, q
  <2>3. Backed(q, P, T)
    BY <2>1, <2>2, BackedMore
  <2>. QED
    BY <2>3 DEF P, T, q
<1>. QED
  BY <1>1 DEF QuotaIsPaidFor, Backed

\* While no two sessions work on one reseller and no order is paid twice, no
\* account ever holds more than was paid for it, through every retry, lost
\* reply and crash: each top-up counts once (services/subscriptions.py:138-193).
THEOREM QuotaStaysPaidFor ==
  ASSUME ~ AllowRepay
  PROVE  Spec /\ []ResellersApart => []QuotaIsPaidFor
<1>1. Init => LifeInv /\ QuotaInv
  BY DEF Init, LifeInv, QuotaInv, Busy, Idle
<1>2. IInv /\ LifeInv /\ QuotaInv /\ ResellersApart /\ [Next]_vars => LifeInv' /\ QuotaInv'
  BY StepQuota, StepLife, ApartOrders
<1>3. IInv /\ QuotaInv => QuotaIsPaidFor
  BY QuotaInvPaid
<1>. QED
  BY Invariance, <1>1, <1>2, <1>3, PTL DEF Spec
-----------------------------------------------------------------------------
(* Active subscriptions.  A handler that activates one found an admin in its *)
(* copy of the account; another handler on the same panel may meanwhile have *)
(* taken that admin's id from it.                                            *)

PanelsApart == \A s, t \in Sessions :
    s # t /\ sess[s].stage = "ready" /\ sess[t].stage = "ready"
    => sess[s].panel # sess[t].panel

AdminInv ==
    /\ \A r \in Resellers : ActiveOK(r)
    /\ \A s \in Sessions : sess[s].stage = "ready" => AdminCopied(s)

LEMMA HandlerAdmin ==
  ASSUME IInv, AdminInv, PanelsApart, NEW s \in Sessions,
         Finishes(s), sess[s].stage = "ready",
         NEW r \in Resellers, r = ResellerOf(sess[s].order),
         OthersKeepAdmin(sess[s].panel, r),
         account[r] # NoAccount =>
           \/ account'[r].admin = account[r].admin
           \/ account[r].panel = sess[s].panel,
         AdminCopied(s) /\ ActiveOK(r) => ActiveOK(r)'
  PROVE  AdminInv'
<1>1. ASSUME NEW x \in Resellers PROVE ActiveOK(x)'
  <2>1. CASE x = r
    BY <2>1 DEF AdminInv
  <2>2. CASE x # r
    BY <2>2 DEF AdminInv, OthersKeepAdmin, ActiveOK
  <2>. QED
    BY <2>1, <2>2
<1>2. ASSUME NEW t \in Sessions, sess'[t].stage = "ready", sess'[t].account # NoAccount
      PROVE  sess'[t].account.admin = account'[ResellerOf(sess'[t].order)].admin
  <2>1. t # s /\ sess'[t] = sess[t]
    BY <1>2, FinishOthers DEF IInv, Busy
  <2>2. PICK x : x = ResellerOf(sess[t].order)
    OBVIOUS
  <2>3. ReadyOK(t) /\ sess[t].order \in Orders
    BY <1>2, <2>1 DEF IInv, SessionsOK, SessionOK
  <2>4. sess[t].panel # sess[s].panel
    BY <1>2, <2>1 DEF PanelsApart
  <2>5. x \in Resellers /\ account[x] # NoAccount /\ account[x].panel = sess[t].panel
    BY <1>2, <2>1, <2>2, <2>3, FulfillmentAssumption DEF ResellerOf, Orders, ReadyOK
  <2>6. sess[t].account.admin = account[x].admin
    BY <1>2, <2>1, <2>2 DEF AdminInv, AdminCopied
  <2>7. ResellerOf(sess'[t].order) = x
    BY <2>1, <2>2
  <2>8. account'[x].admin = account[x].admin
    BY <2>4, <2>5 DEF OthersKeepAdmin
  <2>. QED
    BY <2>1, <2>6, <2>7, <2>8
<1>. QED
  BY <1>1, <1>2 DEF AdminInv, AdminCopied, ResellerOf

LEMMA SameAdmin ==
  ASSUME AdminInv, UNCHANGED <<account, subscription>>,
         \A t \in Sessions : sess'[t].stage = "ready" /\ sess'[t].account # NoAccount =>
           sess'[t].account.admin = account[ResellerOf(sess'[t].order)].admin
  PROVE  AdminInv'
  BY DEF AdminInv, ActiveOK, AdminCopied, HasAdmin, ResellerOf

LEMMA StepAdmin ==
  ASSUME IInv, AdminInv, PanelsApart, [Next]_vars
  PROVE  AdminInv'
<1>1. ASSUME UNCHANGED <<account, subscription, sess>> PROVE AdminInv'
  BY <1>1, SameAdmin DEF AdminInv, AdminCopied
<1>2. CASE Shop
  BY <1>1, <1>2 DEF Shop
<1>3. ASSUME NEW p \in Panels, NEW r \in Resellers, PanelLosesAdmin(p, r)
      PROVE  AdminInv'
  BY <1>1, <1>3 DEF PanelLosesAdmin, rows
<1>4. ASSUME NEW s \in Sessions, NEW o \in Orders, NEW work, LoadOrder(s, o, work)
      PROVE  AdminInv'
  <2>1. \A t \in Sessions : sess'[t].stage = "ready" => sess'[t] = sess[t]
    BY <1>4 DEF LoadOrder, IInv, SessionsOK
  <2>. QED
    BY <1>4, <2>1, SameAdmin DEF LoadOrder, rows, AdminInv, AdminCopied
<1>5. ASSUME NEW s \in Sessions, LoadAccount(s) PROVE AdminInv'
  <2>1. \A t \in Sessions \ {s} : sess'[t] = sess[t]
    BY <1>5 DEF LoadAccount, IInv, SessionsOK
  <2>2. sess'[s].account = account[ResellerOf(sess[s].order)]
        /\ sess'[s].order = sess[s].order
    BY <1>5 DEF LoadAccount, IInv, SessionsOK
  <2>3. UNCHANGED <<account, subscription>>
    BY <1>5 DEF LoadAccount, rows
  <2>4. \A t \in Sessions : sess'[t].stage = "ready" /\ sess'[t].account # NoAccount =>
           sess'[t].account.admin = account[ResellerOf(sess'[t].order)].admin
    BY <2>1, <2>2 DEF AdminInv, AdminCopied
  <2>. QED
    BY <2>3, <2>4, SameAdmin
<1>6. ASSUME NEW s \in Sessions, NEW work, NEW kinds, Working(s, work, kinds)
      PROVE  Finishes(s) /\ sess[s].order \in kinds /\ sess[s].stage = "ready"
  BY <1>6 DEF Working, Finishes, Busy
<1>7. \A r \in Resellers : ResellerOf(r) = r
  BY DEF ResellerOf
<1>8. ASSUME NEW s \in Sessions, SyncQuota(s) PROVE AdminInv'
  <2>1. Finishes(s) /\ sess[s].order \in Resellers /\ sess[s].stage = "ready"
    BY <1>6, <1>8 DEF SyncQuota
  <2>. QED
    BY <1>7, <1>8, <2>1, SyncQuotaEffect, HandlerAdmin
<1>9. ASSUME NEW s \in Sessions, Provision(s) PROVE AdminInv'
  <2>1. Finishes(s) /\ sess[s].order \in Resellers /\ sess[s].stage = "ready"
    BY <1>6, <1>9 DEF Provision
  <2>. QED
    BY <1>7, <1>9, <2>1, ProvisionEffect, HandlerAdmin
<1>10. ASSUME NEW s \in Sessions, Reissue(s) PROVE AdminInv'
  <2>1. Finishes(s) /\ sess[s].order \in Resellers /\ sess[s].stage = "ready"
    BY <1>6, <1>10 DEF Reissue
  <2>. QED
    BY <1>7, <1>10, <2>1, ReissueEffect, HandlerAdmin
<1>11. ASSUME NEW s \in Sessions, ApplyChange(s) PROVE AdminInv'
  <2>1. Finishes(s) /\ sess[s].order \in Changes /\ sess[s].stage = "ready"
    BY <1>6, <1>11 DEF ApplyChange
  <2>2. PICK o \in Changes : o = sess[s].order
    BY <2>1
  <2>3. PICK r \in Resellers : r = Target[o]
    BY FulfillmentAssumption
  <2>4. r = ResellerOf(sess[s].order)
    BY <2>2, <2>3, FulfillmentAssumption DEF ResellerOf
  <2>. QED
    BY <1>11, <2>1, <2>2, <2>3, <2>4, ApplyChangeEffect, HandlerAdmin
<1>12. ASSUME NEW s \in Sessions, GiveUp(s) PROVE AdminInv'
  <2>1. \A t \in Sessions : sess'[t].stage = "ready" => sess'[t] = sess[t]
    BY <1>12 DEF GiveUp, IInv, SessionsOK, Idle
  <2>. QED
    BY <1>12, <2>1, SameAdmin DEF GiveUp, rows, AdminInv, AdminCopied
<1>13. CASE UNCHANGED vars
  BY <1>1, <1>13 DEF vars
<1>. QED
  BY <1>2, <1>3, <1>4, <1>5, <1>8, <1>9, <1>10, <1>11, <1>12, <1>13 DEF Next, Orders

\* While no two sessions call one panel at a time, an active subscription always
\* has an admin, through every repaired collision and lost reply
\* (services/provisioning.py:198-212, 356-366).
THEOREM ActiveStaysServed == Spec /\ []PanelsApart => []ActiveHasAdmin
<1>1. Init => AdminInv
  BY DEF Init, AdminInv, ActiveOK, Idle, NoSubscription
<1>2. IInv /\ AdminInv /\ PanelsApart /\ [Next]_vars => AdminInv'
  BY StepAdmin
<1>3. AdminInv => ActiveHasAdmin
  BY DEF AdminInv, ActiveOK, ActiveHasAdmin
<1>. QED
  BY Invariance, <1>1, <1>2, <1>3, PTL DEF Spec

\* One session at a time, for any number of orders, panels and ids, keeps all of
\* it: what its retries, lost replies, crashes and repairs do stays within the
\* life cycle, active subscriptions keep their admins, and unless an order is
\* paid twice no account holds more than was paid for.
THEOREM OneSessionSuffices ==
  ASSUME \A s, t \in Sessions : s = t
  PROVE  Spec => /\ FollowsLifecycle
                 /\ []ActiveHasAdmin
                 /\ ~ AllowRepay => []QuotaIsPaidFor
<1>1. OrdersApart /\ ResellersApart /\ PanelsApart
  BY DEF OrdersApart, ResellersApart, PanelsApart
<1>2. Spec => FollowsLifecycle
  BY <1>1, DeliveriesFollowLifecycle, PTL
<1>3. Spec => []ActiveHasAdmin
  BY <1>1, ActiveStaysServed, PTL
<1>4. ASSUME ~ AllowRepay PROVE Spec => []QuotaIsPaidFor
  BY <1>1, <1>4, QuotaStaysPaidFor, PTL
<1>. QED
  BY <1>2, <1>3, <1>4
=============================================================================
