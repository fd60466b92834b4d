---------------------------- MODULE StaffProofs ----------------------------
(***************************************************************************)
(* Proofs about Staff, for any number of rows, people, usernames, tokens   *)
(* and concurrent requests.                                                *)
(***************************************************************************)
EXTENDS Staff, TLAPS

\* A request that is going to write has loaded the row it writes, or a blank
\* object to insert.  Rows are never deleted, so the row still exists.
HasLoaded(r) == IF r.row = None THEN r.saw = Blank
                ELSE r.row \in Existing /\ r.saw \in Row

IInv ==
    /\ TypeOK
    /\ \A s \in Sessions :
         work[s] # None /\ work[s] \in StaffRequest => HasLoaded(work[s])

-----------------------------------------------------------------------------
(* Rights *)

\* Only the owner manages staff.
LEMMA ManagersAreOwners ==
    ASSUME NEW role \in Role, "manage_admins" \in ROLE_PERMISSIONS[role]
    PROVE  role = "owner"
  BY DEF ROLE_PERMISSIONS, Role, Permission

LEMMA RowIsRow ==
    ASSUME TypeOK, NEW i \in Existing
    PROVE  /\ i \in Rows
           /\ staff[i] \in Row
  BY DEF TypeOK, Existing

LEMMA RowIsNotNone == \A row \in Row : row # None
  BY StaffAssumption

LEMMA FoundIsFound ==
    ASSUME NEW is \in SUBSET Existing
    PROVE  Found(is) = None \/ Found(is) \in Existing
<1>1. CASE is = {}
  BY <1>1 DEF Found
<1>2. CASE is # {}
  <2>1. (CHOOSE i \in is : TRUE) \in is
    BY <1>2
  <2>. QED BY <1>2, <2>1 DEF Found
<1>. QED BY <1>1, <1>2

LEMMA LoadedIsTyped ==
    ASSUME TypeOK, NEW i, i = None \/ i \in Existing
    PROVE  Loaded(i) \in Row \cup {Blank}
  BY RowIsRow DEF Loaded

LEMMA BlankIsTyped ==
    /\ Blank.telegram = None
    /\ Blank.username = None
  BY DEF Blank

\* A request over the web is the owner's, or its row gives it the right.
LEMMA WebRights ==
    ASSUME TypeOK, NEW t \in Claim, NEW p \in Permission,
           require_web_permission(t, p)
    PROVE  ByTheOwner(t) \/ \E i \in Existing : EntitledBy(i, t, p)
<1>1. PICK role \in web_role(t) : p \in ROLE_PERMISSIONS[role]
  BY DEF require_web_permission
<1>2. CASE t.staff = None
  <2>1. t.role = "owner"
    BY <1>1, <1>2 DEF web_role
  <2>2. t = Owner
    BY <1>2, <2>1 DEF Claim, Owner
  <2>. QED BY <2>2 DEF ByTheOwner
<1>3. CASE t.staff # None
  <2>1. PICK i \in Existing : /\ i = t.staff
                              /\ staff[i].active
                              /\ role = staff[i].role
    BY <1>1, <1>3 DEF web_role
  <2>2. role \in StaffRole
    BY <2>1, RowIsRow DEF Row
  <2>3. p # "manage_admins"
    BY <1>1, <2>2, ManagersAreOwners DEF StaffRole
  <2>4. EntitledBy(i, t, p)
    BY <1>1, <2>1, <2>3 DEF EntitledBy, Holder
  <2>. QED BY <2>4
<1>. QED BY <1>2, <1>3

LEMMA TelegramRights ==
    ASSUME TypeOK, NEW q \in People, NEW p \in Permission,
           admin_has_permission(q, p)
    PROVE  ByTheOwner(q) \/ \E i \in Existing : EntitledBy(i, q, p)
<1>1. PICK role \in get_admin_role(q) : p \in ROLE_PERMISSIONS[role]
  BY DEF admin_has_permission
<1>2. CASE q \in OwnerIds
  BY <1>2 DEF ByTheOwner
<1>3. CASE q \notin OwnerIds
  <2>1. PICK i \in Existing : /\ staff[i].telegram = q
                              /\ staff[i].active
                              /\ role = staff[i].role
    BY <1>1, <1>3 DEF get_admin_role, ByTelegram
  <2>2. role \in StaffRole
    BY <2>1, RowIsRow DEF Row
  <2>3. p # "manage_admins"
    BY <1>1, <2>2, ManagersAreOwners DEF StaffRole
  <2>4. EntitledBy(i, q, p)
    BY <1>1, <2>1, <2>3 DEF EntitledBy, Holder
  <2>. QED BY <2>4
<1>. QED BY <1>2, <1>3

-----------------------------------------------------------------------------
(* Types *)

LEMMA OwnerIsClaim == Owner \in Claim
  BY DEF Owner, Claim, Role

\* What is in work by its permission.
LEMMA WorkByRight ==
    ASSUME TypeOK, NEW s \in Sessions, work[s] # None
    PROVE  /\ work[s].may = "manage_admins" => work[s] \in StaffRequest
           /\ work[s].may = None => work[s] \in Login
<1>1. None # "manage_admins" /\ None \notin Permission
  BY StaffAssumption DEF Permission
<1>2. work[s] \in StaffRequest \cup OtherRequest \cup Login
  BY DEF TypeOK
<1>3. work[s] \in StaffRequest => work[s].may = "manage_admins"
  BY DEF StaffRequest
<1>4. work[s] \in OtherRequest => work[s].may \in Permission \ {"manage_admins"}
  BY DEF OtherRequest
<1>5. work[s] \in Login => work[s].may = None
  BY DEF Login
<1>. QED BY <1>1, <1>2, <1>3, <1>4, <1>5

\* A new entry in work that has its type and has loaded its row.
LEMMA WorkInv ==
    ASSUME IInv, NEW s \in Sessions, UNCHANGED <<staff, tokens, form>>,
           NEW r \in StaffRequest \cup OtherRequest \cup Login \cup {None},
           r # None /\ r \in StaffRequest => HasLoaded(r),
           work' = [work EXCEPT ![s] = r]
    PROVE  IInv'
<1>1. TypeOK'
  BY DEF IInv, TypeOK
<1>2. ASSUME NEW z \in Sessions, work'[z] # None, work'[z] \in StaffRequest
      PROVE  HasLoaded(work[z])'
  <2>1. CASE z = s
    BY <2>1, <1>2 DEF IInv, TypeOK, HasLoaded, Existing
  <2>2. CASE z # s
    BY <2>2, <1>2 DEF IInv, TypeOK, HasLoaded, Existing
  <2>. QED BY <2>1, <2>2
<1>. QED BY <1>1, <1>2 DEF IInv

LEMMA BeginInv ==
    ASSUME IInv, NEW s \in Sessions, UNCHANGED <<staff, tokens, form>>,
           NEW by \in Claim \cup People,
           NEW i, i = None \/ i \in Existing, NEW now \in Row,
           NEW step \in {"lookup", "form", "ready"},
           Begin(s, by, i, now, step)
    PROVE  IInv'
<1>1. Loaded(i) \in Row \cup {Blank}
  BY LoadedIsTyped DEF IInv
<1>2. i \in Rows \cup {None}
  BY RowIsRow DEF IInv
<1>. DEFINE r == [by |-> by, may |-> "manage_admins", row |-> i,
                  saw |-> Loaded(i), now |-> now, step |-> step]
<1>3. r \in StaffRequest
  BY <1>1, <1>2 DEF StaffRequest
<1>4. HasLoaded(r)
  BY RowIsRow DEF HasLoaded, Loaded, IInv
<1>5. work' = [work EXCEPT ![s] = r]
  BY DEF Begin
<1>. HIDE DEF r
<1>. QED BY <1>3, <1>4, <1>5, WorkInv

LEMMA InitInv == ASSUME Init PROVE IInv
  BY DEF Init, IInv, TypeOK

LEMMA CreateInv ==
    ASSUME IInv, NEW s \in Sessions, create_staff(s)
    PROVE  IInv'
<1>1. PICK t \in tokens \cup {Owner}, n \in Names, q \in Invited \cup {None},
           role \in Given :
        /\ MayGive(role)
        /\ Begin(s, t, Found(ByUsername(n)),
                 [telegram |-> q, username |-> n, role |-> role, active |-> TRUE],
                 "lookup")
  BY DEF create_staff
<1>. DEFINE now == [telegram |-> q, username |-> n, role |-> role, active |-> TRUE]
<1>2. now \in Row
  BY <1>1, StaffAssumption DEF Row, MayGive
<1>3. t \in Claim
  BY OwnerIsClaim DEF IInv, TypeOK
<1>4. Found(ByUsername(n)) = None \/ Found(ByUsername(n)) \in Existing
  BY FoundIsFound DEF ByUsername
<1>5. Begin(s, t, Found(ByUsername(n)), now, "lookup")
  BY <1>1
<1>. HIDE DEF now
<1>. QED BY <1>2, <1>3, <1>4, <1>5, BeginInv DEF create_staff

LEMMA UpsertInv ==
    ASSUME IInv, NEW s \in Sessions, upsert_web_staff_admin(s)
    PROVE  IInv'
<1>. DEFINE r == work[s]
            other == Found(ByTelegram(r.now.telegram))
            i == IF r.row # None THEN r.row ELSE other
            saw == IF r.row # None THEN r.saw ELSE Loaded(other)
            telegram == IF r.now.telegram # None THEN r.now.telegram
                        ELSE saw.telegram
            done == [r EXCEPT !.row = i, !.saw = saw, !.now.telegram = telegram,
                              !.step = "ready"]
            refused == r.row # None /\ other # None /\ r.row # other
<1>1. r \in StaffRequest /\ HasLoaded(r)
  BY WorkByRight DEF upsert_web_staff_admin, IInv
<1>2. other = None \/ other \in Existing
  <2>1. ByTelegram(r.now.telegram) \in SUBSET Existing
    BY DEF ByTelegram
  <2>. QED BY <2>1, FoundIsFound
<1>3. /\ Loaded(other) \in Row \cup {Blank}
      /\ other = None => Loaded(other) = Blank
      /\ other # None => Loaded(other) \in Row
  BY <1>2, LoadedIsTyped, RowIsRow DEF Loaded, IInv
<1>4. /\ i \in Rows \cup {None}
      /\ saw \in Row \cup {Blank}
      /\ i = None => saw = Blank
      /\ i # None => i \in Existing /\ saw \in Row
  BY <1>1, <1>2, <1>3, RowIsRow DEF StaffRequest, HasLoaded, IInv
<1>5. telegram \in People \cup {None}
  BY <1>1, <1>4, BlankIsTyped DEF StaffRequest, Row
<1>6. done \in StaffRequest /\ done.row = i /\ done.saw = saw
  <2>. HIDE DEF i, saw, telegram
  <2>1. [r.now EXCEPT !.telegram = telegram] \in Row
    BY <1>1, <1>5 DEF StaffRequest, Row
  <2>. QED BY <1>1, <1>4, <2>1 DEF StaffRequest
<1>7. HasLoaded(done)
  BY <1>4, <1>6 DEF HasLoaded
<1>8. work' = [work EXCEPT ![s] = IF refused THEN None ELSE done]
  BY DEF upsert_web_staff_admin
<1>9. UNCHANGED <<staff, tokens, form>>
  BY DEF upsert_web_staff_admin
<1>. HIDE DEF done, refused
<1>10. CASE refused
  <2>1. work' = [work EXCEPT ![s] = None]
    BY <1>8, <1>10
  <2>. QED BY <1>9, <2>1, WorkInv
<1>11. CASE ~refused
  <2>1. work' = [work EXCEPT ![s] = done]
    BY <1>8, <1>11
  <2>. QED BY <1>6, <1>7, <1>9, <2>1, WorkInv
<1>. QED BY <1>10, <1>11

LEMMA PasswordInv ==
    ASSUME IInv, NEW s \in Sessions, change_staff_password(s)
    PROVE  IInv'
<1>1. PICK t \in tokens \cup {Owner}, i \in Existing :
        Begin(s, t, i, staff[i], "ready")
  BY DEF change_staff_password
<1>2. t \in Claim /\ staff[i] \in Row
  BY OwnerIsClaim, RowIsRow DEF IInv, TypeOK
<1>. QED BY <1>1, <1>2, BeginInv DEF change_staff_password

LEMMA StatusInv ==
    ASSUME IInv, NEW s \in Sessions, set_staff_status(s)
    PROVE  IInv'
<1>1. PICK t \in tokens \cup {Owner}, i \in Existing, active \in BOOLEAN :
        Begin(s, t, i, [staff[i] EXCEPT !.active = active], "ready")
  BY DEF set_staff_status
<1>2. t \in Claim /\ [staff[i] EXCEPT !.active = active] \in Row
  BY OwnerIsClaim, RowIsRow DEF IInv, TypeOK, Row
<1>. QED BY <1>1, <1>2, BeginInv DEF set_staff_status

LEMMA ToggleInv ==
    ASSUME IInv, NEW s \in Sessions, staff_toggle(s)
    PROVE  IInv'
<1>1. PICK q \in People, i \in Existing :
        Begin(s, q, i, [staff[i] EXCEPT !.active = ~staff[i].active], "ready")
  BY DEF staff_toggle
<1>2. (~staff[i].active) \in BOOLEAN
  OBVIOUS
<1>3. [staff[i] EXCEPT !.active = ~staff[i].active] \in Row
  BY <1>2, RowIsRow DEF Row, IInv
<1>. QED BY <1>1, <1>3, BeginInv DEF staff_toggle

LEMMA AnswerInv ==
    ASSUME IInv, NEW s \in Sessions, staff_add_telegram_id(s)
    PROVE  IInv'
<1>1. PICK q \in People, id \in Invited :
        /\ form[q] # None
        /\ Begin(s, q, Found(ByTelegram(id)),
                 [telegram |-> id, username |-> Loaded(Found(ByTelegram(id))).username,
                  role |-> form[q], active |-> TRUE], "form")
  BY DEF staff_add_telegram_id
<1>. DEFINE i == Found(ByTelegram(id))
            now == [telegram |-> id, username |-> Loaded(i).username,
                    role |-> form[q], active |-> TRUE]
<1>2. i = None \/ i \in Existing
  BY FoundIsFound DEF ByTelegram
<1>3. Loaded(i).username \in Names \cup {None}
  BY <1>2, LoadedIsTyped, BlankIsTyped DEF Row, IInv
<1>4. form[q] \in StaffRole
  BY <1>1 DEF IInv, TypeOK
<1>5. now \in Row
  BY <1>3, <1>4, StaffAssumption DEF Row
<1>6. Begin(s, q, i, now, "form")
  BY <1>1
<1>. HIDE DEF now, i
<1>. QED BY <1>2, <1>5, <1>6, BeginInv DEF staff_add_telegram_id

LEMMA OtherInv ==
    ASSUME IInv, NEW s \in Sessions, Other(s)
    PROVE  IInv'
<1>1. PICK by \in tokens \cup {Owner} \cup People, p \in Asked :
        work' = [work EXCEPT ![s] =
                   [by |-> by, may |-> p, row |-> None, saw |-> Blank,
                    now |-> Blank, step |-> "ready"]]
  BY DEF Other
<1>. DEFINE r == [by |-> by, may |-> p, row |-> None, saw |-> Blank,
                  now |-> Blank, step |-> "ready"]
<1>2. by \in Claim \cup People /\ p \in Permission \ {"manage_admins"}
  BY OwnerIsClaim, StaffAssumption DEF IInv, TypeOK
<1>3. r \in OtherRequest /\ r \notin StaffRequest
  BY <1>2 DEF OtherRequest, StaffRequest
<1>4. UNCHANGED <<staff, tokens, form>> /\ work' = [work EXCEPT ![s] = r]
  BY <1>1 DEF Other
<1>. HIDE DEF r
<1>. QED BY <1>3, <1>4, WorkInv

LEMMA LoginInv ==
    ASSUME IInv, NEW s \in Sessions, admin_login(s)
    PROVE  IInv'
<1>1. PICK i \in Existing :
        work' = [work EXCEPT ![s] = [row |-> i, saw |-> staff[i], may |-> None]]
  BY DEF admin_login, ByUsername
<1>. DEFINE r == [row |-> i, saw |-> staff[i], may |-> None]
<1>2. r \in Login
  BY RowIsRow DEF Login, IInv
<1>3. r \notin StaffRequest
  <2>1. None # "manage_admins"
    BY StaffAssumption DEF Permission
  <2>. QED BY <2>1 DEF StaffRequest
<1>4. UNCHANGED <<staff, tokens, form>> /\ work' = [work EXCEPT ![s] = r]
  BY <1>1 DEF admin_login
<1>. HIDE DEF r
<1>. QED BY <1>2, <1>3, <1>4, WorkInv

\* What is written is a row: an inserted one has all its columns assigned.
LEMMA WrittenIsRow ==
    ASSUME TypeOK, NEW r \in StaffRequest, HasLoaded(r)
    PROVE  Written(r, Loaded(r.row)) \in Row
<1>1. r.now \in Row
  BY DEF StaffRequest
<1>2. CASE r.row # None
  <2>1. Loaded(r.row) \in Row
    BY <1>2, RowIsRow DEF HasLoaded, Loaded
  <2>. HIDE DEF Loaded
  <2>. QED BY <1>1, <2>1 DEF Written, Write, Row
<1>3. CASE r.row = None
  <2>1. Loaded(r.row) = Blank /\ r.saw = Blank
    BY <1>3 DEF HasLoaded, Loaded
  <2>2. r.now.role # None /\ r.now.active # None
    BY <1>1, StaffAssumption DEF Row, StaffRole
  <2>3. /\ Write(r, Blank, "telegram") \in People \cup {None}
        /\ Write(r, Blank, "username") \in Names \cup {None}
    BY <1>1, <2>1 DEF Write, Row, Blank
  <2>4. /\ Write(r, Blank, "role") = r.now.role
        /\ Write(r, Blank, "active") = r.now.active
    BY <2>1, <2>2 DEF Write, Blank
  <2>. QED BY <1>1, <2>1, <2>3, <2>4 DEF Written, Row
<1>. QED BY <1>2, <1>3

\* A commit writes one row: the one it loaded, or a new one.
LEMMA CommitWrites ==
    ASSUME IInv, NEW s \in Sessions, Commit(s)
    PROVE  /\ work[s] \in StaffRequest
           /\ HasLoaded(work[s])
           /\ \E i \in Rows :
                /\ i = work[s].row \/ (work[s].row = None /\ i \notin Existing)
                /\ staff' = [staff EXCEPT ![i] =
                               Written(work[s], Loaded(work[s].row))]
<1>1. work[s] \in StaffRequest /\ HasLoaded(work[s])
  BY WorkByRight DEF Commit, IInv
<1>2. work[s].row # None => work[s].row \in Rows
  BY <1>1 DEF StaffRequest
<1>. QED BY <1>1, <1>2 DEF Commit

LEMMA CommitInv ==
    ASSUME IInv, NEW s \in Sessions, Commit(s)
    PROVE  IInv'
<1>. DEFINE row == Written(work[s], Loaded(work[s].row))
<1>1. work[s] \in StaffRequest /\ HasLoaded(work[s])
  BY CommitWrites
<1>2. row \in Row
  BY <1>1, WrittenIsRow DEF IInv
<1>3. PICK i \in Rows : staff' = [staff EXCEPT ![i] = row]
  BY CommitWrites
<1>4. work' = [work EXCEPT ![s] = None]
  BY DEF Commit
<1>. HIDE DEF row
<1>5. TypeOK'
  <2>1. staff' \in [Rows -> Row \cup {None}]
    BY <1>2, <1>3 DEF IInv, TypeOK
  <2>2. form' \in [People -> StaffRole \cup {None}]
    BY DEF Commit, IInv, TypeOK
  <2>3. work' \in [Sessions -> StaffRequest \cup OtherRequest \cup Login \cup {None}]
    BY <1>4 DEF IInv, TypeOK
  <2>. QED BY <2>1, <2>2, <2>3 DEF Commit, IInv, TypeOK
<1>6. Existing \subseteq Existing'
  <2>1. row # None
    BY <1>2, RowIsNotNone
  <2>. QED BY <1>3, <2>1 DEF Existing, IInv, TypeOK
<1>7. ASSUME NEW z \in Sessions, work'[z] # None, work'[z] \in StaffRequest
      PROVE  HasLoaded(work[z])'
  <2>1. z # s /\ work'[z] = work[z]
    BY <1>4, <1>7 DEF IInv, TypeOK
  <2>2. HasLoaded(work[z])
    BY <1>7, <2>1 DEF IInv
  <2>. QED BY <1>6, <2>1, <2>2 DEF HasLoaded
<1>. QED BY <1>5, <1>7 DEF IInv

LEMMA CommitLoginInv ==
    ASSUME IInv, NEW s \in Sessions, CommitLogin(s)
    PROVE  IInv'
<1>1. work[s] \in Login
  BY WorkByRight DEF CommitLogin, IInv
<1>2. [staff |-> work[s].row, role |-> work[s].saw.role] \in Claim
  BY <1>1 DEF Login, Row, Claim, StaffRole
<1>3. TypeOK'
  BY <1>2 DEF CommitLogin, IInv, TypeOK
<1>4. ASSUME NEW z \in Sessions, work'[z] # None, work'[z] \in StaffRequest
      PROVE  HasLoaded(work[z])'
  <2>1. z # s /\ work'[z] = work[z]
    BY <1>4 DEF CommitLogin, IInv, TypeOK
  <2>. QED BY <1>4, <2>1 DEF CommitLogin, IInv, HasLoaded, Existing
<1>. QED BY <1>3, <1>4 DEF IInv

LEMMA EndInv ==
    ASSUME IInv, NEW s \in Sessions, End(s)
    PROVE  IInv'
  BY WorkInv DEF End

\* The steps that leave staff and work alone.
LEMMA RestInv ==
    ASSUME IInv, UNCHANGED <<staff, work>>,
           tokens' \in SUBSET Claim, form' \in [People -> StaffRole \cup {None}]
    PROVE  IInv'
  BY DEF IInv, TypeOK, HasLoaded, Existing

LEMMA FormInv ==
    ASSUME IInv, NEW q \in People, staff_add_start(q) \/ staff_role_selected(q)
    PROVE  IInv'
<1>1. UNCHANGED <<staff, work, tokens>>
  BY DEF staff_add_start, staff_role_selected
<1>2. form' \in [People -> StaffRole \cup {None}]
  BY DEF staff_add_start, staff_role_selected, MayGive, IInv, TypeOK
<1>3. tokens' \in SUBSET Claim
  BY <1>1 DEF IInv, TypeOK
<1>. QED BY <1>1, <1>2, <1>3, RestInv

LEMMA ExpireInv ==
    ASSUME IInv, NEW t \in tokens, Expire(t)
    PROVE  IInv'
  BY RestInv DEF Expire, IInv, TypeOK

LEMMA Invariant == Spec => []IInv
<1>1. Init => IInv
  BY InitInv
<1>2. IInv /\ [Next]_vars => IInv'
  <2>. SUFFICES ASSUME IInv, [Next]_vars PROVE IInv'
    OBVIOUS
  <2>1. CASE UNCHANGED vars
    BY <2>1 DEF vars, IInv, TypeOK, HasLoaded, Existing
  <2>2. ASSUME NEW s \in Sessions,
               \/ Other(s) \/ create_staff(s) \/ upsert_web_staff_admin(s)
               \/ change_staff_password(s) \/ set_staff_status(s)
               \/ staff_toggle(s) \/ staff_add_telegram_id(s) \/ admin_login(s)
               \/ Commit(s) \/ CommitLogin(s) \/ End(s)
        PROVE  IInv'
    BY <2>2, OtherInv, CreateInv, UpsertInv, PasswordInv, StatusInv, ToggleInv,
       AnswerInv, LoginInv, CommitInv, CommitLoginInv, EndInv
  <2>3. ASSUME NEW q \in People, staff_add_start(q) \/ staff_role_selected(q)
        PROVE  IInv'
    BY <2>3, FormInv
  <2>4. ASSUME NEW t \in tokens, Expire(t)
        PROVE  IInv'
    BY <2>4, ExpireInv
  <2>. QED BY <2>1, <2>2, <2>3, <2>4 DEF Next
<1>. QED BY <1>1, <1>2, PTL DEF Spec

-----------------------------------------------------------------------------
(* Theorems *)

\* The variables keep their types: no row has the role of the owner, whichever
\* way it was made (services/admins.py upsert_staff_admin,
\* upsert_web_staff_admin).
THEOREM TypeCorrect == Spec => []TypeOK
<1>1. IInv => TypeOK
  BY DEF IInv
<1>. QED BY <1>1, Invariant, PTL

\* The step in which a request begins, and who it begins for.
LEMMA NoneBegins ==
    ASSUME NEW s \in Sessions, work' = [work EXCEPT ![s] = None],
           NEW z \in Sessions, work[z] = None, IInv
    PROVE  work'[z] = None
  BY DEF IInv, TypeOK

LEMMA OneBegins ==
    ASSUME IInv, NEW s \in Sessions, NEW r, work' = [work EXCEPT ![s] = r],
           NEW z \in Sessions, work[z] = None, work'[z] # None
    PROVE  work'[z] = r
  BY DEF IInv, TypeOK

RightsStep ==
    \A s \in Sessions :
      (work[s] = None /\ work'[s] # None /\ work'[s].may # None)
      => \/ ByTheOwner(work'[s].by)
         \/ \E i \in Existing : EntitledBy(i, work'[s].by, work'[s].may)

LEMMA BeginRights ==
    ASSUME IInv, NEW s \in Sessions, NEW by, NEW i, NEW now, NEW step,
           Begin(s, by, i, now, step),
           \/ by \in People /\ admin_has_permission(by, "manage_admins")
           \/ by \in Claim /\ require_web_permission(by, "manage_admins")
    PROVE  RightsStep
<1>. DEFINE r == [by |-> by, may |-> "manage_admins", row |-> i,
                  saw |-> Loaded(i), now |-> now, step |-> step]
<1>1. work' = [work EXCEPT ![s] = r]
  BY DEF Begin
<1>2. r.by = by /\ r.may = "manage_admins"
  OBVIOUS
<1>3. \/ ByTheOwner(by)
      \/ \E j \in Existing : EntitledBy(j, by, "manage_admins")
  BY WebRights, TelegramRights DEF IInv, Permission
<1>. HIDE DEF r
<1>. QED BY <1>1, <1>2, <1>3, OneBegins DEF RightsStep

LEMMA OtherRights == ASSUME IInv, NEW s \in Sessions, Other(s) PROVE RightsStep
<1>1. PICK by \in tokens \cup {Owner} \cup People, p \in Asked :
        /\ \/ by \in People /\ admin_has_permission(by, p)
           \/ by \notin People /\ require_web_permission(by, p)
        /\ work' = [work EXCEPT ![s] =
                      [by |-> by, may |-> p, row |-> None, saw |-> Blank,
                       now |-> Blank, step |-> "ready"]]
  BY DEF Other
<1>. DEFINE r == [by |-> by, may |-> p, row |-> None, saw |-> Blank,
                  now |-> Blank, step |-> "ready"]
<1>2. p \in Permission
  BY StaffAssumption
<1>3. by \in People \/ by \in Claim
  BY OwnerIsClaim DEF IInv, TypeOK
<1>4. ByTheOwner(by) \/ \E j \in Existing : EntitledBy(j, by, p)
  BY <1>1, <1>2, <1>3, WebRights, TelegramRights DEF IInv
<1>5. r.by = by /\ r.may = p
  OBVIOUS
<1>6. work' = [work EXCEPT ![s] = r]
  BY <1>1
<1>. HIDE DEF r
<1>. QED BY <1>4, <1>5, <1>6, OneBegins DEF RightsStep

LEMMA SessionRights ==
    ASSUME IInv, NEW s \in Sessions,
           \/ Other(s) \/ create_staff(s) \/ upsert_web_staff_admin(s)
           \/ change_staff_password(s) \/ set_staff_status(s)
           \/ staff_toggle(s) \/ staff_add_telegram_id(s) \/ admin_login(s)
           \/ Commit(s) \/ CommitLogin(s) \/ End(s)
    PROVE  RightsStep
<1>. USE OwnerIsClaim
<1>1. ASSUME NEW t \in tokens \cup {Owner} PROVE t \in Claim
  BY DEF IInv, TypeOK
<1>2. CASE Other(s)
  BY <1>2, OtherRights
<1>3. CASE create_staff(s)
  BY <1>3, <1>1, BeginRights DEF create_staff
<1>4. CASE upsert_web_staff_admin(s)
  BY <1>4 DEF upsert_web_staff_admin, RightsStep, IInv, TypeOK
<1>5. CASE change_staff_password(s)
  BY <1>5, <1>1, BeginRights DEF change_staff_password
<1>6. CASE set_staff_status(s)
  BY <1>6, <1>1, BeginRights DEF set_staff_status
<1>7. CASE staff_toggle(s)
  BY <1>7, BeginRights DEF staff_toggle
<1>8. CASE staff_add_telegram_id(s)
  BY <1>8, BeginRights DEF staff_add_telegram_id
<1>9. CASE admin_login(s)
  <2>1. PICK i \in Rows :
          work' = [work EXCEPT ![s] = [row |-> i, saw |-> staff[i], may |-> None]]
    BY <1>9 DEF admin_login, ByUsername, Existing
  <2>2. [row |-> i, saw |-> staff[i], may |-> None].may = None
    OBVIOUS
  <2>. QED BY <2>1, <2>2, OneBegins DEF RightsStep
<1>10. CASE Commit(s) \/ CommitLogin(s) \/ End(s)
  BY <1>10, NoneBegins DEF Commit, CommitLogin, End, RightsStep
<1>. QED BY <1>2, <1>3, <1>4, <1>5, <1>6, <1>7, <1>8, <1>9, <1>10

\* A request begins only for the owner the settings name, or for somebody whose
\* row is active and has the right as it is committed now; nobody with a row
\* manages staff (admin_panel.py _authenticate_web_admin, services/admins.py
\* get_admin_role).
THEOREM RightsAreAlwaysCurrent == Spec => RightsAreCurrent
<1>1. IInv /\ [Next]_vars => [RightsStep]_vars
  <2>. SUFFICES ASSUME IInv, Next PROVE RightsStep
    OBVIOUS
  <2>1. ASSUME NEW q \in People, staff_add_start(q) \/ staff_role_selected(q)
        PROVE  RightsStep
    BY <2>1 DEF staff_add_start, staff_role_selected, RightsStep
  <2>2. ASSUME NEW t \in tokens, Expire(t)
        PROVE  RightsStep
    BY <2>2 DEF Expire, RightsStep
  <2>. QED BY <2>1, <2>2, SessionRights DEF Next
<1>. QED BY <1>1, Invariant, PTL DEF Spec, RightsAreCurrent, RightsStep

-----------------------------------------------------------------------------
ChangeStep ==
    \A i \in Existing, c \in Columns :
      staff'[i][c] # staff[i][c]
      => \E s \in Sessions :
           /\ work[s] # None
           /\ work'[s] = None
           /\ work[s].row = i
           /\ work[s].saw[c] # staff'[i][c]

LEMMA StaffSame == ASSUME UNCHANGED staff PROVE ChangeStep
  BY DEF ChangeStep

LEMMA WrittenColumn ==
    ASSUME NEW r, NEW old, NEW c \in Columns
    PROVE  Written(r, old)[c] = Write(r, old, c)
  BY DEF Written, Columns

LEMMA CommitChanges ==
    ASSUME IInv, NEW s \in Sessions, Commit(s) PROVE ChangeStep
<1>. DEFINE r == work[s]
            row == Written(r, Loaded(r.row))
<1>1. PICK i \in Rows : /\ i = r.row \/ (r.row = None /\ i \notin Existing)
                        /\ staff' = [staff EXCEPT ![i] = row]
  BY CommitWrites
<1>2. work[s] # None /\ work'[s] = None
  BY DEF Commit, IInv, TypeOK
<1>. SUFFICES ASSUME NEW j \in Existing, NEW c \in Columns,
                     staff'[j][c] # staff[j][c]
              PROVE  r.row = j /\ r.saw[c] # staff'[j][c]
  BY <1>2 DEF ChangeStep
<1>3. j \in Rows
  BY DEF Existing
<1>4. j = i /\ staff'[j] = row
  <2>. HIDE DEF row
  <2>. QED BY <1>1, <1>3 DEF IInv, TypeOK
<1>5. r.row = j
  BY <1>1, <1>4
<1>6. Loaded(r.row) = staff[j]
  BY <1>5, <1>3, StaffAssumption DEF Loaded
<1>7. staff'[j][c] = Write(r, staff[j], c)
  BY <1>4, <1>6, WrittenColumn
<1>8. r.now[c] # r.saw[c] /\ staff'[j][c] = r.now[c]
  BY <1>7 DEF Write
<1>. QED BY <1>5, <1>8

\* A change of a row stands until a request that read something else than it
\* writes asks for another one: a request that read the row before the change
\* undoes no suspension and no demotion (services/admins.py, which locks no row).
THEOREM ChangesAlwaysStand == Spec => ChangesStand
<1>1. IInv /\ [Next]_vars => [ChangeStep]_vars
  <2>. SUFFICES ASSUME IInv, Next PROVE ChangeStep
    OBVIOUS
  <2>1. ASSUME NEW s \in Sessions, Commit(s) PROVE ChangeStep
    BY <2>1, CommitChanges
  <2>2. ASSUME NEW s \in Sessions,
               \/ Other(s) \/ create_staff(s) \/ upsert_web_staff_admin(s)
               \/ change_staff_password(s) \/ set_staff_status(s)
               \/ staff_toggle(s) \/ staff_add_telegram_id(s) \/ admin_login(s)
               \/ CommitLogin(s) \/ End(s)
        PROVE  ChangeStep
    BY <2>2, StaffSame DEF Other, create_staff, upsert_web_staff_admin,
       change_staff_password, set_staff_status, staff_toggle,
       staff_add_telegram_id, admin_login, CommitLogin, End
  <2>3. ASSUME NEW q \in People, staff_add_start(q) \/ staff_role_selected(q)
        PROVE  ChangeStep
    BY <2>3, StaffSame DEF staff_add_start, staff_role_selected
  <2>4. ASSUME NEW t \in tokens, Expire(t) PROVE ChangeStep
    BY <2>4, StaffSame DEF Expire
  <2>. QED BY <2>1, <2>2, <2>3, <2>4 DEF Next
<1>. QED BY <1>1, Invariant, PTL DEF Spec, ChangesStand, ChangeStep
=============================================================================
