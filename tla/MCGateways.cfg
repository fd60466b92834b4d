SPECIFICATION Spec
CONSTANTS
    o1 = o1
    m1 = m1
    e1 = e1
    p1 = p1
    p2 = p2
    inv1 = inv1
    inv2 = inv2
    ours = ours
    theirs = theirs
    Orders = {o1}
    MethodIds = {m1}
    PaymentIds = {p1, p2}
    Refs = {inv1, inv2}
    Kinds = {"zibal", "nextpay", "manual_card"}
    Accounts = {ours, theirs}
    Editors = {e1}
INVARIANTS
    TypeOK
    VerifiedIsSettled
    MethodsFit
PROPERTY PaidIsNotFailed
CHECK_DEADLOCK FALSE
