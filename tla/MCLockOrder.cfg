SPECIFICATION Spec
CONSTANTS
    o1 = o1
    o2 = o2
    p1 = p1
    c1 = c1
    c2 = c2
    w1 = w1
    v1 = v1
    s1 = s1
    s2 = s2
    s3 = s3
    Sessions = {s1, s2, s3}
    NewOrders = {o1}
    Changes = {o2}
    Payments = {p1}
    Codes = {c1, c2}
    Wallets = {w1}
    Services = {v1}
    OrderOf <- OrderOfPayment
    WalletOf <- WalletOfOrder
INVARIANTS
    TypeOK
    CyclesExplained
SYMMETRY Alike
