SPECIFICATION SessionsSpec
CONSTANTS
    o1 = o1
    o2 = o2
    alice = alice
    half = half
    full = full
    zarinpal = zarinpal
    receipt = receipt
    k1 = k1
    k2 = k2
    credit = credit
    s1 = s1
    s2 = s2
    Sessions = {s1, s2}
    Customers = {alice}
    Owner <- OneOwner
    ListPrice <- PriceTwo
    Kind <- KindOf
    Value <- ValueOf
    MaxUses <- UsedOnce
    Receipt = receipt
    WalletKey <- KeyOf
    Amounts = {2}
    Orders = {o1}
    Codes = {half, full}
    PaymentIds <- ThreePayments
    Gateways = {zarinpal}
    ManualMethods = {receipt}
    Keys = {k1, credit}
INVARIANTS
    UsedCountExact
    DebitMatchesPayment
    PaidHasItsPayment
PROPERTIES
    PaymentsAreFinal
SYMMETRY TwoSessions
CHECK_DEADLOCK FALSE
