SPECIFICATION FairSpec
CONSTANTS
    o1 = o1
    o2 = o2
    alice = alice
    half = half
    full = full
    zarinpal = zarinpal
    zibal = zibal
    receipt = receipt
    card = card
    k1 = k1
    k2 = k2
    credit = credit
    Customers = {alice}
    Owner <- OneOwner
    ListPrice <- PriceTwo
    Kind <- KindOf
    Value <- ValueOf
    MaxUses <- UsedOnce
    Receipt = receipt
    WalletKey <- KeyOf
    Amounts = {2}
    Orders = {o1, o2}
    Codes = {half, full}
    PaymentIds <- ThreePayments
    Gateways = {zarinpal}
    ManualMethods = {receipt}
    Keys = {k1, k2, credit}
INVARIANTS
    TypeOK
    PriceSplit
    UsedCountExact
    PaidIffVerified
    SettledAtFinalPrice
    DiscountFollowsOrder
    ClosedOrdersHaveNoPending
    LedgerExplainsBalance
    DebitMatchesPayment
PROPERTIES
    PaymentsAreFinal
    PaidPriceIsFrozen
    ImplementsLifecycle
    StaleReservationsEnd
CHECK_DEADLOCK FALSE
