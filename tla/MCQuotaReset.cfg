SPECIFICATION Spec
CONSTANTS
    r1 = r1
    r2 = r2
    renew = renew
    topup = topup
    id1 = id1
    id2 = id2
    germany = germany
    finland = finland
    s1 = s1
    s2 = s2
    Target <- TargetOf
    Quota <- QuotaOf
    Resellers = {r1}
    Renewals = {}
    Topups = {topup}
    Panels = {germany}
    AdminIds = {id1, id2}
    Sessions = {s1}
    AllowRepay = FALSE
INVARIANT TopupsAreKept
CHECK_DEADLOCK FALSE
