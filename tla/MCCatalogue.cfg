SPECIFICATION Spec
CONSTANTS
    o1 = o1
    o2 = o2
    pl1 = pl1
    c1 = c1
    cu1 = cu1
    s1 = s1
    Orders = {o1, o2}
    Plans = {pl1}
    Codes = {c1}
    Customers = {cu1}
    Sessions = {s1}
    PlanOf <- PlanOfOrder
    Owner <- OwnerOfOrder
    Kind <- KindOfCode
    Prices = {1, 2}
    Quotas = {0, 1}
    Values = {1}
    Limits = {}
INVARIANTS
    TypeOK
    SoldAsOffered
    UsesSurviveEdits
SYMMETRY Twins
