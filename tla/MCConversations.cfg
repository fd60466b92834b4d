SPECIFICATION Spec
CONSTANTS
    ann = ann
    sam = sam
    o1 = o1
    t1 = t1
    t2 = t2
    x1 = x1
    x2 = x2
    Users = {ann, sam}
    Team = {sam}
    Orders = {o1}
    Owner <- AnnsOrders
    Tickets = {t1, t2}
    MaxMessages = 3
    Updates = {x1, x2}
    Inputs = {"services", "text"}
INVARIANTS
    TypeOK
    StatusTellsLastWriter
    WrittenByOwner
    MenuIsNotAMessage
PROPERTY ClosedIsFinal
SYMMETRY Symmetric
