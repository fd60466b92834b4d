SPECIFICATION Spec
CONSTANTS
    None = None
    i1 = i1
    i2 = i2
    boss = boss
    ann = ann
    n1 = n1
    s1 = s1
    s2 = s2
    Rows = {i1, i2}
    People = {boss, ann}
    OwnerIds = {boss}
    Names = {n1}
    Given = {"owner", "admin", "support"}
    Invited = {ann}
    Asked = {"manage_users"}
    MaxTokens = 1
    Sessions = {s1, s2}
INVARIANTS
    TypeOK
PROPERTIES
    RightsAreCurrent
    ChangesStand
SYMMETRY Alike
