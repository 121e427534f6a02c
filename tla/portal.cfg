SPECIFICATION Spec
CONSTANTS
    b1 = b1
    admin = admin
    student = student
    e1 = e1
    e2 = e2
    e3 = e3
    p1 = p1
    p2 = p2
    c1 = c1
    c2 = c2
    Codes = {c1, c2}
    Canonical <- OneCode
    Browsers = {b1}
    Requests = {1, 2, 3}
    Emails = {e1, e2, e3}
    SeededUsers <- Seeded
    Pairs = {p1, p2}
    SeededPolicies <- OnePolicy
    Limits = {3}
    RegisterRoles = {"STUDENT"}
    SignedIn <- Sessions
    MaxKeys = 1
    MaxLost = 1
    None = None
    Unlimited = Unlimited
INVARIANTS
    TypeOK
    UniqueRowsDecide
    PressedTwiceBooksOnce
    NoForeignIds
PROPERTIES
    DemotedAtOnce
    PageSettles
CHECK_DEADLOCK FALSE
