SPECIFICATION Spec
CONSTANTS
    u1 = u1
    u2 = u2
    r1 = r1
    r2 = r2
    q1 = q1
    Users = {u1, u2}
    Rooms = {r1}
    Requests = {q1, q2, q3}
    Calls <- RaceCalls
    RoleOf <- OneAdmin
    Windows <- ThreeWindows
    SeededRooms = {r1}
    InitialQuotas <- TwoForStudents
    Limits = {}
    PoolSize = 50
    MaxLost = 0
    None = None
    Unlimited = Unlimited
INVARIANT
    LosersGetConflict
CHECK_DEADLOCK FALSE
