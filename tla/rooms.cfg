SPECIFICATION FairSpec
CONSTANTS
    u1 = u1
    u2 = u2
    r1 = r1
    r2 = r2
    q1 = q1
    Users = {u1, u2}
    Rooms = {r1, r2}
    Requests = {q1, q2, q3}
    Calls <- RoomCalls
    RoleOf <- OneAdmin
    Windows <- ThreeWindows
    SeededRooms = {r1}
    InitialQuotas <- TwoForStudents
    Limits = {1}
    PoolSize = 2
    MaxLost = 1
    None = None
    Unlimited = Unlimited
INVARIANTS
    TypeOK
    NoDoubleBooking
    ConflictMeansBooking
    QuotaSecured
    CirclesOnlyOnSlots
PROPERTIES
    NoneOnBlocked
    RefusedOnSettledRows
    EveryRequestAnswered
    ImplementsCalendar
CHECK_DEADLOCK FALSE
