SPECIFICATION Spec
CONSTANTS
    s1 = s1
    s2 = s2
    s3 = s3
    s4 = s4
    o1 = o1
    o2 = o2
    Students = {s1, s2, s3, s4}
    Offerings = {o1, o2}
    Requests = {q1, q2, q3}
    Calls <- SeatCalls
    Timetable <- Hours
    Capacities = {}
    Limits = {1, 2}
    SeededCapacity <- TwoSeats
    SeededSeats <- FullOne
    SeededQueue <- TwoWait
    InitialLimits = {None, 1}
    None = None
    Unlimited = Unlimited
SYMMETRY Symmetry
INVARIANTS
    TypeOK
    CounterMatchesSeats
    NoOverbooking
    SeatXorQueue
    NoScheduleClash
    LoadSecured
    DecidedOnCurrentRows
    NoDeadlock
PROPERTIES
    OldestEligible
    ImplementsLedger
CHECK_DEADLOCK FALSE
