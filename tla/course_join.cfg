SPECIFICATION Spec
CONSTANTS
    s1 = s1
    s2 = s2
    s3 = s3
    s4 = s4
    o1 = o1
    o2 = o2
    Students = {s1, s2, s3}
    Offerings = {o1, o2}
    Requests = {q1, q2}
    Calls <- QueueCalls
    Timetable <- Hours
    Capacities = {1}
    Limits = {}
    SeededCapacity <- OneSeat
    SeededSeats <- FullByOne
    SeededQueue <- OneWaits
    InitialLimits = {2}
    None = None
    Unlimited = Unlimited
INVARIANTS
    JoinIsAnswered
CHECK_DEADLOCK FALSE
