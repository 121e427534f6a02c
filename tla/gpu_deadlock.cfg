SPECIFICATION Spec
CONSTANTS
    u1 = u1
    u2 = u2
    c1 = c1
    c2 = c2
    k1 = k1
    k2 = k2
    Users = {u1, u2}
    Clusters = {c1}
    Keys = {k1, k2}
    Requests = {q1, q2}
    Calls <- KeyedCalls
    RoleOf <- Students
    Seeded <- OneCluster
    Capacities = {}
    Limits = {}
    InitialQuotas <- Two
    MaxUnits = 2
    None = None
    Unlimited = Unlimited
INVARIANTS
    NoDeadlock
CHECK_DEADLOCK FALSE
