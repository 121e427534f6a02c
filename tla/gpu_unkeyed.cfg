SPECIFICATION Spec
CONSTANTS
    u1 = u1
    u2 = u2
    c1 = c1
    c2 = c2
    k1 = k1
    k2 = k2
    Users = {u1, u2}
    Clusters = {c1, c2}
    Keys = {}
    Requests = {q1, q2, q3}
    Calls <- UnkeyedCalls
    RoleOf <- OneAdmin
    Seeded <- OneCluster
    Capacities = {1}
    Limits = {1, Unlimited}
    InitialQuotas <- Two
    MaxUnits = 2
    None = None
    Unlimited = Unlimited
SYMMETRY Symmetry
INVARIANTS
    TypeOK
    NoDeadlock
    CounterMatchesRows
    NoOversell
    QuotaSecured
    DecidedOnCurrentRow
PROPERTY
    OnlyCancelReleases
CHECK_DEADLOCK FALSE
