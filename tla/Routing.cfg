CONSTANTS
    o1 = o1  o2 = o2  c1 = c1  c2 = c2  m1 = m1
    u1 = u1  u2 = u2  u3 = u3  u4 = u4
    Optimizers = {o1, o2}
    Computes = {c1}
    Monitors = {}
    Uuids = {u1, u2, u3}
    NoUuid = NoUuid
    Work <- OneEach
    Requests = {"TEXT", "REROUTE_WORK", "MONITOR_REQUEST", "UUID_FOR_UNIT_REQUEST", "CONNECT_ACTION", "CONNECT_ACTION_INFO", "CONFIGURATION_ACTION"}
    MaxRequests = 1
    Coalesce = TRUE
    MayLose = {c1}
    None = None
SPECIFICATION Spec
CHECK_DEADLOCK FALSE
SYMMETRY Symmetry
INVARIANT RoutedRight
INVARIANT AnswersComeHome
INVARIANT NoRequestVanishes
