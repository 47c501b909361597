\* Two units of one type; the console and the callbacks send and remove, two
\* calls in all; every thread is scheduled fairly.
CONSTANTS
    u1 = u1  u2 = u2
    Units = {u1, u2}
    Handles = {1, 2}
    UnitTypes = {1}
    TypeOf <- OneType
    Uuids = {11, 12}
    Answers = {"unit"}
    ConsoleOps = {"sendToAll", "sendToAllOfType", "closeConnection"}
    CallbackOps = {"sendTo", "sendToAnyOfType"}
    MayBlock = TRUE
    MaxCalls = 2
    None = None
SPECIFICATION FairSpec
PROPERTY
    CallsReturn
\* The process may have ended.
CHECK_DEADLOCK FALSE
