\* Two units of one type; the console and the callbacks of both units call the
\* server, two calls in all.
CONSTANTS
    u1 = u1  u2 = u2
    Units = {u1, u2}
    Handles = {1, 2}
    UnitTypes = {1, 2}
    TypeOf <- OneType
    Uuids = {11, 12}
    Answers = {"unit", "short", "garbage"}
    ConsoleOps = {"sendToAll", "sendToAllOfType", "clear_aborted", "closeConnection"}
    CallbackOps = {"sendToAllOfType", "sendToAnyOfType", "rerouteToAnyOfType", "sendTo", "getUuidForUnitType"}
    MayBlock = TRUE
    MaxCalls = 2
    None = None
SPECIFICATION Spec
INVARIANTS
    MapsAgree
    HandleOwned
    FreedAtSpawnOrRetry
    SendsArrive
\* The process may have ended.
CHECK_DEADLOCK FALSE
