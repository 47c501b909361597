\* Two worker threads wait; the TCP listener and the destructor call.
CONSTANTS
    PlanIds = {11, 12}
    NodeIds = {1, 2}
    Waiters = {w1, w2}
    Callers = {listener, destructor}
SPECIFICATION FairSpec
INVARIANTS
    NoLostWakeup
PROPERTIES
    CompletionsKept
    WaitReturns
