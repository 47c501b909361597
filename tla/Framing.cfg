\* Every way to cut six messages into pieces; the second has no callback.
CONSTANTS
    Payload <- SixPayloads
    Handled = {1, 3, 4, 6}
    HeaderSize = 4
    DelimSize = 2
    Capacity = 8
    Garbage = {0, 1, 9}
    MaxShort = 1
SPECIFICATION FairSpec
INVARIANTS
    StreamIntact
    EndsOnlyForCause
PROPERTIES
    AllDelivered
\* A receiver that ended stays so.
CHECK_DEADLOCK FALSE
