SPECIFICATION Spec
CONSTANTS
    w1 = w1
    w2 = w2
    NoWs = NoWs
    Sessions <- MCSessions
    BufferMax = 2
    MaxEvents = 4
\* Sockets and events are bounded: they are eventually used up.
CHECK_DEADLOCK FALSE
INVARIANTS TypeOK BufferIsRight
PROPERTIES EventsSettle
