SPECIFICATION Spec
CONSTANTS
    w1 = w1
    w2 = w2
    w3 = w3
    NoWs = NoWs
    Sessions <- MCSessions
\* Each socket connects once: the bounded set of them is eventually used up.
CHECK_DEADLOCK FALSE
INVARIANTS TypeOK OwnersAreSerial SupersedesEstablished
PROPERTIES ConnectionsSettle
