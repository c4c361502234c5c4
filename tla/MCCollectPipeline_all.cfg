SPECIFICATION Spec
CONSTANTS
    h1 = h1
    h2 = h2
    h3 = h3
    a1 = a1
    Scan = Scan
    NoHost = NoHost
    Hosts <- ThreeHosts
    Collectable <- TwoHosts
    Addresses <- OneAddress
    Ip <- SameIp
    DatabaseErrors = TRUE
\* One pipeline: when it is over nothing is left to happen.
CHECK_DEADLOCK FALSE
INVARIANTS TypeOK OutcomesAreTrue
PROPERTIES JobIsKept JobEnds
