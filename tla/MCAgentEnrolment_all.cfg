SPECIFICATION Spec
CONSTANTS
    a1 = a1
    a2 = a2
    t1 = t1
    t2 = t2
    t3 = t3
    NoThread = NoThread
    Agents <- TwoAgents
    Threads <- ThreeThreads
SYMMETRY Symmetric
INVARIANTS TypeOK CodeIsUsedOnce
PROPERTIES RevocationsHold
