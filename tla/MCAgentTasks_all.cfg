SPECIFICATION Spec
CONSTANTS
    k1 = k1
    h1 = h1
    Loop = Loop
    Sweeper = Sweeper
    Tasks <- OneTask
    Workers <- OneWorker
    MaxSockets = 2
INVARIANTS TypeOK 
PROPERTIES CleanStatusesHold SilentTasksEnd
