SPECIFICATION FairSpec
CONSTANTS
    Pods = {pod1, pod2}
    NoPod = NoPod
    Faults = {"create", "delete", "save"}
    MaxRuns = 2
INVARIANTS
    TypeOK
    WorkersAccountedFor
    OneWorkerAtATime
PROPERTIES
    StoppingIsFinal
    ExpiredIsStopped
CHECK_DEADLOCK FALSE
