SPECIFICATION Spec
CONSTANTS
    Pods = {pod1, pod2}
    NoPod = NoPod
    Faults = {}
    MaxRuns = 2
INVARIANT RestartLeavesNoneUnowned
CHECK_DEADLOCK FALSE
