CONSTANTS
    CPUs = {cpu0, cpu1}
    Tasks = {1, 2}
    Aliases = {2, 9}
    StartTime = 5
    FirstSteps = {1}
    Workloads <- MCWorkloads
    Delta = 1
SPECIFICATION Spec
SYMMETRY CPUSymmetry
CHECK_DEADLOCK FALSE
INVARIANTS
    NoLatencyWithoutCause
