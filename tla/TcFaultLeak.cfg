\* Two running pods and one failing tc call among the first three of a step.
CONSTANTS
    Services = {s1}
    Pods = {p1, p2}
    s1 = s1
    p1 = p1
    p2 = p2
    ip1 = ip1
    ip2 = ip2
    cip = cip
    NoIP = NoIP
    Absent = Absent
    PodIP <- MCPodIP
    ClusterIP <- MCClusterIP
    Headless = FALSE
    PortChoices <- OnePort
    NewPodIPs = {"running"}
    MaxRV = 3
    MaxStreamEnds = 0
    MaxBookmarks = 0
    MaxFaults = 1
    MaxWatchFails = 0
    FaultWindow = 3
    MaxPriority = 49199
    Interfaces <- OneInterface
SPECIFICATION Spec

INVARIANT OwnedFiltersTracked
\* The reconciler blocks in its select once the bounded cluster stops changing.
CHECK_DEADLOCK FALSE
