\* Streams ended or failed by the server, bookmarks, and a failing Watch() call.
CONSTANTS
    Services = {s1}
    Pods = {p1}
    s1 = s1
    p1 = p1
    p2 = p2
    ip1 = ip1
    ip2 = ip2
    cip = cip
    NoIP = NoIP
    Absent = Absent
    PodIP <- MCPodIP
    ClusterIP <- MCClusterIP
    Headless = FALSE
    PortChoices <- OnePort
    NewPodIPs = {"pending", "running"}
    MaxRV = 4
    MaxStreamEnds = 1
    MaxBookmarks = 1
    MaxFaults = 0
    MaxWatchFails = 1
    FaultWindow = 0
    MaxPriority = 49199
    Interfaces <- OneInterface
SPECIFICATION Spec
INVARIANT TypeOK
INVARIANT TrackedFiltersInstalled
PROPERTY ReconcilerCatchesUp
\* The reconciler blocks in its select once the bounded cluster stops changing.
CHECK_DEADLOCK FALSE
