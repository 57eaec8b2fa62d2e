\* One stream end and one bookmark, no tc failure: a pods-watch bookmark
\* moves the services watch's resume point.
CONSTANTS
    Services = {s1}
    Pods = {p1}
    s1 = s1
    p1 = p1
    p2 = p2
    ip1 = ip1
    ip2 = ip2
    cip = cip
    NoIP = NoIP
    Absent = Absent
    PodIP <- MCPodIP
    ClusterIP <- MCClusterIP
    Headless = FALSE
    PortChoices <- OnePort
    NewPodIPs = {"running"}
    MaxRV = 4
    MaxStreamEnds = 1
    MaxBookmarks = 1
    MaxFaults = 0
    MaxWatchFails = 0
    FaultWindow = 0
    MaxPriority = 49199
    Interfaces <- OneInterface
SPECIFICATION Spec
INVARIANT ServiceResumeLosesNothing
\* The reconciler blocks in its select once the bounded cluster stops changing.
CHECK_DEADLOCK FALSE
