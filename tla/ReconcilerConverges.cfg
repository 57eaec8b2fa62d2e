\* Convergence of one reconciler when pods are created with their IP, no
\* stream ends, no bookmark, no tc failure.
CONSTANTS
    Services = {s1}
    Pods = {p1, p2}
    s1 = s1
    p1 = p1
    p2 = p2
    ip1 = ip1
    ip2 = ip2
    cip = cip
    NoIP = NoIP
    Absent = Absent
    PodIP <- MCPodIP
    ClusterIP <- MCClusterIP
    Headless = FALSE
    PortChoices <- OnePort
    NewPodIPs = {"running"}
    MaxRV = 6
    MaxStreamEnds = 0
    MaxBookmarks = 0
    MaxFaults = 0
    MaxWatchFails = 0
    FaultWindow = 0
    MaxPriority = 49199
    Interfaces <- OneInterface
SPECIFICATION Spec
INVARIANT Converged
\* The reconciler blocks in its select once the bounded cluster stops changing.
CHECK_DEADLOCK FALSE
