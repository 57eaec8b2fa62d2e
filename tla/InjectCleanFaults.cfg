\* Two pods; Inject, reconcilers and Clean interleaved, with one failing tc call anywhere in a step (no step makes more than 12).
CONSTANTS
    Services = {s1}
    Pods = {p1, p2}
    s1 = s1
    p1 = p1
    p2 = p2
    ip1 = ip1
    ip2 = ip2
    cip = cip
    h1 = h1
    gw = gw
    node = node
    NoIP = NoIP
    Absent = Absent
    PodIP <- MCPodIP
    ClusterIP <- MCClusterIP
    Headless = FALSE
    PortChoices <- OnePort
    NewPodIPs = {"running"}
    MaxRV = 3
    MaxStreamEnds = 0
    MaxBookmarks = 0
    MaxFaults = 1
    MaxWatchFails = 0
    FaultWindow = 12
    MaxPriority = 49159
    Interfaces <- ThreeInterfaces
    Level = "pod"
    OnInit = FALSE
    KnobChoices <- MCKnobs
    Hosts <- OneHost
    AllowedHosts <- OneAllowed
    LinkQLen <- ThreeLinks
    Gateways <- OneGateway
    NodeIP = node
SPECIFICATION NDSpec
INVARIANT QueueLengthsRestored
INVARIANT TrackedFiltersInstalled
PROPERTY StaticFiltersPersist
PROPERTY FilterTableRefined
\* The reconcilers block in their select once the bounded cluster stops
\* changing, and the main goroutine stops after Clean.
CHECK_DEADLOCK FALSE
