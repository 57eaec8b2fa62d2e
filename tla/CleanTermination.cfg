\* Inject then Clean, with the reconcilers scheduled fairly.
CONSTANTS
    Services = {s1}
    Pods = {p1}
    s1 = s1
    p1 = p1
    p2 = p2
    ip1 = ip1
    ip2 = ip2
    cip = cip
    h1 = h1
    gw = gw
    node = node
    NoIP = NoIP
    Absent = Absent
    PodIP <- MCPodIP
    ClusterIP <- MCClusterIP
    Headless = FALSE
    PortChoices <- OnePort
    NewPodIPs = {"running"}
    MaxRV = 2
    MaxStreamEnds = 0
    MaxBookmarks = 0
    MaxFaults = 0
    MaxWatchFails = 0
    FaultWindow = 0
    MaxPriority = 49159
    Interfaces <- ThreeInterfaces
    Level = "pod"
    OnInit = FALSE
    KnobChoices <- DelayOnly
    Hosts <- OneHost
    AllowedHosts <- NoHosts
    LinkQLen <- ThreeLinks
    Gateways <- OneGateway
    NodeIP = node
SPECIFICATION NDSpec
PROPERTY CleanStopsReconcilers
\* The reconcilers block in their select once the bounded cluster stops
\* changing, and the main goroutine stops after Clean.
CHECK_DEADLOCK FALSE
