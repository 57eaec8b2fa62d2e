------------------------- MODULE MC_NetworkDisruption -------------------------
(* Model values and small constant definitions for NetworkDisruption.     *)
EXTENDS NetworkDisruption, MC_ServiceReconciler

CONSTANTS h1, gw, node

\* One host on port 443/tcp, ingress, resolved to one IP.
OneHost == <<[ips |-> <<h1>>, port |-> 443, proto |-> "tcp", flow |-> "ingress"]>>

\* One default route, through the second interface.
OneGateway == <<[ip |-> gw, link |-> "eth1"]>>

\* The interfaces of ThreeLinks.
ThreeInterfaces == <<"eth0", "eth1", "eth2">>

NoHosts == <<>>

Knobs(delay, drop, bw) ==
    [delay |-> delay, drop |-> drop, corrupt |-> 0, duplicate |-> 0, bandwidthLimit |-> bw]

\* A delay alone: one netem operation.
DelayOnly == {Knobs(100, 0, 0)}

\* A delay, a drop with a bandwidth limit (netem then tbf), or nothing.
MCKnobs == {Knobs(100, 0, 0), Knobs(0, 10, 1000), Knobs(0, 0, 0)}

\* Three links: two without a tx queue (raised and restored), one with.
ThreeLinks == <<0, 500, 0>>

\* One allowed host on any port, egress.
OneAllowed == <<[ips |-> <<h1>>, port |-> 0, proto |-> "", flow |-> "egress"]>>
====
