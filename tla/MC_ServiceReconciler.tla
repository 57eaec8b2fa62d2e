------------------------- MODULE MC_ServiceReconciler -------------------------
(* Model values and bounds for checking ServiceReconciler with TLC.        *)
EXTENDS ServiceReconciler, TLC

CONSTANTS s1, p1, p2, ip1, ip2, cip

\* Two service ports with distinct target ports, and a third one.
Port80 == [port |-> 80, target |-> 8080, proto |-> "TCP"]
Port81 == [port |-> 81, target |-> 8081, proto |-> "TCP"]
Port53 == [port |-> 53, target |-> 5353, proto |-> "UDP"]

MCPodIP == (p1 :> ip1) @@ (p2 :> ip2)
MCClusterIP == s1 :> cip

\* One port or the other: a Modified event changes the port.
OnePort == {<<Port80>>, <<Port81>>}
\* Three ports, or one.
ThreePorts == {<<Port80, Port81, Port53>>, <<Port80>>}
\* A single fixed port.
FixedPort == {<<Port80>>}
\* A headless service declares no port at all.
NoPorts == {<<>>}

\* The reconcilers' cases do not depend on the interface count: one.
OneInterface == <<"eth0">>

=========================================================================
