--------------------------- MODULE ServiceReconciler ---------------------------
(***************************************************************************)
(* The service reconciler of the network disruption injector              *)
(* (src/injector/network_disruption.go, watchServiceChanges and the       *)
(* handlers it calls).  One goroutine per watched Kubernetes service      *)
(* keeps tc filters steering traffic to the service's cluster IP and to   *)
(* its endpoint pods into the disrupted band 1:4.                          *)
(*                                                                         *)
(* The module holds three kinds of state:                                 *)
(*   - the cluster: the watched services, the pods behind them, a global  *)
(*     resource version and the event history the API server keeps;       *)
(*   - the two watch streams of every reconciler (services, pods);        *)
(*   - the reconciler itself: the serviceWatcher struct of the code, the  *)
(*     netns it is in, whether it still runs; and the kernel's filters    *)
(*     with the shared priority counter.                                  *)
(*                                                                         *)
(* Every handler is one atomic step: a reconciler handles one event at a  *)
(* time, and the only state it shares is the kernel and the priority     *)
(* counter, which the step reads and writes without yielding in between  *)
(* in any way that changes what the properties below can observe.         *)
(***************************************************************************)
EXTENDS Integers, Sequences, SequencesExt, FiniteSets

CONSTANTS
    Services,       \* the NetworkDisruptionServiceSpecs of the disruption
    Pods,           \* pods selected by the services' selectors
    PodIP,          \* [Pods -> IPs]: the IP a pod gets once it has one
    ClusterIP,      \* [Services -> IPs]: the cluster IP of a service
    NoIP,           \* a pod status without an IP (renders as "ip=")
    Absent,         \* a pod that does not exist
    Headless,       \* TRUE: the services are headless (isHeadless)
    PortChoices,    \* the v1.ServicePort sequences a service may declare
    NewPodIPs,      \* subset of {"pending", "running"}: how pods are created
    MaxRV,          \* bound on cluster changes (resource versions)
    MaxStreamEnds,  \* bound on watch streams ended by the server
    MaxBookmarks,   \* bound on bookmark events
    MaxFaults,      \* bound on failing tc calls
    MaxWatchFails,  \* bound on failing Watch() calls
    FaultWindow,    \* a failing tc call is one of the first FaultWindow of a step
    MaxPriority,    \* bound on the priority counter: no event is taken beyond it
    Interfaces      \* the target's interfaces, in the order LinkList returns them

ASSUME /\ NewPodIPs \subseteq {"pending", "running"} /\ NewPodIPs # {}
       /\ Headless \in BOOLEAN
       /\ \A n \in {MaxRV, MaxStreamEnds, MaxBookmarks, MaxFaults, MaxWatchFails, FaultWindow} : n \in Nat
       /\ MaxPriority \in Nat
       /\ Interfaces \in Seq(STRING) /\ Interfaces # <<>>

\* tcPriority: "the lowest priority set by tc automatically"
TcPriority == 49149

\* The band of the first prio qdisc the reconcilers steer traffic into.
Flowid == "1:4"

\* The ServicePort appended for a headless service: Port 0, no target port,
\* no protocol, so that the endpoint IPs are blocked wholesale.
HeadlessPort == [port |-> 0, target |-> 0, proto |-> ""]

\* The pods in the order a List call returns them.
PodList == SetToSeq(Pods)

VARIABLES
    \* cluster
    svcExists, svcPorts, podIP, rv, svcLog,
    \* watch streams (the result channels and what the server still sends)
    svcWatch, podWatch,
    \* reconcilers
    watcher, nsIn, rstate, crashed,
    \* kernel
    filters, treeUp, tcFilterPriority,
    \* bounded environment budgets
    used

clusterVars == <<svcExists, svcPorts, podIP, rv, svcLog>>
streamVars  == <<svcWatch, podWatch>>
recVars     == <<watcher, nsIn, rstate, crashed>>
kernelVars  == <<filters, treeUp, tcFilterPriority>>
vars == <<clusterVars, streamVars, recVars, kernelVars, used>>

-----------------------------------------------------------------------------
(* Filter tuples (networkDisruptionService) and their construction.       *)

\* networkDisruptionService: an (ip, port, protocol) tuple.  Two tuples are
\* the same filter iff their String() renderings are equal, i.e. iff they are
\* equal as records.
Tuple(ip, port, proto) == [ip |-> ip, port |-> port, proto |-> proto]

\* findServiceFilter: index of the first filter whose tuple is t, 0 if none.
findServiceFilter(list, t) == SelectInSeq(list, LAMBDA e : e.service = t)

\* The "forbid duplication" loop: keeps the first occurrence of each tuple.
RECURSIVE DedupInto(_, _)
DedupInto(acc, ts) ==
    IF ts = <<>> THEN acc
    ELSE DedupInto(IF Contains(acc, Head(ts)) THEN acc ELSE Append(acc, Head(ts)), Tail(ts))

Dedup(ts) == DedupInto(<<>>, ts)

\* buildServiceFiltersFromPod: one tuple per service port, on the pod IP and
\* the port's target port.  A pod without IP yields the IP-less tuple.
buildServiceFiltersFromPod(ip, ports) ==
    Dedup([i \in 1..Len(ports) |-> Tuple(ip, ports[i].target, ports[i].proto)])

\* isHeadless
isHeadless == Headless

\* Mutant: the service filters built on the target port.
buildServiceFiltersFromServiceOnTarget(s, ports) ==
    IF isHeadless THEN <<>>
    ELSE Dedup([i \in 1..Len(ports) |-> Tuple(ClusterIP[s], ports[i].target, ports[i].proto)])

\* buildServiceFiltersFromService: one tuple per port on the cluster IP and
\* the service port; none for a headless service.
buildServiceFiltersFromService(s, ports) ==
    IF isHeadless THEN <<>>
    ELSE Dedup([i \in 1..Len(ports) |-> Tuple(ClusterIP[s], ports[i].port, ports[i].proto)])

-----------------------------------------------------------------------------
(* The tc driver and the priority allocator.  A step threads a context    *)
(* through its calls: the kernel's filters, the priority counter, the     *)
(* number of tc calls made, the call that fails (0: none), whether the    *)
(* root qdisc exists, whether the goroutine is in the target netns, and   *)
(* the error of the last call.                                             *)

CtxIn(ns, failAt) == [k |-> filters, prio |-> tcFilterPriority, op |-> 0,
                      failAt |-> failAt, up |-> treeUp, ns |-> ns, err |-> FALSE]
Ctx(s, failAt) == CtxIn(nsIn[s], failAt)

\* Mutant: the counter is read without being incremented.
getNewPriorityStale(c) == c

\* getNewPriority: the mutex-guarded pre-increment of tcFilterPriority.
getNewPriority(c) == [c EXCEPT !.prio = @ + 1]

Devs == Range(Interfaces)

\* TrafficController.AddFilter on parent 1:0 of the interfaces devs,
\* steering tuple t into flowid: one driver call, one filter per
\* interface.  It fails when the prio qdisc is gone, when the goroutine is
\* outside the target netns (the interfaces are the target's), or as an
\* injected fault.  owner records which code installed the filter.
AddFilterOn(c, devs, t, flowid, owner) ==
    LET ok == c.up /\ c.ns /\ c.op + 1 # c.failAt
    IN [c EXCEPT !.op = @ + 1, !.err = ~ok,
                 !.k = IF ok THEN @ \cup {[dev |-> d, prio |-> c.prio, ip |-> t.ip, port |-> t.port,
                                           proto |-> t.proto, flowid |-> flowid,
                                           owner |-> owner] : d \in devs}
                       ELSE @]

AddFilter(c, t, flowid, owner) == AddFilterOn(c, Devs, t, flowid, owner)

\* TrafficController.DeleteFilter(dev, p): tc deletes every filter of
\* priority p on dev and fails when there is none.
DeleteFilter(c, dev, p) ==
    LET ok == c.up /\ c.ns /\ c.op + 1 # c.failAt /\ \E f \in c.k : f.dev = dev /\ f.prio = p
    IN [c EXCEPT !.op = @ + 1, !.err = ~ok,
                 !.k = IF ok THEN {f \in @ : f.dev # dev \/ f.prio # p} ELSE @]

\* removeServiceFilter: DeleteFilter on each interface in turn, returning
\* the first error; the interfaces before it have lost the filter, the
\* others keep it.
RECURSIVE removeServiceFilterFrom(_, _, _)
removeServiceFilterFrom(c, p, i) ==
    IF i > Len(Interfaces) THEN c
    ELSE LET c1 == DeleteFilter(c, Interfaces[i], p)
         IN IF c1.err THEN c1 ELSE removeServiceFilterFrom(c1, p, i + 1)

removeServiceFilter(c, p) == removeServiceFilterFrom(c, p, 1)

\* addServiceFilters: a fresh priority and a filter per tuple; on the first
\* error the filters built so far are dropped (return nil, err) but stay in
\* the kernel.
RECURSIVE AddEach(_, _, _, _, _)
AddEach(c, ts, flowid, owner, built) ==
    IF ts = <<>> THEN [c |-> c, list |-> built]
    ELSE LET c1 == AddFilter(getNewPriority(c), Head(ts), flowid, owner)
         IN IF c1.err THEN [c |-> c1, list |-> <<>>]
            ELSE AddEach(c1, Tail(ts), flowid, owner,
                         Append(built, [service |-> Head(ts), prio |-> c1.prio]))

\* Mutant: the reconciler's filters steered into the safeguard band 1:1.
addServiceFiltersSafeBand(c, ts, owner) == AddEach(c, ts, "1:1", owner, <<>>)

\* handleFiltersForServices passes flowid 1:4 to every reconciler.
addServiceFilters(c, ts, owner) == AddEach(c, ts, Flowid, owner, <<>>)

\* removeServiceFiltersInList(tcFilters, toRemove) for a toRemove that does
\* not share tcFilters' backing array: deletes the first filter matching each
\* tuple; nil on the first error.
RECURSIVE removeServiceFiltersInList(_, _, _)
removeServiceFiltersInList(c, list, toRemove) ==
    IF toRemove = <<>> THEN [c |-> c, list |-> list]
    ELSE LET idx == findServiceFilter(list, Head(toRemove).service)
         IN IF idx = 0 THEN removeServiceFiltersInList(c, list, Tail(toRemove))
            ELSE LET c1 == removeServiceFilter(c, list[idx].prio)
                 IN IF c1.err THEN [c |-> c1, list |-> <<>>]
                    ELSE removeServiceFiltersInList(c1, RemoveAt(list, idx), Tail(toRemove))

\* removeServiceFiltersInList(l, l): the range reads l's backing array
\* (length n fixed) while append(l[:idx], l[idx+1:]...) shifts that same
\* array left in place, leaving its old last element where it was.  arr is
\* the backing array, m the current length of tcFilters, i the range index.
\* The result is the backing array, which is what a caller that discards the
\* returned slice still holds.
RECURSIVE RemoveAliased(_, _, _, _)
RemoveAliased(c, arr, m, i) ==
    IF i > Len(arr) THEN [c |-> c, list |-> arr]
    ELSE LET idx == findServiceFilter(SubSeq(arr, 1, m), arr[i].service)
         IN IF idx = 0 THEN RemoveAliased(c, arr, m, i + 1)
            ELSE LET c1 == removeServiceFilter(c, arr[idx].prio)
                 IN IF c1.err THEN [c |-> c1, list |-> arr]
                    ELSE RemoveAliased(c1, SubSeq(arr, 1, idx - 1) \o SubSeq(arr, idx + 1, m)
                                              \o SubSeq(arr, m, Len(arr)), m - 1, i + 1)

removeServiceFiltersInSelf(c, list) == RemoveAliased(c, list, Len(list), 1)

-----------------------------------------------------------------------------
(* The event handlers.  A handler maps the watcher record, the event and  *)
(* a context to [w, c, err, panic]: the watcher record after the handler, *)
(* the context after its tc calls, and whether it returned an error or    *)
(* panicked.  Netns.Enter and Netns.Exit set and clear c.ns; an error     *)
(* returned after Enter skips Exit.                                        *)

Done(w, c) == [w |-> w, c |-> [c EXCEPT !.ns = FALSE], err |-> FALSE, panic |-> FALSE]
Fail(w, c) == [w |-> w, c |-> c, err |-> TRUE, panic |-> FALSE]
Ok(w, c)   == [w |-> w, c |-> c, err |-> FALSE, panic |-> FALSE]

\* The IPs of the pods a List by the service's selector returns now.
ListedPodIPs == LET withIP == SelectSeq(PodList, LAMBDA p : podIP[p] \notin {NoIP, Absent})
                IN [i \in 1..Len(withIP) |-> podIP[withIP[i]]]

\* handlePodEndpointsServiceFiltersOnKubernetesServiceChanges: keep the old
\* filters still wanted, delete the others, add the missing ones.  The list
\* is nil (<<>>) when it returns an error.
RECURSIVE KeepOrDelete(_, _, _, _)
KeepOrDelete(c, old, toCreate, final) ==
    IF old = <<>> THEN [c |-> c, toCreate |-> toCreate, final |-> final]
    ELSE LET idx == SelectInSeq(toCreate, LAMBDA t : t = Head(old).service)
         IN IF idx > 0
            THEN KeepOrDelete(c, Tail(old), RemoveAt(toCreate, idx), Append(final, Head(old)))
            ELSE LET c1 == removeServiceFilter(c, Head(old).prio)
                 IN IF c1.err THEN [c |-> c1, toCreate |-> <<>>, final |-> <<>>]
                    ELSE KeepOrDelete(c1, Tail(old), toCreate, final)

handlePodEndpointsServiceFiltersOnKubernetesServiceChanges(c, s, old, ips, ports) ==
    LET toCreate == FlattenSeq([i \in 1..Len(ips) |-> buildServiceFiltersFromPod(ips[i], ports)])
        r1 == KeepOrDelete(c, old, toCreate, <<>>)
        r2 == addServiceFilters(r1.c, r1.toCreate, s)
    IN IF r1.c.err THEN [c |-> r1.c, list |-> <<>>]
       ELSE IF r2.c.err THEN [c |-> r2.c, list |-> <<>>]
       ELSE [c |-> r2.c, list |-> r1.final \o r2.list]

\* handleKubernetesServiceChanges after the bookmark and error cases: list
\* the pods, update the ports, reconcile the endpoint filters with the
\* event's ports, then the cluster IP filters by event type.
ApplyServiceEvent(s, w, e, c) ==
    LET ports == IF isHeadless THEN Append(w.servicePorts, HeadlessPort) ELSE e.ports
        r1 == handlePodEndpointsServiceFiltersOnKubernetesServiceChanges(
                  c, s, w.tcFiltersFromPodEndpoints, ListedPodIPs, e.ports)
        w1 == [w EXCEPT !.servicePorts = ports, !.tcFiltersFromPodEndpoints = r1.list]
        nsFilters == buildServiceFiltersFromService(s, e.ports)
        old == w.tcFiltersFromNamespaceServices
    IN IF r1.c.err THEN Fail(w1, r1.c)
       ELSE CASE e.type = "Added" ->
                 LET r2 == addServiceFilters(r1.c, nsFilters, s)
                 IN IF r2.c.err THEN Fail(w1, r2.c)
                    ELSE Done([w1 EXCEPT !.tcFiltersFromNamespaceServices = old \o r2.list], r2.c)
              [] e.type = "Modified" ->
                 \* the result of removeServiceFiltersInList(l, l) is discarded;
                 \* the watcher keeps its header on the shifted array
                 LET r2 == removeServiceFiltersInSelf(r1.c, old)
                     r3 == addServiceFilters(r2.c, nsFilters, s)
                 IN IF r2.c.err THEN Fail([w1 EXCEPT !.tcFiltersFromNamespaceServices = r2.list], r2.c)
                    ELSE IF r3.c.err THEN Fail([w1 EXCEPT !.tcFiltersFromNamespaceServices = <<>>], r3.c)
                    ELSE Done([w1 EXCEPT !.tcFiltersFromNamespaceServices = r3.list], r3.c)
              [] e.type = "Deleted" ->
                 LET r2 == removeServiceFiltersInList(r1.c, old,
                               [i \in 1..Len(nsFilters) |-> [service |-> nsFilters[i], prio |-> 0]])
                 IN IF r2.c.err THEN Fail([w1 EXCEPT !.tcFiltersFromNamespaceServices = <<>>], r2.c)
                    ELSE Done([w1 EXCEPT !.tcFiltersFromNamespaceServices = r2.list], r2.c)

\* handleKubernetesServiceChanges (events of other services of the
\* namespace are not generated: their early return changes nothing).
handleKubernetesServiceChanges(s, w, e, c) ==
    CASE e.type = "Error"    -> Fail(w, c)
      [] e.type = "Bookmark" -> Ok([w EXCEPT !.servicesResourceVersion = e.rv], c)
      [] OTHER               -> ApplyServiceEvent(s, w, e, [c EXCEPT !.ns = TRUE])

\* handleKubernetesPodsChanges after the bookmark and error cases.
ApplyPodEvent(s, w, e, c) ==
    LET fromPod == buildServiceFiltersFromPod(e.ip, w.servicePorts)
        pf == w.tcFiltersFromPodEndpoints
        pending == SelectInSeq(w.podsWithoutIPs, LAMBDA n : n = e.pod /\ e.ip # NoIP)
    IN CASE e.type = "Added" ->
            IF fromPod = <<>>   \* tcFiltersFromPod[0]: index out of range
            THEN [w |-> w, c |-> c, err |-> FALSE, panic |-> TRUE]
            ELSE IF findServiceFilter(pf, fromPod[1]) > 0 THEN Done(w, c)
            ELSE IF e.ip # NoIP
                 THEN LET r == addServiceFilters(c, fromPod, s)
                      IN IF r.c.err THEN Fail(w, r.c)
                         ELSE Done([w EXCEPT !.tcFiltersFromPodEndpoints = pf \o r.list], r.c)
                 ELSE Done([w EXCEPT !.podsWithoutIPs = Append(@, e.pod)], c)
         [] e.type = "Modified" ->
            IF pending = 0 THEN Done(w, c)
            ELSE LET r == addServiceFilters(c, fromPod, s)
                 IN IF r.c.err THEN Fail(w, r.c)
                    ELSE Done([w EXCEPT !.tcFiltersFromPodEndpoints = pf \o r.list,
                                        !.podsWithoutIPs = RemoveAt(@, pending)], r.c)
         [] e.type = "Deleted" ->
            LET r == removeServiceFiltersInList(c, pf,
                         [i \in 1..Len(fromPod) |-> [service |-> fromPod[i], prio |-> 0]])
            IN IF r.c.err THEN Fail([w EXCEPT !.tcFiltersFromPodEndpoints = <<>>], r.c)
               ELSE Done([w EXCEPT !.tcFiltersFromPodEndpoints = r.list], r.c)

\* handleKubernetesPodsChanges.  A pod bookmark stores its resource version
\* in servicesResourceVersion, as the code does.
handleKubernetesPodsChanges(s, w, e, c) ==
    CASE e.type = "Error"    -> Fail(w, c)
      [] e.type = "Bookmark" -> Ok([w EXCEPT !.servicesResourceVersion = e.rv], c)
      [] OTHER               -> ApplyPodEvent(s, w, e, [c EXCEPT !.ns = TRUE])

-----------------------------------------------------------------------------
(* Watch events and streams.  A stream is "nil" (the watcher's channel    *)
(* field is nil), "open" (the server still sends events) or "ending" (the *)
(* server stopped; the events already sent are read, then the closed      *)
(* channel).                                                               *)

SvcEvent(t, ports, r) == [type |-> t, ports |-> ports, rv |-> r]
PodEvent(t, p, ip, r) == [type |-> t, pod |-> p, ip |-> ip, rv |-> r]
NilStream == [st |-> "nil", q |-> <<>>]

\* A watch from resource version "" starts with a synthetic Added event per
\* existing object; from any other version it replays the later events.
SvcSnapshot(s) == IF svcExists[s] THEN <<SvcEvent("Added", svcPorts[s], rv)>> ELSE <<>>
PodSnapshot == LET live == SelectSeq(PodList, LAMBDA p : podIP[p] # Absent)
               IN [i \in 1..Len(live) |-> PodEvent("Added", live[i], podIP[live[i]], rv)]

Running(s) == rstate[s] = "running" /\ ~crashed

FailPoints == {0} \cup (IF used.faults < MaxFaults THEN 1..FaultWindow ELSE {})

\* The kernel, the priority counter and the netns after a step's tc calls.
Commit(s, c, failAt) ==
    /\ filters' = c.k
    /\ tcFilterPriority' = c.prio
    /\ nsIn' = [nsIn EXCEPT ![s] = c.ns]
    /\ used' = [used EXCEPT !.faults = @ + (IF failAt # 0 /\ c.op >= failAt THEN 1 ELSE 0)]

-----------------------------------------------------------------------------
(* watchServiceChanges: one loop iteration per action.                    *)

\* After a failed service event: the stream is rebuilt and the
\* namespace-service filters forgotten.
ResetServiceFilters(w) == [w EXCEPT !.tcFiltersFromNamespaceServices = <<>>]

\* Mutant: the endpoint filters are purged but still tracked.
ResetPodFiltersKept(w) == w

\* After a failed pod event: the stream is rebuilt and the endpoint filters
\* forgotten (podsWithoutIPs is kept).
ResetPodFilters(w) == [w EXCEPT !.tcFiltersFromPodEndpoints = <<>>]

\* Create the services watch when its channel is nil, resuming at
\* servicesResourceVersion; a failing Watch() call ends the goroutine.
WatchServices(s) ==
    /\ Running(s)
    /\ svcWatch[s].st = "nil"
    /\ LET from == watcher[s].servicesResourceVersion
       IN \/ /\ svcWatch' = [svcWatch EXCEPT ![s] =
                 [st |-> "open",
                  q |-> IF from = 0 THEN SvcSnapshot(s)
                        ELSE SelectSeq(svcLog[s], LAMBDA e : e.rv > from)]]
             /\ watcher' = IF from = 0 THEN [watcher EXCEPT ![s].svcApplied = rv] ELSE watcher
             /\ UNCHANGED <<rstate, used>>
          \/ /\ used.watchFails < MaxWatchFails
             /\ rstate' = [rstate EXCEPT ![s] = "exited"]
             /\ used' = [used EXCEPT !.watchFails = @ + 1]
             /\ UNCHANGED <<svcWatch, watcher>>
    /\ UNCHANGED <<clusterVars, podWatch, nsIn, crashed, kernelVars>>

\* Mutant: the pods watch is re-created on every iteration, without the
\* nil check.
WatchPodsRewatch(s) ==
    /\ Running(s)
    /\ svcWatch[s].st # "nil"
    /\ podWatch' = [podWatch EXCEPT ![s] = [st |-> "open", q |-> PodSnapshot]]
    /\ UNCHANGED <<clusterVars, svcWatch, watcher, nsIn, rstate, crashed, kernelVars, used>>

\* Create the pods watch after the services watch.  podsResourceVersion is
\* never assigned, so the pods watch always starts from "".
WatchPods(s) ==
    /\ Running(s)
    /\ svcWatch[s].st # "nil"
    /\ podWatch[s].st = "nil"
    /\ \/ /\ podWatch' = [podWatch EXCEPT ![s] = [st |-> "open", q |-> PodSnapshot]]
          /\ UNCHANGED <<rstate, used>>
       \/ /\ used.watchFails < MaxWatchFails
          /\ rstate' = [rstate EXCEPT ![s] = "exited"]
          /\ used' = [used EXCEPT !.watchFails = @ + 1]
          /\ UNCHANGED podWatch
    /\ UNCHANGED <<clusterVars, svcWatch, watcher, nsIn, crashed, kernelVars>>

\* The select: both channels exist.
Selecting(s) == Running(s) /\ svcWatch[s].st # "nil" /\ podWatch[s].st # "nil"

\* An event of the services watch; on a handler error the namespace-service
\* filters are removed (removeServiceFiltersInList(l, l)), forgotten, and
\* the stream is dropped to be recreated.
ReceiveServiceEvent(s) ==
    /\ Selecting(s)
    /\ svcWatch[s].q # <<>>
    /\ tcFilterPriority < MaxPriority
    /\ \E failAt \in FailPoints : \E r \in {handleKubernetesServiceChanges(s, watcher[s], Head(svcWatch[s].q), Ctx(s, failAt))} :
        LET cl == removeServiceFiltersInSelf([r.c EXCEPT !.err = FALSE],
                                             r.w.tcFiltersFromNamespaceServices)
        IN /\ watcher' = [watcher EXCEPT ![s] =
                 IF r.err THEN ResetServiceFilters(r.w)
                 ELSE [r.w EXCEPT !.svcApplied = Head(svcWatch[s].q).rv]]
           /\ svcWatch' = [svcWatch EXCEPT ![s] =
                 IF r.err THEN NilStream ELSE [@ EXCEPT !.q = Tail(@)]]
           /\ Commit(s, IF r.err THEN cl.c ELSE r.c, failAt)
    /\ UNCHANGED <<clusterVars, podWatch, rstate, crashed, treeUp>>

\* An event of the pods watch; the error path purges the endpoint filters.
\* A panic in the handler ends the whole process.
ReceivePodEvent(s) ==
    /\ Selecting(s)
    /\ podWatch[s].q # <<>>
    /\ tcFilterPriority < MaxPriority
    /\ \E failAt \in FailPoints : \E r \in {handleKubernetesPodsChanges(s, watcher[s], Head(podWatch[s].q), Ctx(s, failAt))} :
        LET cl == removeServiceFiltersInSelf([r.c EXCEPT !.err = FALSE],
                                             r.w.tcFiltersFromPodEndpoints)
        IN IF r.panic
           THEN /\ crashed' = TRUE
                /\ UNCHANGED <<watcher, podWatch, nsIn, filters, tcFilterPriority, used>>
           ELSE /\ watcher' = [watcher EXCEPT ![s] =
                      IF r.err THEN ResetPodFilters(r.w) ELSE r.w]
                /\ podWatch' = [podWatch EXCEPT ![s] =
                      IF r.err THEN NilStream ELSE [@ EXCEPT !.q = Tail(@)]]
                /\ Commit(s, IF r.err THEN cl.c ELSE r.c, failAt)
                /\ UNCHANGED crashed
    /\ UNCHANGED <<clusterVars, svcWatch, rstate, treeUp>>

\* A closed channel (!ok): the stream is dropped to be recreated.
ServiceStreamClosed(s) ==
    /\ Selecting(s)
    /\ svcWatch[s].st = "ending" /\ svcWatch[s].q = <<>>
    /\ svcWatch' = [svcWatch EXCEPT ![s] = NilStream]
    /\ UNCHANGED <<clusterVars, podWatch, recVars, kernelVars, used>>

PodStreamClosed(s) ==
    /\ Selecting(s)
    /\ podWatch[s].st = "ending" /\ podWatch[s].q = <<>>
    /\ podWatch' = [podWatch EXCEPT ![s] = NilStream]
    /\ UNCHANGED <<clusterVars, svcWatch, recVars, kernelVars, used>>

-----------------------------------------------------------------------------
(* The cluster and the API server: changes to the watched services and    *)
(* their pods, each a new resource version sent to every open stream, and *)
(* the server ending streams, failing them and sending bookmarks.         *)

EmitService(s, e) ==
    /\ svcLog' = [svcLog EXCEPT ![s] = Append(@, e)]
    /\ svcWatch' = [t \in Services |->
                      IF t = s /\ svcWatch[t].st = "open"
                      THEN [svcWatch[t] EXCEPT !.q = Append(@, e)] ELSE svcWatch[t]]

EmitPod(e) ==
    podWatch' = [t \in Services |->
                   IF podWatch[t].st = "open"
                   THEN [podWatch[t] EXCEPT !.q = Append(@, e)] ELSE podWatch[t]]

ClusterChange == rv < MaxRV /\ rv' = rv + 1

ServiceCreated(s) ==
    /\ ClusterChange /\ ~svcExists[s]
    /\ \E ports \in PortChoices :
        /\ svcExists' = [svcExists EXCEPT ![s] = TRUE]
        /\ svcPorts' = [svcPorts EXCEPT ![s] = ports]
        /\ EmitService(s, SvcEvent("Added", ports, rv + 1))
    /\ UNCHANGED <<podIP, podWatch, recVars, kernelVars, used>>

ServicePortsChanged(s) ==
    /\ ClusterChange /\ svcExists[s]
    /\ \E ports \in PortChoices \ {svcPorts[s]} :
        /\ svcPorts' = [svcPorts EXCEPT ![s] = ports]
        /\ EmitService(s, SvcEvent("Modified", ports, rv + 1))
    /\ UNCHANGED <<svcExists, podIP, podWatch, recVars, kernelVars, used>>

ServiceDeleted(s) ==
    /\ ClusterChange /\ svcExists[s]
    /\ svcExists' = [svcExists EXCEPT ![s] = FALSE]
    /\ EmitService(s, SvcEvent("Deleted", svcPorts[s], rv + 1))
    /\ UNCHANGED <<svcPorts, podIP, podWatch, recVars, kernelVars, used>>

PodCreated(p) ==
    /\ ClusterChange /\ podIP[p] = Absent
    /\ \E how \in NewPodIPs :
        LET ip == IF how = "running" THEN PodIP[p] ELSE NoIP
        IN /\ podIP' = [podIP EXCEPT ![p] = ip]
           /\ EmitPod(PodEvent("Added", p, ip, rv + 1))
    /\ UNCHANGED <<svcExists, svcPorts, svcLog, svcWatch, recVars, kernelVars, used>>

\* A pod update: the pod gets its IP, or a running pod changes otherwise.
PodModified(p) ==
    /\ ClusterChange /\ podIP[p] # Absent
    /\ podIP' = [podIP EXCEPT ![p] = PodIP[p]]
    /\ EmitPod(PodEvent("Modified", p, PodIP[p], rv + 1))
    /\ UNCHANGED <<svcExists, svcPorts, svcLog, svcWatch, recVars, kernelVars, used>>

PodDeleted(p) ==
    /\ ClusterChange /\ podIP[p] # Absent
    /\ podIP' = [podIP EXCEPT ![p] = Absent]
    /\ EmitPod(PodEvent("Deleted", p, podIP[p], rv + 1))
    /\ UNCHANGED <<svcExists, svcPorts, svcLog, svcWatch, recVars, kernelVars, used>>

\* The server ends an open stream (watch timeout): no further events.
StreamEnded(s) ==
    /\ used.ends < MaxStreamEnds
    /\ used' = [used EXCEPT !.ends = @ + 1]
    /\ \/ /\ svcWatch[s].st = "open"
          /\ svcWatch' = [svcWatch EXCEPT ![s].st = "ending"]
          /\ UNCHANGED podWatch
       \/ /\ podWatch[s].st = "open"
          /\ podWatch' = [podWatch EXCEPT ![s].st = "ending"]
          /\ UNCHANGED svcWatch
    /\ UNCHANGED <<clusterVars, recVars, kernelVars>>

\* The server fails an open stream with an Error event, then ends it.
StreamFailed(s) ==
    /\ used.ends < MaxStreamEnds
    /\ used' = [used EXCEPT !.ends = @ + 1]
    /\ \/ /\ svcWatch[s].st = "open"
          /\ svcWatch' = [svcWatch EXCEPT ![s] =
                 [st |-> "ending", q |-> Append(@.q, SvcEvent("Error", <<>>, 0))]]
          /\ UNCHANGED podWatch
       \/ /\ podWatch[s].st = "open"
          /\ podWatch' = [podWatch EXCEPT ![s] =
                 [st |-> "ending", q |-> Append(@.q, PodEvent("Error", "none", NoIP, 0))]]
          /\ UNCHANGED svcWatch
    /\ UNCHANGED <<clusterVars, recVars, kernelVars>>

\* A bookmark carrying the current resource version.
BookmarkSent(s) ==
    /\ used.marks < MaxBookmarks
    /\ used' = [used EXCEPT !.marks = @ + 1]
    /\ \/ /\ svcWatch[s].st = "open"
          /\ svcWatch' = [svcWatch EXCEPT ![s].q = Append(@, SvcEvent("Bookmark", <<>>, rv))]
          /\ UNCHANGED podWatch
       \/ /\ podWatch[s].st = "open"
          /\ podWatch' = [podWatch EXCEPT ![s].q = Append(@, PodEvent("Bookmark", "none", NoIP, rv))]
          /\ UNCHANGED svcWatch
    /\ UNCHANGED <<clusterVars, recVars, kernelVars>>

-----------------------------------------------------------------------------
(* The reconcilers as handleFiltersForServices starts them: the service   *)
(* exists (its Get succeeded), servicePorts holds the ports that Get      *)
(* returned, both watch channels are nil and no filter is tracked.        *)

InitialPodIPs(p) ==
    {Absent} \cup {IF how = "running" THEN PodIP[p] ELSE NoIP : how \in NewPodIPs}

\* The initial state with the reconcilers in state rs and the root qdisc
\* present or not.
InitWith(rs, up) ==
    /\ svcExists = [s \in Services |-> TRUE]
    /\ svcPorts \in [Services -> PortChoices]
    /\ podIP \in {f \in [Pods -> {Absent, NoIP} \cup Range(PodIP)] :
                     \A p \in Pods : f[p] \in InitialPodIPs(p)}
    /\ rv = 1
    /\ svcLog = [s \in Services |-> <<>>]
    /\ svcWatch = [s \in Services |-> NilStream]
    /\ podWatch = [s \in Services |-> NilStream]
    /\ watcher = [s \in Services |->
                    [servicePorts |-> svcPorts[s],
                     tcFiltersFromPodEndpoints |-> <<>>,
                     podsWithoutIPs |-> <<>>,
                     tcFiltersFromNamespaceServices |-> <<>>,
                     servicesResourceVersion |-> 0,
                     svcApplied |-> 0]]   \* ghost: services stream handled up to here
    /\ nsIn = [s \in Services |-> FALSE]
    /\ rstate = [s \in Services |-> rs]
    /\ crashed = FALSE
    /\ filters = {}
    /\ treeUp = up
    /\ tcFilterPriority = TcPriority
    /\ used = [faults |-> 0, ends |-> 0, marks |-> 0, watchFails |-> 0]

Init == InitWith("running", TRUE)

ReconcilerNext(s) ==
    \/ WatchServices(s) \/ WatchPods(s)
    \/ ReceiveServiceEvent(s) \/ ReceivePodEvent(s)
    \/ ServiceStreamClosed(s) \/ PodStreamClosed(s)

ClusterNext ==
    \/ \E s \in Services : ServiceCreated(s) \/ ServicePortsChanged(s) \/ ServiceDeleted(s)
    \/ \E p \in Pods : PodCreated(p) \/ PodModified(p) \/ PodDeleted(p)
    \/ \E s \in Services : StreamEnded(s) \/ StreamFailed(s) \/ BookmarkSent(s)

Next == (\E s \in Services : ReconcilerNext(s)) \/ ClusterNext

\* ENABLED <<ReconcilerNext(s)>>_vars, spelled out from the guards: every
\* step of a reconciler changes one of its streams or crashes the process.
ReconcilerCanStep(s) ==
    /\ Running(s)
    /\ \/ svcWatch[s].st = "nil"
       \/ svcWatch[s].st # "nil" /\ podWatch[s].st = "nil"
       \/ /\ svcWatch[s].st # "nil" /\ podWatch[s].st # "nil"
          /\ \/ tcFilterPriority < MaxPriority /\ (svcWatch[s].q # <<>> \/ podWatch[s].q # <<>>)
             \/ svcWatch[s].st = "ending" /\ svcWatch[s].q = <<>>
             \/ podWatch[s].st = "ending" /\ podWatch[s].q = <<>>

\* The goroutines are scheduled fairly: a reconciler that can take a step
\* eventually does (weak fairness of ReconcilerNext(s), with its ENABLED
\* written out).  The cluster owes nothing.
Spec ==
    /\ Init /\ [][Next]_vars
    /\ \A s \in Services : <>[]ReconcilerCanStep(s) => []<><<ReconcilerNext(s)>>_vars

-----------------------------------------------------------------------------
(* Properties.                                                             *)

IPs == Range(PodIP) \cup Range(ClusterIP) \cup {NoIP}
PortRecs == UNION {Range(ps) : ps \in PortChoices} \cup {HeadlessPort}
Tuples == [ip : IPs, port : {pr.port : pr \in PortRecs} \cup {pr.target : pr \in PortRecs},
           proto : {pr.proto : pr \in PortRecs}]
Entry == [service : Tuples, prio : Nat]
Stream(E) == [st : {"nil", "open", "ending"}, q : Seq(E)]
SvcEvents == [type : {"Added", "Modified", "Deleted", "Bookmark", "Error"},
              ports : PortChoices \cup {<<>>}, rv : 0..MaxRV]
PodEvents == [type : {"Added", "Modified", "Deleted", "Bookmark", "Error"},
              pod : Pods \cup {"none"}, ip : IPs, rv : 0..MaxRV]

TypeOK ==
    /\ svcExists \in [Services -> BOOLEAN]
    /\ svcPorts \in [Services -> PortChoices]
    /\ podIP \in [Pods -> IPs \cup {Absent}]
    /\ rv \in 1..MaxRV
    /\ svcLog \in [Services -> Seq(SvcEvents)]
    /\ svcWatch \in [Services -> Stream(SvcEvents)]
    /\ podWatch \in [Services -> Stream(PodEvents)]
    /\ watcher \in [Services -> [servicePorts : Seq(PortRecs),
                                 tcFiltersFromPodEndpoints : Seq(Entry),
                                 podsWithoutIPs : Seq(Pods),
                                 tcFiltersFromNamespaceServices : Seq(Entry),
                                 servicesResourceVersion : 0..MaxRV,
                                 svcApplied : 0..MaxRV]]
    /\ nsIn \in [Services -> BOOLEAN]
    /\ rstate \in [Services -> {"running", "exited"}]
    /\ crashed \in BOOLEAN
    /\ filters \subseteq [dev : Devs, prio : Nat, ip : IPs, port : Nat, proto : STRING,
                          flowid : {Flowid}, owner : Services]
    /\ treeUp \in BOOLEAN
    /\ tcFilterPriority \in Nat
    /\ used \in [faults : 0..MaxFaults, ends : 0..MaxStreamEnds,
                 marks : 0..MaxBookmarks, watchFails : 0..MaxWatchFails]

FilterTuple(f) == Tuple(f.ip, f.port, f.proto)
Tracked(s) == watcher[s].tcFiltersFromPodEndpoints \o watcher[s].tcFiltersFromNamespaceServices

\* Every filter a reconciler tracks (and will later delete by its priority)
\* is installed on every interface under that priority, for that tuple, by
\* that reconciler: no handler, error path or partial tc failure (a delete
\* that stopped half-way through the interfaces included) leaves a tracked
\* entry whose priority names no filter, or another actor's filter, on
\* some interface.
TrackedFiltersInstalled ==
    treeUp =>
      \A s \in Services, d \in Devs : \A i \in 1..Len(Tracked(s)) :
        \E f \in filters : /\ f.dev = d /\ f.prio = Tracked(s)[i].prio
                           /\ FilterTuple(f) = Tracked(s)[i].service
                           /\ f.owner = s

\* Spec 4.3 and 7: when applying an event fails, the affected filter set is
\* purged from the kernel.  So every filter a reconciler installed is either
\* tracked by it (and will be deleted when the address leaves) or gone: no
\* error return, discarded result or partial tc failure leaks a filter that
\* nobody will delete before Clean.
OwnedFiltersTracked ==
    treeUp =>
      \A f \in filters : f.owner \in Services =>
        \E i \in 1..Len(Tracked(f.owner)) : Tracked(f.owner)[i].prio = f.prio

\* What the reconciler of s should have installed for the cluster as it is,
\* while the service exists: the cluster IP on every service port (none when
\* headless) and every pod IP on every target port, or on port 0 for a
\* headless service (the spec's wholesale block of endpoint IPs).
EndpointTuples(s) ==
    LET ports == IF isHeadless THEN <<HeadlessPort>> ELSE svcPorts[s]
    IN {Tuple(podIP[p], pr.target, pr.proto) :
          p \in {q \in Pods : podIP[q] \notin {Absent, NoIP}}, pr \in Range(ports)}

ClusterTuples(s) ==
    IF isHeadless THEN {} ELSE {Tuple(ClusterIP[s], pr.port, pr.proto) : pr \in Range(svcPorts[s])}

\* The reconciler of s has read everything the server sent and both of its
\* streams are open: it has nothing left to learn.
Quiescent(s) ==
    /\ Running(s) /\ treeUp
    /\ svcWatch[s] = [st |-> "open", q |-> <<>>]
    /\ podWatch[s] = [st |-> "open", q |-> <<>>]

InstalledBy(s) == {FilterTuple(f) : f \in {g \in filters : g.owner = s}}

\* Spec section 8: once the reconciler has consumed every event, the
\* filters it installed are exactly those derivable from the service and
\* its pods; once the service is deleted, no cluster IP filter is left.  A
\* filter too many keeps disrupting an address that left the service; a
\* filter too few lets its traffic through.
Converged ==
    \A s \in Services :
      Quiescent(s) =>
        IF svcExists[s] THEN InstalledBy(s) = ClusterTuples(s) \cup EndpointTuples(s)
        ELSE \A t \in InstalledBy(s) : t.ip # ClusterIP[s]

\* The comment at lines 615-616 and 696-697: the resource version kept in
\* servicesResourceVersion lets the services watch continue "at the right
\* resource".  So when the services watch is to be recreated from a kept
\* version, every service change at or below that version has already been
\* applied by the reconciler (svcApplied, a ghost field, is the version up
\* to which the services stream has been handled): resuming skips nothing.
ServiceResumeLosesNothing ==
    \A s \in Services :
      svcWatch[s].st = "nil" /\ watcher[s].servicesResourceVersion # 0 =>
        \A i \in 1..Len(svcLog[s]) :
          svcLog[s][i].rv <= watcher[s].servicesResourceVersion
            => svcLog[s][i].rv <= watcher[s].svcApplied

\* Spec section 8 and the loop of watchServiceChanges: a running reconciler
\* is never left behind while the tree exists.  Once the bounded cluster
\* stops changing, it eventually reads everything the server sent and
\* stays with both streams open, from where Converged says its filters are
\* right.  A reconciler that re-creates a watch it already has, or stops
\* reading a stream, stays behind forever.
ReconcilerCatchesUp ==
    \A s \in Services : <>[](Quiescent(s) \/ ~Running(s) \/ ~treeUp)

\* No handler panics: a panic in a reconciler goroutine ends the injector
\* process and leaves the disruption installed with nobody to clean it.
NoPanic == ~crashed

=============================================================================
