-------------------------- MODULE NetworkDisruption --------------------------
(***************************************************************************)
(* The injector facade (src/injector/network_disruption.go: Inject,       *)
(* applyOperations, addFiltersForHosts, handleFiltersForServices, Clean,  *)
(* clearOperations) composed with the service reconcilers it spawns.      *)
(*                                                                         *)
(* The main goroutine builds the tc tree and the static filters, starts   *)
(* one reconciler per service half-way through, adds the safeguard and    *)
(* allowed-host filters while the reconcilers already run, and later      *)
(* cleans up.  The reconcilers are those of ServiceReconciler; they share *)
(* the kernel's filters and the priority counter with the main goroutine. *)
(*                                                                         *)
(* The tree is abstracted to whether its root prio qdisc exists (treeUp):*)
(* a filter can only be added under parent 1:0 while it does.  Filters   *)
(* are per interface; qdisc creation and ClearQdisc act on all of them.   *)
(***************************************************************************)
EXTENDS ServiceReconciler

CONSTANTS
    Level,          \* "pod" or "node": the disruption level
    OnInit,         \* the disruption is applied on pod init
    KnobChoices,    \* specs to inject: [delay, drop, corrupt, duplicate,
                    \* bandwidthLimit] records
    Hosts,          \* spec.Hosts: a sequence of [ips, port, proto, flow],
                    \* ips being what resolveHost returns for the host
    AllowedHosts,   \* spec.AllowedHosts, in the same form
    Gateways,       \* the default routes: [ip, link] records, link an interface
    NodeIP,         \* TARGET_POD_HOST_IP
    LinkQLen        \* the links LinkList returns, in order: their TxQLen

ASSUME /\ Level \in {"pod", "node"} /\ OnInit \in BOOLEAN
       /\ LinkQLen \in Seq(Nat) /\ Len(LinkQLen) = Len(Interfaces)
       /\ \A i \in DOMAIN Gateways : Gateways[i].link \in Devs

\* The undisturbed band the safeguards and allowed hosts are steered into.
SafeFlowid == "1:1"

MetadataIP == "169.254.169.254"

VARIABLES
    mpc,        \* where the main goroutine is in Inject and Clean
    classid,    \* net_cls.classid of the target's cgroup
    knobs,      \* the disruption's spec: its netem and tbf fields
    operations, \* i.operations: the tc operations Inject accumulated
    stateSent,  \* values sent on config.State, each by a blocked goroutine
    txqlen,     \* the links' TxQLen, indexed as in LinkQLen
    restoreFailed   \* ghost: the links whose deferred SetTxQLen(0) failed

mainVars == <<mpc, classid, knobs, operations, stateSent, txqlen, restoreFailed>>
allVars == <<vars, mainVars>>

-----------------------------------------------------------------------------
(* applyOperations.                                                       *)

\* Mutant: every link raised, whatever its TxQLen.
RaisedBeforeAll(fail) ==
    {i \in DOMAIN LinkQLen : fail = 0 \/ i < fail}

\* The tx queue length loop: a link whose TxQLen is 0 is set to 1000, and
\* a restore to 0 is deferred to the return of applyOperations.  The loop
\* returns on the first failing SetTxQLen (on link fail; 0 if none fails),
\* so the links raised are the zero links before it.
RaisedBefore(fail) ==
    {i \in DOMAIN LinkQLen : LinkQLen[i] = 0 /\ (fail = 0 \/ i < fail)}

SetTxQLen(q, raised) == [i \in DOMAIN q |-> IF i \in raised THEN 1000 ELSE q[i]]

\* The deferred SetTxQLen(0) calls, run when applyOperations returns, on
\* success or error: each raised link goes back to 0 unless its call fails,
\* an error that is only logged.
RestoreTxQLen(q, raised, failed) ==
    [i \in DOMAIN q |-> IF i \in raised \ failed THEN 0 ELSE q[i]]

\* A SetTxQLen(1000) that may fail: one on a zero link, while faults remain.
LinkFailPoints ==
    {0} \cup (IF used.faults < MaxFaults THEN RaisedBefore(0) ELSE {})

\* A tc call that creates a qdisc (AddPrio, AddCgroupFilter, AddNetem,
\* AddOutputLimit): it fails when its parent is missing or as a fault.
\* Creating the root prio qdisc brings the tree up.
QdiscCall(c, isRoot) ==
    LET ok == (isRoot \/ c.up) /\ c.ns /\ c.op + 1 # c.failAt
    IN [c EXCEPT !.op = @ + 1, !.err = ~ok, !.up = @ \/ (isRoot /\ ok)]

\* Calls made in order until the first error.
RECURSIVE QdiscCalls(_, _)
QdiscCalls(c, n) == IF n = 0 \/ c.err THEN c ELSE QdiscCalls(QdiscCall(c, FALSE), n - 1)

\* The root prio qdisc; at pod level (not on init) the second prio qdisc
\* and the cgroup filter; then the chain of operations.
QdiscTree(c, ops) ==
    LET c1 == QdiscCall(c, TRUE)
        c2 == IF Level = "pod" /\ ~OnInit THEN QdiscCalls(c1, 2) ELSE c1
    IN QdiscCalls(c2, Len(ops))

\* The match of one filter of addFiltersForHosts: an ingress host matches
\* the packets' source IP and port (a source IP is written <<"src", ip>>),
\* every other flow their destination.
HostMatch(h, ip) ==
    IF h.flow = "ingress" THEN Tuple(<<"src", ip>>, h.port, h.proto)
                          ELSE Tuple(ip, h.port, h.proto)

\* addFiltersForHosts: one filter per resolved IP of each host, in order,
\* each under a new priority; the first failing AddFilter returns.
addFiltersForHosts(c, hosts, flowid, owner) ==
    LET matches == FlattenSeq([i \in 1..Len(hosts) |->
                       [j \in 1..Len(hosts[i].ips) |-> HostMatch(hosts[i], hosts[i].ips[j])]])
    IN AddEach(c, matches, flowid, owner, <<>>).c

\* The catch-all filter 0.0.0.0/0 when there is neither host nor service,
\* otherwise one filter per resolved host.
DisruptionFilters(c) ==
    IF Hosts = <<>> /\ Services = {}
    THEN AddFilter(getNewPriority(c), Tuple("0.0.0.0/0", 0, ""), Flowid, "catchall")
    ELSE addFiltersForHosts(c, Hosts, Flowid, "host")

\* The pod-level safeguards: a filter per default route gateway, on the
\* route's own link only, then the node IP on every interface.
RECURSIVE AddGateways(_, _)
AddGateways(c, gws) ==
    IF gws = <<>> THEN c
    ELSE LET c1 == AddFilterOn(getNewPriority(c), {Head(gws).link}, Tuple(Head(gws).ip, 0, ""),
                               SafeFlowid, "safeguard")
         IN IF c1.err THEN c1 ELSE AddGateways(c1, Tail(gws))

\* The safeguards: at pod level the gateways and the node IP; at node
\* level SSH, ARP and the cloud metadata service on every interface.
Safeguards(c) ==
    IF Level = "pod"
    THEN LET c1 == AddGateways(c, Gateways)
         IN IF c1.err THEN c1
            ELSE AddFilter(getNewPriority(c1), Tuple(NodeIP, 0, ""), SafeFlowid, "safeguard")
    ELSE AddEach(c, <<Tuple("any", 22, "tcp"), Tuple("any", 0, "arp"), Tuple(MetadataIP, 0, "")>>,
                 SafeFlowid, "safeguard", <<>>).c

-----------------------------------------------------------------------------
(* The main goroutine.                                                    *)

\* addNetemOperation and addOutputLimitOperation append a closure calling
\* AddNetem or AddOutputLimit; only its kind matters to the tree.
addNetemOperation(ops) == Append(ops, "netem")
addOutputLimitOperation(ops) == Append(ops, "tbf")

\* The operations Inject accumulates: netem when any of delay, drop,
\* corrupt or duplicate is set, then tbf when bandwidthLimit is.
Operations(k) ==
    LET netem == IF k.delay > 0 \/ k.drop > 0 \/ k.corrupt > 0 \/ k.duplicate > 0
                 THEN addNetemOperation(<<>>) ELSE <<>>
    IN IF k.bandwidthLimit > 0 THEN addOutputLimitOperation(netem) ELSE netem

\* Inject with no operation: applyOperations is skipped, so no link,
\* qdisc, filter or reconciler; the classid is written, the netns left
\* and Injected sent.
InjectWithoutOperations ==
    /\ mpc = "new"
    /\ Operations(knobs) = <<>>
    /\ operations' = <<>>
    /\ mpc' = "injected"
    /\ classid' = "classid"
    /\ stateSent' = Append(stateSent, "Injected")
    /\ UNCHANGED <<vars, knobs, txqlen, restoreFailed>>

\* Inject up to handleFiltersForServices: enter the netns, reset the
\* priority counter, build the tree and the disruption filters, Get every
\* service (a deleted one is an error) and start the reconcilers with the
\* ports Get returned.  Nothing runs concurrently yet.
InjectApply ==
    /\ mpc = "new"
    /\ operations' = Operations(knobs)
    /\ operations' # <<>>
    /\ \E failAt \in FailPoints, linkFail \in LinkFailPoints, lost \in SUBSET RaisedBefore(0) :
        LET raised == RaisedBefore(linkFail)
            c0 == [CtxIn(TRUE, failAt) EXCEPT !.prio = TcPriority]
            c1 == IF linkFail # 0 THEN [c0 EXCEPT !.err = TRUE] ELSE QdiscTree(c0, Operations(knobs))
            c2 == IF c1.err THEN c1 ELSE DisruptionFilters(c1)
            started == ~c2.err /\ \A s \in Services : svcExists[s]
            tcFault == failAt # 0 /\ c2.op >= failAt
            faults == (IF tcFault THEN 1 ELSE 0) + (IF linkFail # 0 THEN 1 ELSE 0) + Cardinality(lost)
        IN /\ lost \subseteq (IF started THEN {} ELSE raised)
           /\ used.faults + faults <= MaxFaults
           /\ filters' = c2.k
           /\ treeUp' = c2.up
           /\ tcFilterPriority' = c2.prio
           /\ used' = [used EXCEPT !.faults = @ + faults]
           /\ mpc' = IF started THEN "safeguards" ELSE "failed"
           /\ rstate' = IF started THEN [s \in Services |-> "running"] ELSE rstate
           /\ watcher' = IF started
                         THEN [s \in Services |-> [watcher[s] EXCEPT !.servicePorts = svcPorts[s]]]
                         ELSE watcher
           /\ txqlen' = IF started THEN SetTxQLen(txqlen, raised)
                        ELSE RestoreTxQLen(SetTxQLen(txqlen, raised), raised, lost)
           /\ restoreFailed' = lost
    /\ UNCHANGED <<clusterVars, streamVars, nsIn, crashed, classid, knobs, stateSent>>

\* The rest of Inject, while the reconcilers run: safeguards, allowed
\* hosts, the return of applyOperations (its deferred tx queue restores),
\* the cgroup classid, leaving the netns and sending Injected.
InjectSafeguards ==
    /\ mpc = "safeguards"
    /\ \E failAt \in FailPoints, lost \in SUBSET RaisedBefore(0) :
        LET c1 == Safeguards(CtxIn(TRUE, failAt))
            c2 == IF c1.err THEN c1 ELSE addFiltersForHosts(c1, AllowedHosts, SafeFlowid, "allowed")
            faults == (IF failAt # 0 /\ c2.op >= failAt THEN 1 ELSE 0) + Cardinality(lost)
        IN /\ used.faults + faults <= MaxFaults
           /\ filters' = c2.k
           /\ tcFilterPriority' = c2.prio
           /\ used' = [used EXCEPT !.faults = @ + faults]
           /\ mpc' = IF c2.err THEN "failed" ELSE "injected"
           /\ classid' = IF c2.err THEN classid ELSE "classid"
           /\ stateSent' = IF c2.err THEN stateSent ELSE Append(stateSent, "Injected")
           /\ txqlen' = RestoreTxQLen(txqlen, RaisedBefore(0), lost)
           /\ restoreFailed' = lost
    /\ UNCHANGED <<clusterVars, streamVars, watcher, nsIn, rstate, crashed, treeUp, knobs, operations>>

\* clearOperations: ClearQdisc on every interface deletes the root qdisc
\* and every filter under it.
clearOperations(c) == [c EXCEPT !.k = {}, !.up = FALSE]

\* Clean, called once Inject has returned: clear the tree; on success reset
\* the classid.  An error of LinkList or ClearQdisc returns before the
\* cgroup reset.  The deferred goroutine sends Cleaned in every case.
Clean ==
    /\ mpc \in {"injected", "failed"}
    /\ \E ok \in IF used.faults < MaxFaults THEN BOOLEAN ELSE {TRUE} :
        LET c == clearOperations(CtxIn(TRUE, 0))
        IN /\ filters' = IF ok THEN c.k ELSE filters
           /\ treeUp' = IF ok THEN c.up ELSE treeUp
           /\ classid' = IF ok THEN "0x0" ELSE classid
           /\ mpc' = IF ok THEN "cleaned" ELSE "cleanFailed"
           /\ used' = [used EXCEPT !.faults = @ + (IF ok THEN 0 ELSE 1)]
    /\ stateSent' = Append(stateSent, "Cleaned")
    /\ UNCHANGED <<clusterVars, streamVars, recVars, tcFilterPriority, txqlen, restoreFailed, knobs, operations>>

-----------------------------------------------------------------------------

\* NewNetworkDisruptionInjector: config.State = DisruptionState{} leaves the
\* State channel nil, and the goroutine sending Created blocks on it.
NDInit ==
    /\ InitWith("idle", FALSE)
    /\ mpc = "new"
    /\ knobs \in KnobChoices
    /\ operations = <<>>
    /\ classid = "unset"
    /\ stateSent = <<"Created">>
    /\ txqlen = LinkQLen
    /\ restoreFailed = {}

MainNext == InjectWithoutOperations \/ InjectApply \/ InjectSafeguards \/ Clean

NDNext ==
    \/ \E s \in Services : ReconcilerNext(s) /\ UNCHANGED mainVars
    \/ ClusterNext /\ UNCHANGED mainVars
    \/ MainNext

\* Every goroutine is scheduled fairly.  Inject runs to its end; Clean is
\* called from outside (the injector's signal handler) and is not owed.
NDSpec ==
    /\ NDInit /\ [][NDNext]_allVars
    /\ \A s \in Services : <>[]ReconcilerCanStep(s) => []<><<ReconcilerNext(s)>>_allVars
    /\ WF_allVars(InjectWithoutOperations \/ InjectApply \/ InjectSafeguards)


-----------------------------------------------------------------------------
(* Properties.                                                             *)

StaticOwners == {"catchall", "host", "safeguard", "allowed"}

\* Spec 4.2 step 4 and the comment above the safeguards in applyOperations:
\* the safeguard and allowed-host filters (band 1:1) must match before any
\* disruption filter (band 1:4).  tc tries the filters of a parent in
\* increasing priority number, so every 1:1 filter needs a smaller number
\* than every 1:4 filter, the reconcilers' included.
SafeguardsMatchFirst ==
    \A g, f \in filters : g.dev = f.dev /\ g.flowid = SafeFlowid /\ f.flowid = Flowid => g.prio < f.prio

\* A filter of the main goroutine (catch-all, hosts, safeguards, allowed
\* hosts) disappears only when Clean clears the tree: a reconciler deleting
\* its own filters by priority never takes one of them along.
StaticFiltersPersist ==
    [][\A f \in filters \ filters' : f.owner \in StaticOwners => mpc' = "cleaned"]_allVars

\* The filter table behind the injector: the filters the kernel holds on
\* some interface, without the interface, and the shared tcFilterPriority
\* counter, starting at TcPriority.  A filter deleted on some interfaces
\* only is still in the table.
FilterFields == {"prio", "ip", "port", "proto", "flowid", "owner"}
KernelTable == {[x \in FilterFields |-> f[x]] : f \in filters}
FT == INSTANCE FilterTable WITH table <- KernelTable, next <- tcFilterPriority, Start <- TcPriority

\* Inject, Clean and the reconcilers together implement FilterTable: every
\* step of the main goroutine or of a reconciler adds filters only under
\* priorities freshly drawn from the shared counter, one per filter, and
\* a delete by priority leaves nothing of that priority behind.  Two
\* goroutines drawing the same number, or a priority reused after a
\* failed add, would let one actor's delete take another's filter.
FilterTableRefined == FT!Spec

\* The comment above the tx queue loop in applyOperations: the queue length
\* set for the prio qdisc is removed once the injection is done if it was
\* not there before.  Once applyOperations has returned, on success or on
\* an error half-way through the links, every link has the TxQLen it had
\* before Inject, save a link whose restoring SetTxQLen(0) failed (an error
\* the defer only logs).
QueueLengthsRestored ==
    mpc \notin {"new", "safeguards"} =>
        \A i \in DOMAIN LinkQLen : txqlen[i] = LinkQLen[i] \/ i \in restoreFailed

\* Spec 4.2: Clean always attempts the cgroup reset, whether or not clearing
\* the root qdisc succeeded.
CleanResetsClassid == mpc \in {"cleaned", "cleanFailed"} => classid = "0x0"

\* Spec 4.3: a reconciler terminates once Clean has broadcast Cleaned.
CleanStopsReconcilers ==
    mpc \in {"cleaned", "cleanFailed"} ~> \A s \in Services : rstate[s] # "running"

====
