# TLA+ models of the network disruption injector

These modules model the network disruption injector of chaos-controller
(`src/injector/network_disruption.go`). The injector enters a target's
network namespace and builds a tc tree there:

- a prio qdisc;
- optionally a cgroup-scoped second prio qdisc;
- a chain of netem/tbf operations;
- filters that steer traffic to the disrupted band 1:4.

It also starts one goroutine per watched Kubernetes service (the service
reconciler). That goroutine follows the service and its pods through two watch
streams and keeps endpoint and cluster-IP filters in step with them. `Clean`
later deletes the tree.

## Inventory: the parts and how they interact

| Part | Source | Interacts through | Status |
|---|---|---|---|
| Injector facade: `NewNetworkDisruptionInjector`, `Inject`, `Clean`, the State channel | network_disruption.go 101-235 | starts the reconcilers; shares the kernel's filters and the priority counter with them | partly (`NetworkDisruption`) |
| TC tree builder: `applyOperations`, `addFiltersForHosts`, `clearOperations` | 262-440, 881-959 | tc driver | partly (`NetworkDisruption`): the tree is abstracted to "root qdisc present" |
| Priority allocator: `getNewPriority`, `tcFilterPriority` | 32-33, 442-451 | shared by the main goroutine and every reconciler, under a mutex | modelled (`ServiceReconciler`) |
| Service reconciler: `watchServiceChanges`, `handleKubernetesServiceChanges`, `handleKubernetesPodsChanges`, `handlePodEndpoints…`, the filter builders and removal | 454-841 | cluster API watch streams; tc driver | modelled (`ServiceReconciler`) |
| TC driver, netns | not under src/ | — | environment, modelled from spec §6 and §2 (spec_modelled) |
| Kubernetes API and watch streams | not under src/ | — | environment: snapshots, replay from a version, bookmarks, Error events, server-side closes |
| Delay-jitter arithmetic in `Inject` | 140-157 | reads the parsed spec | modelled (`SpecCodec`, `Float64`) |
| Spec validator and argument codec | src/api/v1beta1/network_disruption.go | the controller renders the spec as the injector pod's arguments; the injector parses them | modelled (`SpecCodec`) |
| Controller helpers | src/controllers/helpers.go | none in this repository | modelled (`ControllerHelpers`): percentage scaling, deadline, label selector check, modified-error test |
| gRPC tests and mocks | src/grpc | — | not modelled: tests and a mock of another subsystem |

## Modules

### `ServiceReconciler.tla`

The state falls into three groups.

**Cluster.**

- `svcExists`, `svcPorts` and `podIP` hold the live objects.
- `rv` is the global resource version.
- `svcLog` and `podLog` are the event history the API server replays.

**Streams.**

- `svcWatch[s]` and `podWatch[s]` are each `nil`, `open` or `ending`, with a queue of events.

**Reconciler.**

- `watcher[s]` is the code's `serviceWatcher` struct. It holds the two filter lists, `podsWithoutIPs`, `servicePorts` and `servicesResourceVersion`. Its ghost field `svcApplied` is the resource version up to which the services stream has been handled: a watch from "" sets it to the snapshot's version, and each handled event or bookmark sets it to the event's version.
- `nsIn[s]` records whether the goroutine is inside the netns.
- `rstate[s]` is the goroutine's state.
- `crashed` records a panic.

**Kernel.**

- `filters` is a set of `[dev, prio, ip, port, proto, flowid, owner]`: one record per filter per interface. `Devs` is the set of the constant `Interfaces`, the link names `LinkList` returns (lines 271-275).
- `tcFilterPriority` is the shared priority counter.
- `treeUp` records whether the root qdisc exists.
- `owner` is a ghost field: who added the filter.

The actions correspond to the code as follows.

| Action | Code |
|---|---|
| `WatchServices` / `WatchPods` | the stream (re)creation at the top of the loop, 767-798; a failing `Watch()` makes the goroutine return |
| `ReceiveServiceEvent` / `ReceivePodEvent` | one `select` case, 805-838: the whole handler plus its error path (purge via the aliased `removeServiceFiltersInList(l, l)`, reset the list, drop the stream) in one step |
| `ServiceStreamClosed` / `PodStreamClosed` | the `!ok` branches |
| cluster actions | changes to services and pods, stream ends, Error events, bookmarks |

The handlers are operators over a context record. It threads through the
handler's tc calls:

- the kernel;
- the counter;
- the call count;
- the failing call;
- the netns flag;
- the error flag.

One bounded nondeterministic `failAt` chooses which tc call, if any, fails.

The tc driver is not under src/ and follows spec 6. `AddFilter` is one call over
a list of interfaces and is atomic (`AddFilterOn`). `DeleteFilter` removes one
priority from one interface and fails when the priority is absent there.
`removeServiceFilter` (lines 474-484) loops over the interfaces in order and
returns on the first error (`removeServiceFilterFrom`). A failure on the second
interface therefore leaves the filter on the later ones, and the caller then
drops the tracked entry.
Each handler's early returns and assignments follow the code. A handler
returns `Ok`, `Done`, `Fail` or a panic.

### `NetworkDisruption.tla`

This module extends `ServiceReconciler` with the main goroutine.

**State.**

- `mpc` is the main goroutine's program counter: new, safeguards, injected, failed, cleaned or cleanFailed.
- `classid` is the cgroup's net_cls value.
- `stateSent` is the values sent on the nil State channel.
- `knobs` is the spec's delay, drop, corrupt, duplicate and bandwidthLimit, chosen in Init from `KnobChoices`; `operations` is `i.operations`.
- `txqlen` is each link's TxQLen (NetlinkLink, not under src/, from spec 6); the links LinkList returns are the constant `LinkQLen`. `restoreFailed` is a ghost: the links whose deferred restore failed.

**Actions.**

- `Operations` is Inject's accumulation: netem (`addNetemOperation`) when delay, drop, corrupt or duplicate is set, then tbf (`addOutputLimitOperation`) when bandwidthLimit is. The chain of operation qdiscs has one qdisc per operation.
- `InjectWithoutOperations` is Inject with no operation: applyOperations is skipped, so no link, qdisc, filter or reconciler is touched; the classid is written and Injected sent.
- `InjectApply` covers `applyOperations` up to the reconciler start:
  - it resets the counter and builds the tree;
  - it adds the catch-all or the host filters;
  - it `Get`s each service and starts the reconcilers.
- `InjectSafeguards` covers the rest of Inject, while the reconcilers run:
  - it adds the safeguards and then the allowed hosts, in band 1:1; at the pod level each default route's gateway filter goes on that route's link only (`AddGateways`), the node IP filter on every interface (`Safeguards`);
  - it sets the classid and sends Injected.
- Before the tree, `InjectApply` runs the tx queue loop: each link of `LinkQLen` with TxQLen 0 is set to 1000 (`RaisedBefore`, `SetTxQLen`), and a failing SetTxQLen returns at once. The deferred restores (`RestoreTxQLen`) run where applyOperations returns: in `InjectApply` on an error, otherwise at the end of `InjectSafeguards`. A restore may fail; the code only logs it, and the ghost `restoreFailed` records the link.
- Both filter groups go through `addFiltersForHosts`: one filter per resolved IP of each host, in order, each under a new priority. An ingress host matches the packets' source (`HostMatch` writes its IP as `<<"src", ip>>`); every other flow matches the destination. The runs use one ingress host in band 1:4 and, in InjectCleanFaults, one egress allowed host in band 1:1.
- `Clean` covers `clearOperations`. It resets the classid only on success, and it always sends Cleaned.

`FT == INSTANCE FilterTable WITH table <- KernelTable, next <- tcFilterPriority`
maps the composition onto the abstract filter table (below). `KernelTable`
is the filters without their interface: a filter that is left on some
interfaces is still in the abstract table.

### `FilterTable.tla`

The abstract specification of the tc filter table and its priority
allocator. It has two variables: `table`, the installed filters, and `next`,
the last priority handed out. Its only action, `Batch`, is any step of any
actor. In a batch the allocator only moves forward. Every added filter has a
priority of its own from the range handed out in that step. Every deleted
priority is gone from the table. `NetworkDisruption` is checked to implement
it (`FilterTableRefined == FT!Spec`).

### `SpecCodec.tla` and `Float64.tla`

`SpecCodec` follows one network disruption spec from admission to the
injector's netem call.

**State.**

- `spec` is the admitted spec.
- `phase` is how far the spec got: submitted, accepted or rejected, encoded, parsed or parseFailed, injected.
- `args` is the pod's argument list.
- `parsed` is what the injector read back.
- `jitter` is the netem jitter in ms.

**Actions.**

| Action | Code |
|---|---|
| `ValidateSpec` | `Validate`: the error count of the multierror (`HostSpec.Validate`, the deprecated fields; `validateServices` is outside src/ and modelled from the spec) |
| `BuildArgs` | `GenerateArgs` |
| `ParseArgs` | the injector's flags (outside src/), `NetworkDisruptionHostSpecFromString` and `NetworkDisruptionServiceSpecFromString` with `strings.SplitN`, `strings.Split` and `strconv.Atoi` |
| `InjectNetem` | the netem branch of `Inject` (140-157) |

**Strings.** A string is a sequence of symbols. The separator `;`, the
digits and the signs are symbols of their own. Any other symbol stands for a
run of other characters (a host name, `tcp`). Splitting and integer parsing
look at nothing else.

**Float64.** The jitter is computed in float64. `Float64` models that
arithmetic exactly:

- a quotient of small integers rounded half to even on 53 bits;
- its product with an integer, rounded again;
- the truncating `time.Duration` conversion.

Significands are above TLC's 32-bit integers, so they are sequences of 14-bit
limbs. The operators were compared with IEEE doubles for every percentage
0-100 and a spread of delays up to 60000.

### `ControllerHelpers.tla`

`getScaledValueFromIntOrPercent` computes
`math.Ceil(float64(value) * float64(total) / 100)` (or `Floor`). The product
is exact below 2^53, and the division rounds. `Divide`, `Ceil` and `Floor`
model that over `Float64`. `ScaledValueExact` compares the result with the
exact integer ceiling and floor for percentages 1-100 and totals 1 to 5000.
It holds, because a non-integer quotient n/100 is at least 0.01 away from an
integer, far more than the rounding error. Computing the fraction first, as
`Inject` does for its jitter, would break it. The comparison is an `ASSUME`
of `MC_SpecCodec`, checked before each run of that module: it is a statement
about constants, which TLC evaluates once.

`validateLabelSelector` is modelled as what `regexp.MatchString` does: an
unanchored match, so the selector passes when some substring of it
(`SubSeqs`) is in the label grammar (`LabelGrammar`). Its comment says it
asserts that the selector "matches valid grammar". `LabelSelectorAcceptsAnyAlnum`,
another `ASSUME` of `MC_SpecCodec`, states what it really accepts: every
selector with a letter or digit, "a=!" and "-a-" included. It is checked
over every string of up to four symbols drawn from two alnum symbols, two
punctuation symbols, "=" and "!". `calculateDeadline` (creation time plus
duration minus now, away from the int64 saturation of Add and Sub) and
`isModifiedError` (the conflict message as a substring) are operators.
Nothing in this repository calls these helpers, so no action uses them.

The MC modules `MC_ServiceReconciler`, `MC_NetworkDisruption` and
`MC_SpecCodec` give the
model values and the small port sets and host sequences.

## Runs

Every run sets `CHECK_DEADLOCK FALSE`. The cluster is bounded by `MaxRV`, and
once the bound is reached the system really stops: the reconcilers block in
`select` with nothing to receive, as the goroutines do. The codec pipeline
ends once the injector has started or the spec was refused.

### Passing runs

| Run (cfg) | Bounds | Checks |
|---|---|---|
| ReconcilerConverges | 1 service, 2 pods, MaxRV 6, no faults | `Converged`: once every event is consumed, the installed filters are exactly those of the current service and pods |
| TrackingStreams | 1 pod, pending pods, a stream end or Error event, a bookmark, a failed Watch(), MaxRV 4 | `TypeOK`; `TrackedFiltersInstalled`: every tracked filter is installed under its priority; `ReconcilerCatchesUp`: under fair scheduling a running reconciler eventually has both streams open and nothing left to read |
| InjectCleanFaults | Inject, reconciler and Clean; 1 fault at any tc call of a step (FaultWindow 12: no step makes more); three interfaces, one gateway on the second; one ingress host, one egress allowed host; three links, the second with a tx queue; knobs: a delay, a drop with a bandwidth limit, or nothing | `QueueLengthsRestored`: once applyOperations has returned, every link has its old TxQLen unless its restore failed; `TrackedFiltersInstalled`, now on every interface, so an entry kept after a delete that stopped part-way is caught; `StaticFiltersPersist` (no reconciler removes a main-goroutine filter); `FilterTableRefined`: the composition implements `FilterTable` |
| CodecRoundTrip | one host, allowed host and service each from 5 hosts (one with ";" in its host word) and 2 services; drop, corrupt, delay (0, 10, 100, 60000), jitter (0, 1, 50, 100), bandwidth; deprecated fields | `InjectorSeesAdmittedSpec`: an admitted spec whose words hold no ";" is parsed back unchanged (one with ";" is not, below); `DefaultJitterIsTenth`: without DelayJitter the jitter is a tenth of the delay, at least 1 ms |

### Violation runs

Each violation run checks one property. Its finding is in PROJECT.json.

| Run | What the code does |
|---|---|
| PendingPodDuplicate | a pending pod's filter is installed twice (relist, then the Modified branch, line 741); the deletion removes one copy |
| ThreePortsModified | `removeServiceFiltersInList(l, l)` (line 662) skips filters while shifting the array it ranges over |
| HeadlessNoPortsPanic | `tcFiltersFromPod[0]` on an empty slice (line 714) |
| CursorSkip | a pods-watch bookmark sets `servicesResourceVersion` (line 700); the services watch then resumes past a change it never delivered |
| TcFaultLeak | a failing tc call in `addServiceFilters` returns nil, and the filters already added leak untracked (line 464) |
| SafeguardOrder | the safeguards get larger priority numbers than the disruption filters, so tc tries them last, contrary to the comment at line 397 |
| CleanTermination | the State channel is nil (line 114), so the reconcilers never see Cleaned and never stop |
| JitterPercent | 29% of 100 ms gives 28 ms of jitter: `float64(29)/100.0` is below 0.29 and the conversion truncates (line 150) |

Further disagreements were found by runs that were later folded away, or
by throwaway configurations, because every run of the project is in use; each
is a short trace.

- Validate admits a host word with ";" in it (lines 93-122, 229-237). The host
  `10.0.0.1;80` with port 0 is rendered `10.0.0.1;80;0;;` (line 144) and
  parsed back (line 174) as host 10.0.0.1, port 80, protocol "0" and flow
  ";": `InjectorSeesAdmittedSpec` without its `SepFreeSpec` precondition
  fails on ValidateSpec, BuildArgs, ParseArgs.
- A watch Error event returns from the handler before `Netns.Enter` (line
  606). The error-path purge (line 814) then deletes outside the namespace;
  every DeleteFilter fails and the list is cleared anyway, so with no tc fault
  at all the cluster-IP filter leaks untracked and `OwnedFiltersTracked`
  fails: WatchServices, WatchPods, ReceiveServiceEvent (Added), StreamFailed,
  ReceiveServiceEvent (Error).
- On three interfaces, a Modified event whose delete of the old cluster-IP
  filter fails on the second interface leaves it on the second and third
  (removeServiceFilter, line 477), while the handler's error path drops the
  entry: `OwnedFiltersTracked` fails after WatchServices,
  ServicePortsChanged, WatchPods and two ReceiveServiceEvent steps.

- A services watch recreated with `servicesResourceVersion` "" (no bookmark
  yet) starts from a snapshot. A service deleted while no watch was open is
  absent from it, so its Deleted event never arrives and `Converged` fails:
  StreamEnded, ServiceDeleted, ServiceStreamClosed, WatchServices.
- `Clean` returns on a `clearOperations` error before the cgroup reset (line
  212), so `CleanResetsClassid` fails after one failing Clean.

A further divergence is known and not given a run of its own. For a headless
service the code appends a Port-0 record to `servicePorts` but reconciles the
endpoint filters with `service.Spec.Ports` (line 646). The endpoint filters
therefore sit on the target port, whereas spec scenario 5 expects one filter on
port 0. The model builds them as the code does.

Stream ends, bookmarks and Watch() failures together with Inject and Clean are
not checked in a passing run of the composition: that state space took about
1.5 minutes and added no property beyond InjectCleanFaults and TrackingStreams.

## Bounds and why they suffice

**Cluster and pods.**

- One service suffices because reconcilers of different services share only the kernel and the counter. Both are exercised by the main goroutine, which runs concurrently with the reconciler.
- Two pods are needed for the relist/pending-IP and the partial-failure cases.

**Events and resource versions.**

- `MaxRV` 3-6 allows create, modify and delete sequences of two objects.
- `MaxPriority` caps the counter. After Clean the reconcilers retry forever (a real livelock), so the counter is unbounded without the cap.

**Faults.**

- `FaultWindow` is the number of tc calls of a step that may fail. InjectCleanFaults uses 12: a fault at call 12 is reachable and one at call 13 is not, so every call of every step may fail. TrackingStreams has no tc fault; TcFaultLeak lets one of the first three calls of a step fail, which its trace needs.

**Interfaces.**

- The reconciler runs use one interface: their handlers do not depend on the count. InjectCleanFaults uses three, so a delete can stop after the first or the second interface, and the gateway filter sits on one link of several.

**Codec.**

- One entry per list suffices: the parsers treat every entry alike and fail the list on the first bad one.
- The hosts cover an IP, a name, an empty host with a flow (invalid), port 0 and empty protocol or flow fields: the cases where a field could shift or vanish.
- The delays and percentages include 0, the 1 ms floor, the 60000 ms maximum and, in JitterPercent, the percentages whose float quotient rounds down (28, 29, 57, 58).

## Fairness

Each reconciler goroutine is weakly fair. The Go scheduler runs every
runnable goroutine eventually. The fairness is written as
`<>[]ReconcilerCanStep(s) => []<><<ReconcilerNext(s)>>_vars`, where
`ReconcilerCanStep` is the enabling condition spelled out from the guards.
TLC did not get past evaluating `ENABLED` of the handler operators, even on
the smallest model, so `WF_vars(ReconcilerNext(s))` is not used.

The main goroutine is weakly fair until Inject returns
(`WF_allVars(InjectApply \/ InjectSafeguards)`). `Clean` is called from
outside, on a signal, and is not owed. The cluster is not fair: it may stop
changing.

## Not modelled

- Qdisc handles.
- DNS resolution: `resolveHost` is not under src/; each host carries the IPs it resolves to as a constant.
- `UpdateConfig`.
- Per-interface qdiscs: `AddPrio` and `ClearQdisc` act on all interfaces at once, as spec 6 describes them; `treeUp` is one flag.
- Resource-version compaction (410 Gone).
- The 16-bit limit of tc priorities: reaching it takes 16386 allocations, far beyond a state space TLC can explore.
- The injector's command-line parsing is not under src/. `FlagValues` models it from the spec as "the values following each occurrence of the flag".

## Plan for later sittings

1. Resource-version compaction (410 Gone) in the cluster environment, for the Error-event retry loop at line 818.
2. Two namespace handles and a torn read of the config record, for `UpdateConfig` (line 193).
