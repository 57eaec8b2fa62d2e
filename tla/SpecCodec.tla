------------------------------ MODULE SpecCodec ------------------------------
(***************************************************************************)
(* The network disruption spec on its way from the controller to the      *)
(* injector (src/api/v1beta1/network_disruption.go) and the first thing   *)
(* Inject derives from it (src/injector/network_disruption.go, the netem  *)
(* jitter and the list of operations).                                    *)
(*                                                                         *)
(* The controller validates the spec (Validate) and renders it as the     *)
(* injector's command line (GenerateArgs); the injector parses the host   *)
(* and service flags back (NetworkDisruptionHostSpecFromString,           *)
(* NetworkDisruptionServiceSpecFromString) and Inject computes the delay  *)
(* jitter in float64 arithmetic.                                          *)
(*                                                                         *)
(* A string is a sequence of symbols.  The separator ";", the digits and  *)
(* the signs are symbols of their own; any other symbol stands for a run  *)
(* of characters none of which is one of those (a host name, "tcp",       *)
(* "ingress"), which is all that splitting and integer parsing look at.   *)
(***************************************************************************)
EXTENDS Float64

CONSTANTS
    HostChoices,      \* NetworkDisruptionHostSpec records a spec may hold
    ServiceChoices,   \* NetworkDisruptionServiceSpec records
    KnobChoices,      \* records of the six numeric knobs
    DeprecatedPortChoices, \* values of the deprecated port; 0 stands for nil
    DeprecatedFlowChoices, \* values of the deprecated flow
    ExistingServices, \* the services the cluster has
    K8sClientWired    \* Validate has a cluster client (k8sClient != nil)

Sep == ";"
DigitSym == [d \in 0..9 |-> <<"0", "1", "2", "3", "4", "5", "6", "7", "8", "9">>[d + 1]]
Digits == {DigitSym[d] : d \in 0..9}
Str(w) == <<w>>   \* a one-symbol string: a word without separator, digit or sign

-----------------------------------------------------------------------------
(* strconv and strings.                                                    *)

\* strconv.Itoa
RECURSIVE ItoaNat(_)
ItoaNat(n) == IF n < 10 THEN <<DigitSym[n]>> ELSE ItoaNat(n \div 10) \o <<DigitSym[n % 10]>>
Itoa(n) == IF n < 0 THEN <<"-">> \o ItoaNat(-n) ELSE ItoaNat(n)

\* strconv.Atoi: an optional sign and at least one digit, else an error.
AtoiBody(s) == IF s # <<>> /\ s[1] \in {"+", "-"} THEN Tail(s) ELSE s
AtoiOk(s) == AtoiBody(s) # <<>> /\ \A i \in 1..Len(AtoiBody(s)) : AtoiBody(s)[i] \in Digits
Atoi(s) ==
    LET v == FoldLeft(LAMBDA acc, c : 10 * acc + CHOOSE d \in 0..9 : DigitSym[d] = c,
                      0, AtoiBody(s))
    IN IF s[1] = "-" THEN -v ELSE v

\* strings.SplitN(s, ";", n); n < 0 is strings.Split.  An empty string
\* splits into one empty field.
RECURSIVE SplitN(_, _)
SplitN(s, n) ==
    LET i == SelectInSeq(s, LAMBDA c : c = Sep)
    IN IF i = 0 \/ n = 1 THEN <<s>>
       ELSE <<SubSeq(s, 1, i - 1)>> \o SplitN(SubSeq(s, i + 1, Len(s)), n - 1)

-----------------------------------------------------------------------------
(* The codec.                                                              *)

\* Mutant: protocol and flow rendered in each other's place.
HostArgFlowFirst(h) == h.host \o <<Sep>> \o Itoa(h.port) \o <<Sep>> \o h.flow \o <<Sep>> \o h.protocol

\* fmt.Sprintf("%s;%d;%s;%s", host.Host, host.Port, host.Protocol, host.Flow)
HostArg(h) == h.host \o <<Sep>> \o Itoa(h.port) \o <<Sep>> \o h.protocol \o <<Sep>> \o h.flow

\* fmt.Sprintf("%s;%s", service.Name, service.Namespace)
ServiceArg(v) == v.name \o <<Sep>> \o v.namespace

FlagArgs(flag, vals) == FlattenSeq([i \in 1..Len(vals) |-> <<Str(flag), vals[i]>>])

\* GenerateArgs: the fixed prefix, the six knobs, then one flag per host,
\* allowed host and service.
GenerateArgs(s) ==
    <<Str("network-disruption"),
      Str("--corrupt"), Itoa(s.corrupt), Str("--drop"), Itoa(s.drop),
      Str("--duplicate"), Itoa(s.duplicate), Str("--delay"), Itoa(s.delay),
      Str("--delay-jitter"), Itoa(s.delayJitter),
      Str("--bandwidth-limit"), Itoa(s.bandwidthLimit)>>
    \o FlagArgs("--hosts", [i \in 1..Len(s.hosts) |-> HostArg(s.hosts[i])])
    \o FlagArgs("--allowed-hosts", [i \in 1..Len(s.allowedHosts) |-> HostArg(s.allowedHosts[i])])
    \o FlagArgs("--services", [i \in 1..Len(s.services) |-> ServiceArg(s.services[i])])

\* One <host>;<port>;<protocol>;<flow> value: missing trailing fields keep
\* their defaults, an empty port is 0, a port Atoi rejects is an error.
ParseHost(str) ==
    LET f == SplitN(str, 4)
        hasPort == Len(f) > 1 /\ f[2] # <<>>
    IN [ok |-> ~hasPort \/ AtoiOk(f[2]),
        spec |-> [host |-> f[1],
                  port |-> IF hasPort /\ AtoiOk(f[2]) THEN Atoi(f[2]) ELSE 0,
                  protocol |-> IF Len(f) > 2 THEN f[3] ELSE <<>>,
                  flow |-> IF Len(f) > 3 /\ f[4] # <<>> THEN f[4] ELSE <<>>]]

\* NetworkDisruptionHostSpecFromString: the first bad host fails the list.
NetworkDisruptionHostSpecFromString(strs) ==
    LET r == [i \in 1..Len(strs) |-> ParseHost(strs[i])]
    IN [ok |-> \A i \in 1..Len(r) : r[i].ok, specs |-> [i \in 1..Len(r) |-> r[i].spec]]

\* NetworkDisruptionServiceSpecFromString: exactly two fields, or an error.
NetworkDisruptionServiceSpecFromString(strs) ==
    LET f == [i \in 1..Len(strs) |-> SplitN(strs[i], -1)]
    IN [ok |-> \A i \in 1..Len(f) : Len(f[i]) = 2,
        specs |-> [i \in 1..Len(f) |-> [name |-> f[i][1],
                                        namespace |-> IF Len(f[i]) > 1 THEN f[i][2] ELSE <<>>]]]

-----------------------------------------------------------------------------
(* Validation.                                                             *)

\* NetworkDisruptionHostSpec.Validate: a flow needs a host or a port.
HostSpecValid(h) == ~(h.flow # <<>> /\ h.host = <<>> /\ h.port = 0)

InvalidCount(hs) == Len(SelectSeq(hs, LAMBDA h : ~HostSpecValid(h)))

\* validateServices: one error per service the cluster does not have.
ServiceErrors(s) ==
    IF K8sClientWired
    THEN Len(SelectSeq(s.services, LAMBDA v : v \notin ExistingServices))
    ELSE 0

\* Validate: the number of errors the multierror aggregates.
Validate(s) ==
    ServiceErrors(s) + InvalidCount(s.hosts) + InvalidCount(s.allowedHosts)
    + (IF s.deprecatedPort # 0 THEN 1 ELSE 0)
    + (IF s.deprecatedFlow # <<>> THEN 1 ELSE 0)


-----------------------------------------------------------------------------
(* From the controller to Inject.                                          *)

\* The specs the API server admits: the kubebuilder and ddmark markers
\* (ranges, enums, AtLeastOneOf) hold; at most one host of each kind.
Specs ==
    {[hosts |-> h, allowedHosts |-> a, services |-> v,
      drop |-> k.drop, corrupt |-> k.corrupt, duplicate |-> k.duplicate,
      delay |-> k.delay, delayJitter |-> k.delayJitter, bandwidthLimit |-> k.bandwidthLimit,
      deprecatedPort |-> dp, deprecatedFlow |-> df] :
       h \in BoundedSeq(HostChoices, 1), a \in BoundedSeq(HostChoices, 1),
       v \in BoundedSeq(ServiceChoices, 1),
       k \in {k \in KnobChoices : k.drop + k.corrupt + k.duplicate + k.delay + k.bandwidthLimit > 0},
       dp \in DeprecatedPortChoices, df \in DeprecatedFlowChoices}

VARIABLES
    spec,     \* the disruption's network spec, immutable
    phase,    \* how far the spec got
    args,     \* the injector's command line
    parsed,   \* what the injector made of it
    jitter    \* the netem jitter Inject passes to AddNetem, in ms (0: no netem)

codecVars == <<spec, phase, args, parsed, jitter>>

\* The values given to a flag, in order (the injector's flag parsing).
FlagValues(as, flag) ==
    LET idx == {i \in 1..Len(as) - 1 : as[i] = Str(flag)}
    IN [j \in 1..Cardinality(idx) |-> as[1 + CHOOSE i \in idx :
                                             Cardinality({l \in idx : l <= i}) = j]]

IntFlag(as, flag) == LET v == FlagValues(as, flag) IN [ok |-> AtoiOk(v[1]), n |-> Atoi(v[1])]

CodecInit ==
    /\ spec \in Specs
    /\ phase = "submitted"
    /\ args = <<>>
    /\ parsed = spec
    /\ jitter = 0

\* The controller's admission: Validate returns an error or nil.
ValidateSpec ==
    /\ phase = "submitted"
    /\ phase' = IF Validate(spec) = 0 THEN "accepted" ELSE "rejected"
    /\ UNCHANGED <<spec, args, parsed, jitter>>

\* The injector pod is created with GenerateArgs as its arguments.
BuildArgs ==
    /\ phase = "accepted"
    /\ args' = GenerateArgs(spec)
    /\ phase' = "encoded"
    /\ UNCHANGED <<spec, parsed, jitter>>

\* The injector reads its flags and parses hosts, allowed hosts and
\* services; any error stops it.
ParseArgs ==
    /\ phase = "encoded"
    /\ LET knob(f) == IntFlag(args, f)
           hs == NetworkDisruptionHostSpecFromString(FlagValues(args, "--hosts"))
           as == NetworkDisruptionHostSpecFromString(FlagValues(args, "--allowed-hosts"))
           vs == NetworkDisruptionServiceSpecFromString(FlagValues(args, "--services"))
           names == <<"--drop", "--corrupt", "--duplicate", "--delay", "--delay-jitter", "--bandwidth-limit">>
           ok == hs.ok /\ as.ok /\ vs.ok /\ \A i \in 1..6 : knob(names[i]).ok
       IN /\ phase' = IF ok THEN "parsed" ELSE "parseFailed"
          /\ parsed' = [spec EXCEPT !.hosts = hs.specs, !.allowedHosts = as.specs,
                          !.services = vs.specs,
                          !.drop = knob("--drop").n, !.corrupt = knob("--corrupt").n,
                          !.duplicate = knob("--duplicate").n, !.delay = knob("--delay").n,
                          !.delayJitter = knob("--delay-jitter").n,
                          !.bandwidthLimit = knob("--bandwidth-limit").n]
    /\ UNCHANGED <<spec, args, jitter>>

\* Inject's netem part: 10% of the delay by default, else DelayJitter
\* percent of it, in float64, truncated to whole ms, at least 1 ms.
DelayJitter(d, j) ==
    LET x == IF j = 0 THEN Product(Quotient(1, 10), d)
             ELSE Product(Quotient(j, 100), d)
    IN IF Trunc(x) < 1 THEN 1 ELSE Trunc(x)

InjectNetem ==
    /\ phase = "parsed"
    /\ jitter' = IF parsed.delay > 0 \/ parsed.drop > 0 \/ parsed.corrupt > 0 \/ parsed.duplicate > 0
                 THEN DelayJitter(parsed.delay, parsed.delayJitter) ELSE 0
    /\ phase' = "injected"
    /\ UNCHANGED <<spec, args, parsed>>

CodecNext == ValidateSpec \/ BuildArgs \/ ParseArgs \/ InjectNetem

CodecSpec == CodecInit /\ [][CodecNext]_codecVars


-----------------------------------------------------------------------------
(* Properties.                                                             *)

AtLeastOneMs(n) == IF n < 1 THEN 1 ELSE n

\* A word the separator does not occur in.
SepFree(w) == \A i \in 1..Len(w) : w[i] # Sep

\* Every host field and service name the spec carries is free of ";".
\* Validate (lines 93-122, 229-237) does not ask for it: a host
\* "10.0.0.1;80" is admitted, rendered as "10.0.0.1;80;0;;" and parsed back
\* as host 10.0.0.1, port 80, protocol "0" and flow ";".
SepFreeSpec(s) ==
    /\ \A h \in Range(s.hosts) \cup Range(s.allowedHosts) :
          SepFree(h.host) /\ SepFree(h.protocol) /\ SepFree(h.flow)
    /\ \A v \in Range(s.services) : SepFree(v.name) /\ SepFree(v.namespace)

\* Spec 4.1 and 8 (host parse round trip), as far as GenerateArgs and the
\* SplitN parsers keep it: for an admitted spec whose words hold no ";",
\* parsing GenerateArgs never fails and every host, allowed host, service
\* and knob comes back equal, empty protocol and flow fields and port 0
\* included.  Specs with ";" in a word are admitted too (above) and shift
\* fields; the README gives the trace.
InjectorSeesAdmittedSpec ==
    phase \in {"parsed", "parseFailed", "injected"} /\ SepFreeSpec(spec)
        => phase # "parseFailed" /\ parsed = spec

\* Spec 4.2 and 8 (jitter derivation): without DelayJitter, Inject's
\* float64 computation gives a tenth of the delay in whole ms, at least 1.
DefaultJitterIsTenth ==
    phase = "injected" /\ jitter > 0 /\ spec.delayJitter = 0
        => jitter = AtLeastOneMs(spec.delay \div 10)

\* Spec 4.2 and 8: with DelayJitter set, the jitter is DelayJitter percent
\* of the delay (in whole ms, at least 1).
JitterIsPercentOfDelay ==
    phase = "injected" /\ jitter > 0 /\ spec.delayJitter > 0
        => jitter = AtLeastOneMs((spec.delayJitter * spec.delay) \div 100)

====
