---------------------------- MODULE MCValidation ----------------------------
(***************************************************************************)
(* Bounded inputs for the validators.  A specification starts the one    *)
(* variable at every input of a set and keeps it (a validator is a pure   *)
(* function), so that an invariant is checked on every one of them.  An   *)
(* input is tagged with the validator it is for.                          *)
(***************************************************************************)
EXTENDS Validation

CONSTANTS c1, c2   \* config contents of the diff inputs (model values)

VARIABLE input

\* Segments of the strings used below.
segName  == [len |-> 5, lc |-> TRUE, num |-> NaN]     \* "pilot"
segUpper == [len |-> 5, lc |-> FALSE, num |-> NaN]    \* "Pilot"
seg10    == [len |-> 2, lc |-> TRUE, num |-> 10]      \* "10"
segPlus1 == [len |-> 2, lc |-> FALSE, num |-> 1]      \* "+1"

hostName  == <<segName, segName>>                     \* "pilot.pilot"
hostIPv4  == <<segPlus1, seg10, seg10, seg10>>        \* "+1.10.10.10": not an FQDN, an IPv4 address
hostUpper == <<segUpper, segName>>                    \* "Pilot.pilot"

\* Long hostnames of valid labels: 4 x 63 + 3 dots = 255 characters, and
\* 3 x 63 + 62 + 1 + 4 dots = 256 characters.
seg63 == [len |-> 63, lc |-> TRUE, num |-> NaN]
seg62 == [len |-> 62, lc |-> TRUE, num |-> NaN]
seg1  == [len |-> 1, lc |-> TRUE, num |-> NaN]
host255 == <<seg63, seg63, seg63, seg63>>
host256 == <<seg63, seg63, seg63, seg62, seg1>>

Addr(colon, host, port) == [colon |-> colon, host |-> host, port |-> port]

\* "", "pilot.pilot:8080", "+1.10.10.10:8080", "Pilot.pilot:8080",
\* "pilot.pilot", "pilot.pilot:x", "pilot.pilot:0"
MeshAddresses ==
    { EmptyAddress, Addr(TRUE, hostName, 8080), Addr(TRUE, hostIPv4, 8080),
      Addr(TRUE, hostUpper, 8080), Addr(FALSE, hostName, NaN),
      Addr(TRUE, hostName, NaN), Addr(TRUE, hostName, 0) }

\* nil, 0.5ms, 1ms, 5s, 45s, 2h (in half milliseconds)
DrainDurations == {Nil, 1, Millisecond, 5 * Second, 45 * Second, 2 * Hour}

\* nil, 1ms, 1s (the lower bound), 45s, 11m
RefreshDelays == {Nil, Millisecond, Second, 45 * Second, 11 * Minute}

\* 0.5ms, 1ms (the lower bound), 1s, 31s
ConnectTimeouts == {1, Millisecond, Second, 31 * Second}

MeshConfigs ==
    [egressProxyAddress : {EmptyAddress, Addr(TRUE, hostUpper, 8080)},
     discoveryAddress : MeshAddresses,
     mixerAddress : {EmptyAddress},
     statsdUdpAddress : {EmptyAddress},
     proxyListenPort : {15001, 0},
     proxyAdminPort : {15000},
     istioServiceCluster : {"istio-proxy"},
     drainDuration : DrainDurations,
     parentShutdownDuration : DrainDurations,
     discoveryRefreshDelay : RefreshDelays,
     connectTimeout : ConnectTimeouts,
     authCertsPath : {"/etc/certs/"},
     authPolicy : {1, 2}]

\* A validator call leaves its input as it is.
Validate == UNCHANGED input

For(kind, inputs) == { [kind |-> kind, v |-> x] : x \in inputs }

\* The mesh configs with a nil drain duration, a parent shutdown duration of
\* 1ms and a discovery refresh delay of exactly 1s: a field behind the early
\* return of ValidateParentAndDrain and a duration on a range bound.
EarlyReturnAtBound ==
    { m \in MeshConfigs : /\ m.drainDuration = Nil
                          /\ m.parentShutdownDuration = Millisecond
                          /\ m.discoveryRefreshDelay = Second }

MeshSpec == input \in For("mesh", EarlyReturnAtBound) /\ [][Validate]_input

-----------------------------------------------------------------------------
\* Destination weights: to "pilot.pilot" with weights around the bounds,
\* to an invalid host, and with a tag whose key the tag regexp rejects.
badTag == [id |-> 1, keyOk |-> FALSE, valueOk |-> TRUE]

DW(dest, tags, w) == [destination |-> dest, tags |-> tags, weight |-> w]

DestinationWeights ==
    { DW(hostName, {}, w) : w \in {-50, 0, 40, 60, 100, 150} }
    \cup { DW(hostUpper, {}, 100), DW(hostName, {badTag}, 100) }

\* Unset, empty, and every list of one or two destination weights.
RouteLists == {Nil, <<>>} \cup [1..1 -> DestinationWeights] \cup [1..2 -> DestinationWeights]

Target(uri, authority) == [uri |-> uri, authority |-> authority]

\* A match condition with a UDP match (not supported), a fixed delay of
\* 1s for half the requests, and an L4 fault with nothing set.
udpMatch == [source |-> EmptyStr, sourceTags |-> {}, tcp |-> Nil,
             udp |-> [sourceSubnet |-> <<>>, destinationSubnet |-> <<>>],
             httpHeaders |-> [n \in {} |-> Nil]]
fixedDelay  == [percent |-> 50, kind |-> "fixed", duration |-> Second]
validHTTPFault == [delay |-> fixedDelay, abort |-> Nil]
emptyL4Fault   == [terminate |-> Nil, throttle |-> Nil]

RouteRuleInputs ==
    [name : {EmptyStr, <<segName>>},
     destination : {EmptyStr, hostName},
     match : {Nil, udpMatch},
     rewrite : {Nil, Target(FALSE, FALSE), Target(TRUE, FALSE)},
     redirect : {Nil, Target(FALSE, FALSE), Target(FALSE, TRUE)},
     route : RouteLists,
     httpReqTimeout : {Nil},
     httpReqRetries : {Nil},
     httpFault : {Nil, validHTTPFault},
     l4Fault : {Nil, emptyL4Fault}]

\* The sub-messages, one at a time on a rule that is otherwise valid;
\* durations nil, 0.5ms and 1ms.
SubDurations == {Nil, 1, Millisecond}

Timeouts == {[kind |-> Nil, timeout |-> Nil]} \cup [kind : {"simple"}, timeout : SubDurations]

Retries ==
    {[kind |-> Nil, attempts |-> 0, perTryTimeout |-> Nil]}
    \cup [kind : {"simple"}, attempts : {-1, 0}, perTryTimeout : SubDurations]

Delays == [percent : {-1, 0, 100, 101}, kind : {"fixed", "exponential", Nil},
           duration : SubDurations]

Aborts == [percent : {0, 101}, kind : {"grpcStatus", "http2Error", "httpStatus", Nil},
           status : {-1, 0, 600, 601}]

Throttles == [percent : {-1, 0, 101}, downstreamLimitBps : {-1, 0}, upstreamLimitBps : {-1, 0},
              kind : {"period", "bytes", Nil}, period : SubDurations, bytes : {-1, 0}]

HTTPFaults == [delay : {Nil} \cup Delays, abort : {Nil} \cup Aborts]

L4Faults == [terminate : {Nil, [percent |-> 100], [percent |-> 101]},
             throttle : {Nil} \cup Throttles]

baseRoute ==
    [name |-> <<segName>>, destination |-> hostName, match |-> Nil, rewrite |-> Nil,
     redirect |-> Nil, route |-> Nil, httpReqTimeout |-> Nil, httpReqRetries |-> Nil,
     httpFault |-> Nil, l4Fault |-> Nil]

RouteSubMessageInputs ==
       { [baseRoute EXCEPT !.httpReqTimeout = x] : x \in Timeouts }
  \cup { [baseRoute EXCEPT !.httpReqRetries = x] : x \in Retries }
  \cup { [baseRoute EXCEPT !.httpFault = x] : x \in HTTPFaults }
  \cup { [baseRoute EXCEPT !.l4Fault = x] : x \in L4Faults }


-----------------------------------------------------------------------------
\* Type names "route-rule", "policy" and "Policy"; plurals "route-rules"
\* and "Policies".
typeRouteRule == << [len |-> 10, lc |-> TRUE, num |-> NaN] >>
typePolicy    == << [len |-> 6, lc |-> TRUE, num |-> NaN] >>
typeUpper     == << [len |-> 6, lc |-> FALSE, num |-> NaN] >>
pluralOk      == << [len |-> 11, lc |-> TRUE, num |-> NaN] >>
pluralUpper   == << [len |-> 8, lc |-> FALSE, num |-> NaN] >>

MCProtoMessages == {"istio.proxy.v1.config.RouteRule", "istio.proxy.v1.config.DestinationPolicy"}

Kinds ==
    [type : {typeRouteRule, typePolicy, typeUpper},
     plural : {pluralOk, pluralUpper},
     messageName : MCProtoMessages \cup {"istio.proxy.v1.config.Unknown"},
     hasKey : BOOLEAN]

\* Every registry of at most two kinds.
Descriptors == {<<>>} \cup [1..1 -> Kinds] \cup [1..2 -> Kinds]

-----------------------------------------------------------------------------
\* Subnets "10.10.10.10" with no block and with /0, /1, /32, /33 and /x,
\* "10.10.10/1" and "10.10.10.10/1/1".
ip4    == <<seg10, seg10, seg10, seg10>>
ip3    == <<seg10, seg10, seg10>>
Block(n) == << [len |-> 2, lc |-> TRUE, num |-> n] >>

MatchSubnets ==
    { <<ip4>>, <<ip4, Block(0)>>, <<ip4, Block(1)>>, <<ip4, Block(32)>>,
      <<ip4, Block(33)>>, <<ip4, Block(NaN)>>, <<ip3, Block(1)>>,
      <<ip4, Block(1), Block(1)>> }

L4Attributes ==
    [sourceSubnet : {<<>>} \cup [1..1 -> MatchSubnets],
     destinationSubnet : {<<>>, << <<ip4>> >>}]

\* Header names "uri" and "Cookie"; exact "", exact "/a", regex "", unset.
uriName    == [lc |-> "uri", lower |-> TRUE]
cookieName == [lc |-> "cookie", lower |-> FALSE]
StringMatches ==
    { [type |-> "exact", empty |-> TRUE], [type |-> "exact", empty |-> FALSE],
      [type |-> "regex", empty |-> TRUE], [type |-> Nil, empty |-> TRUE] }

MatchConditions ==
    [source : {EmptyStr, hostName, hostUpper},
     sourceTags : {{}, {badTag}},
     tcp : {Nil} \cup L4Attributes,
     udp : {Nil, [sourceSubnet |-> <<>>, destinationSubnet |-> <<>>],
                 [sourceSubnet |-> << <<ip4, Block(0)>> >>, destinationSubnet |-> <<>>]},
     httpHeaders : UNION { [names -> StringMatches] : names \in SUBSET {uriName, cookieName} }]

-----------------------------------------------------------------------------
\* A registry of the three kinds ValidateConfig dispatches to, with type
\* names "route-rule", "ingress-rule" and "destination-policy"; "policy"
\* is not declared.
typeIngressRule == << [len |-> 12, lc |-> TRUE, num |-> NaN] >>
typeDestPolicy  == << [len |-> 18, lc |-> TRUE, num |-> NaN] >>

RegistryKind(type, message) ==
    [type |-> type, plural |-> pluralOk, messageName |-> message, hasKey |-> TRUE]

MCRegistry ==
    << RegistryKind(typeRouteRule, RouteRuleMessage),
       RegistryKind(typeIngressRule, IngressRuleMessage),
       RegistryKind(typeDestPolicy, DestinationPolicyMessage) >>

IngressRules ==
    [name : {EmptyStr, <<segName>>, <<segUpper>>}, destination : {EmptyStr, hostName, hostUpper}]

\* A valid simple circuit breaker, then one field at a time out of bounds
\* or at a bound, and an unset oneof carrying a negative limit.
cbBase ==
    [kind |-> "simple", maxConnections |-> 0, httpMaxPendingRequests |-> 0,
     httpMaxRequests |-> 0, httpConsecutiveErrors |-> 0, httpMaxRequestsPerConnection |-> 0,
     sleepWindow |-> Second, httpDetectionInterval |-> Second, httpMaxEjectionPercent |-> 50]

CircuitBreakers ==
       {cbBase, [cbBase EXCEPT !.kind = Nil, !.maxConnections = -1]}
  \cup { [cbBase EXCEPT ![f] = -1] : f \in CircuitBreakerCounts }
  \cup { [cbBase EXCEPT !.sleepWindow = d] : d \in {Nil, 1} }
  \cup { [cbBase EXCEPT !.httpDetectionInterval = d] : d \in {Nil, 1} }
  \cup { [cbBase EXCEPT !.httpMaxEjectionPercent = pc] : pc \in {-1, 0, 100, 101} }

Policies == [tags : {{}, {badTag}}, loadBalancing : {Nil, "ROUND_ROBIN"},
             circuitBreaker : {Nil} \cup CircuitBreakers]

SomePolicies ==
    { [tags |-> {}, loadBalancing |-> Nil, circuitBreaker |-> cbBase],
      [tags |-> {badTag}, loadBalancing |-> Nil, circuitBreaker |-> Nil],
      [tags |-> {}, loadBalancing |-> Nil, circuitBreaker |-> [cbBase EXCEPT !.httpMaxRequests = -1]] }

DestinationPolicies ==
    [destination : {EmptyStr, hostName, hostUpper},
     policy : {<<>>} \cup [1..1 -> Policies] \cup [1..2 -> SomePolicies]]

ConfigObjects ==
       {Nil, [message |-> NotProto, value |-> Nil], [message |-> RouteRuleMessage, value |-> baseRoute]}
  \cup { [message |-> IngressRuleMessage, value |-> v] : v \in IngressRules }
  \cup { [message |-> DestinationPolicyMessage, value |-> v] : v \in DestinationPolicies }

ConfigInputs ==
    [typ : {typeRouteRule, typeIngressRule, typeDestPolicy, typePolicy}, obj : ConfigObjects]

-----------------------------------------------------------------------------
\* Services over the hosts above, with up to two ports named "", "pilot"
\* or "Pilot", numbered 0 or 80; instances of none or one of them.
ServicePorts == [name : {EmptyStr, <<segName>>, <<segUpper>>}, port : {0, 80}, protocol : {"HTTP"}]

Services ==
    [hostname : {EmptyStr, hostName, hostUpper, host255},
     ports : {<<>>} \cup [1..1 -> ServicePorts] \cup [1..2 -> ServicePorts]]

InstanceServices ==
    {Nil} \cup [hostname : {hostName},
                ports : {<<>>} \cup [1..1 -> ServicePorts] \cup [1..2 -> ServicePorts]]

ServiceInstances ==
    [service : InstanceServices, tags : {{}, {badTag}}, endpointPort : {0, 80},
     servicePort : {Nil} \cup [name : {EmptyStr, <<segName>>}, port : {80, 81},
                               protocol : {"HTTP", "TCP"}]]

\* Services whose hostname is one character over the bound of spec 4.1.
LongHostServices == [hostname : {host256}, ports : [1..1 -> ServicePorts]]

ServiceHostSpec == input \in For("service", LongHostServices) /\ [][Validate]_input

-----------------------------------------------------------------------------
\* The snapshot diff of the polling monitor: every pair of a cached and a
\* new snapshot over three keys and two contents.
Diff == INSTANCE ConfigDiff WITH Keys <- 1..3, Contents <- {c1, c2}

DiffPairs == Diff!Snapshots \X Diff!Snapshots

ValidationSpec ==
    /\ input \in For("diff", DiffPairs) \cup For("mesh", MeshConfigs) \cup For("route", RouteRuleInputs \cup RouteSubMessageInputs)
                 \cup For("descriptor", Descriptors) \cup For("match", MatchConditions)
                 \cup For("config", ConfigInputs) \cup For("instance", ServiceInstances)
                 \cup For("service", Services)
    /\ [][Validate]_input

-----------------------------------------------------------------------------
(***************************************************************************)
(* ValidateProxyMeshConfig never blames a field that satisfies its rules: *)
(* each error, through the prefixes of the nested validators and the      *)
(* early returns of ValidateParentAndDrain, ValidateRefreshDelay and      *)
(* ValidateProxyAddress, names a field that does break one, and each      *)
(* duration is checked against its own field's range.                     *)
(***************************************************************************)
MeshReportsOnlyInvalidFields ==
    input.kind = "mesh" =>
        { MeshField(e) : e \in ValidateProxyMeshConfig(input.v) } \subseteq InvalidMeshFields(input.v)

(***************************************************************************)
(* Spec sections 4.1 and 8: validators aggregate every violation instead  *)
(* of stopping at the first, so every field that breaks a rule is named   *)
(* in the error of ValidateProxyMeshConfig, a duration on a range bound  *)
(* (which the error's wording puts out of range) included.               *)
(***************************************************************************)
MeshReportsEveryInvalidField ==
    input.kind = "mesh" =>
        InvalidMeshFields(input.v) \subseteq { MeshField(e) : e \in ValidateProxyMeshConfig(input.v) }

(***************************************************************************)
(* ValidateRouteRule names exactly the fields that break a rule: its      *)
(* checks never mask one another, the per-route weight checks and the     *)
(* weight total together accept precisely the lists the spec allows      *)
(* (a lone route of weight 0 included), and a redirect conflicts with a   *)
(* route, a fault and a rewrite.  Through the timeout, retry and fault    *)
(* validators it names the sub-message that breaks a rule: duration and   *)
(* percentage bounds, unsupported delay, abort and terminate kinds, and a *)
(* oneof read through the Get accessor of a choice that is not set.       *)
(***************************************************************************)
RouteRuleReportsExactlyInvalidFields ==
    input.kind = "route" =>
        { e[1] : e \in ValidateRouteRule(input.v) } = InvalidRouteFields(input.v)

(***************************************************************************)
(* ConfigDescriptor.Validate reports every violation of the registry's    *)
(* invariants and nothing else: each kind's own checks and, through the   *)
(* maps built along the loop, every duplicated type and message name.    *)
(***************************************************************************)
DescriptorReportsEveryViolation ==
    input.kind = "descriptor" =>
        ValidateDescriptor(input.v) = DescriptorViolations(input.v)

(***************************************************************************)
(* ValidateMatchCondition names exactly the parts of a match condition    *)
(* that break a rule: the CIDR block bounds of ValidateCIDRBlock (1..32, *)
(* /32 a single host and /33 refused; /0 refused as the code does),      *)
(* the early return of ValidateIPv4Subnet on a second "/", the UDP and   *)
(* uri-header checks, and the subnets of both L4 protocols.               *)
(***************************************************************************)
MatchReportsExactlyInvalidFields ==
    input.kind = "match" =>
        { MatchField(e) : e \in ValidateMatchCondition(input.v) } = InvalidMatchFields(input.v)

(***************************************************************************)
(* ValidateConfig keeps the spec's contract: a request with a nil payload,*)
(* an undeclared type or a mismatched schema fails with exactly one error *)
(* naming one of those faults; any other request gets the kind's          *)
(* validator's verdict, which for ingress rules and destination policies  *)
(* (every circuit breaker limit included) names exactly the invalid       *)
(* fields.                                                                *)
(***************************************************************************)
ConfigFollowsContract ==
    input.kind = "config" =>
        LET errs == ValidateConfig(MCRegistry, input.v.typ, input.v.obj)
            bad  == EnvelopeViolations(MCRegistry, input.v.typ, input.v.obj)
        IN  IF bad # {} THEN \E e \in errs : errs = {e} /\ e[1] \in bad
            ELSE { e[1] : e \in errs } = InvalidKindFields(input.v.obj.message, input.v.obj.value)

(***************************************************************************)
(* Diff correctness (spec section 8): for every cached and new snapshot,  *)
(* compareToCache emits exactly the minimal per-key edit script, in key   *)
(* order: no event for an unchanged key, at most one per key, Delete for  *)
(* a vanished key, Add for a new one, Update for a changed one; the       *)
(* in--/io-- backtracking of its cursors included.                        *)
(***************************************************************************)
DiffIsMinimalEditScript ==
    input.kind = "diff" =>
        Diff!CompareToCache(input.v[1], input.v[2]) = Diff!ReferenceDiff(input.v[1], input.v[2])

(***************************************************************************)
(* Service.Validate names exactly the rules of spec section 4.1 a service *)
(* breaks (an unnamed port is only allowed alone, a hostname has at most  *)
(* 255 characters), and ServiceInstance.Validate names the    *)
(* fields of an instance that break one, its service's own violations     *)
(* and the lookup of its service port by name included.                   *)
(***************************************************************************)
ServiceReportsExactlyInvalidFields ==
    /\ input.kind = "service" =>
        { e[1] : e \in ServiceValidate(input.v) } = InvalidServiceFields(input.v)
    /\ input.kind = "instance" =>
        { e[1] : e \in ServiceInstanceValidate(input.v) } = InvalidInstanceFields(input.v)
=============================================================================
