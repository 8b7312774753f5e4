----------------------------- MODULE Validation -----------------------------
(***************************************************************************)
(* The validators of model/validation.go, as pure operators.               *)
(*                                                                         *)
(* A validator returns the set of errors it appends with multierror; the  *)
(* empty set is a nil error.  An error is a path: a sequence of tags, the *)
(* first naming the field it is about (the wording of the message), with  *)
(* multierror.Prefix modelled as prepending a tag.                         *)
(*                                                                         *)
(* A string is abstracted to its dot-separated segments (strings.Split on  *)
(* "."); a segment to its length, whether the DNS-1123 label regex        *)
(* matches it, and what strconv.Atoi makes of it (NaN on a parse error).  *)
(* A duration is counted in half milliseconds, so that an odd count is a  *)
(* duration that is not a whole number of milliseconds; Nil is a nil or   *)
(* unrepresentable proto Duration (ptypes.Duration fails).                *)
(***************************************************************************)
EXTENDS Integers, Sequences, SequencesExt, FiniteSets, Functions

CONSTANTS
    Nil,   \* an absent proto message, or a Duration ptypes.Duration rejects
    NaN,   \* what strconv.Atoi reports as a parse error
    ProtoMessages  \* message names the proto registry knows (proto.MessageType)

Segment == [len : Nat, lc : BOOLEAN, num : Int \cup {NaN}]

EmptyStr == << [len |-> 0, lc |-> FALSE, num |-> NaN] >>

StrLen(s) == SumFunction([i \in DOMAIN s |-> s[i].len]) + Len(s) - 1

Errs(tags) == {tags}

\* multierror.Prefix(err, p) for every error of errs.
Prefix(p, errs) == { <<p>> \o e : e \in errs }

-----------------------------------------------------------------------------
(* Strings, ports and addresses.                                           *)

\* IsDNS1123Label: at most 63 characters and the label regex matches the
\* whole string (which has no dot, so it is a single segment).
IsDNS1123Label(s) == Len(s) = 1 /\ s[1].len <= 63 /\ s[1].len > 0 /\ s[1].lc

ValidatePort(port) ==
    IF 1 <= port /\ port <= 65535 THEN {} ELSE Errs(<<"port_range">>)

\* ValidateFQDN: length, emptiness, then the first label that is not a
\* DNS-1123 label; each check returns.
ValidateFQDN(s) ==
    IF StrLen(s) > 255 THEN Errs(<<"fqdn_too_long">>)
    ELSE IF StrLen(s) = 0 THEN Errs(<<"fqdn_empty">>)
    ELSE IF \E i \in DOMAIN s : ~IsDNS1123Label(<<s[i]>>) THEN Errs(<<"fqdn_label">>)
    ELSE {}

\* ValidateIPv4Address: four dot-separated octets, each Atoi-able in 0..255.
ValidateIPv4Address(s) ==
    IF Len(s) # 4 \/ \E i \in DOMAIN s : s[i].num \notin 0..255
    THEN Errs(<<"ipv4_address">>) ELSE {}

(***************************************************************************)
(* ValidateProxyAddress: an address is abstracted to whether it has a    *)
(* ':', the host before the first ':', and Atoi of the rest.  A host that *)
(* is not an FQDN is accepted when it is an IPv4 address.                  *)
(***************************************************************************)
\* The empty address "": no ':', an empty host, nothing to parse.
EmptyAddress == [colon |-> FALSE, host |-> EmptyStr, port |-> NaN]

ValidateProxyAddress(a) ==
    IF ~a.colon THEN Errs(<<"no_separator">>)
    ELSE IF a.port = NaN THEN Errs(<<"port_parse">>)
    ELSE IF ValidatePort(a.port) # {} THEN ValidatePort(a.port)
    ELSE IF ValidateFQDN(a.host) # {} /\ ValidateIPv4Address(a.host) # {}
         THEN Errs(<<"host">>)
    ELSE {}

-----------------------------------------------------------------------------
(* Durations.                                                              *)

Millisecond == 2
Second      == 1000 * Millisecond
Minute      == 60 * Second
Hour        == 60 * Minute

discoveryRefreshDelayMax == 10 * Minute
discoveryRefreshDelayMin == Second
connectTimeoutMax        == 30 * Second
connectTimeoutMin        == Millisecond
drainTimeMax             == Hour
parentShutdownTimeMax    == Hour

\* ValidateDuration: representable, at least 1ms, whole milliseconds; the
\* first failing check returns.
ValidateDuration(pd) ==
    IF pd = Nil THEN Errs(<<"unrepresentable">>)
    ELSE IF pd < Millisecond THEN Errs(<<"below_1ms">>)
    ELSE IF pd % Millisecond # 0 THEN Errs(<<"ms_precision">>)
    ELSE {}

ValidateDurationRange(dur, min, max) ==
    IF dur > max \/ dur < min THEN Errs(<<"out_of_range">>) ELSE {}

(***************************************************************************)
(* ValidateParentAndDrain: if either duration is malformed, only those    *)
(* errors are returned; otherwise every rule on the pair is checked.      *)
(***************************************************************************)
ValidateParentAndDrain(drain, parent) ==
    LET malformed == Prefix("drain", ValidateDuration(drain))
                     \cup Prefix("parent", ValidateDuration(parent))
    IN  IF malformed # {} THEN malformed
        ELSE    (IF drain % Second # 0 THEN Errs(<<"drain", "s_precision">>) ELSE {})
           \cup (IF parent % Second # 0 THEN Errs(<<"parent", "s_precision">>) ELSE {})
           \cup (IF parent <= drain THEN Errs(<<"parent", "not_after_drain">>) ELSE {})
           \cup (IF drain > drainTimeMax THEN Errs(<<"drain", "too_long">>) ELSE {})
           \cup (IF parent > parentShutdownTimeMax THEN Errs(<<"parent", "too_long">>) ELSE {})

\* Fault variant of ValidateRefreshDelay: the range check copied from
\* ValidateConnectTimeout with its bounds.
ValidateRefreshDelay_ConnectBounds(d) ==
    IF ValidateDuration(d) # {} THEN ValidateDuration(d)
    ELSE ValidateDurationRange(d, connectTimeoutMin, connectTimeoutMax)

ValidateRefreshDelay(d) ==
    IF ValidateDuration(d) # {} THEN ValidateDuration(d)
    ELSE ValidateDurationRange(d, discoveryRefreshDelayMin, discoveryRefreshDelayMax)

ValidateConnectTimeout(d) ==
    IF ValidateDuration(d) # {} THEN ValidateDuration(d)
    ELSE ValidateDurationRange(d, connectTimeoutMin, connectTimeoutMax)

-----------------------------------------------------------------------------
(***************************************************************************)
(* ValidateProxyMeshConfig.  Optional addresses are checked when set, the *)
(* discovery address is mandatory; every check appends.  AuthPolicy 0 and *)
(* 1 are NONE and MUTUAL_TLS.                                              *)
(***************************************************************************)
OptionalAddress(field, a) ==
    IF a = EmptyAddress THEN {} ELSE Prefix(field, ValidateProxyAddress(a))

ValidateProxyMeshConfig(m) ==
       OptionalAddress("egress", m.egressProxyAddress)
  \cup (IF m.discoveryAddress = EmptyAddress THEN Errs(<<"discovery", "unset">>)
        ELSE Prefix("discovery", ValidateProxyAddress(m.discoveryAddress)))
  \cup OptionalAddress("mixer", m.mixerAddress)
  \cup OptionalAddress("statsd", m.statsdUdpAddress)
  \cup Prefix("listen_port", ValidatePort(m.proxyListenPort))
  \cup Prefix("admin_port", ValidatePort(m.proxyAdminPort))
  \cup (IF m.istioServiceCluster = "" THEN Errs(<<"cluster", "unset">>) ELSE {})
  \cup Prefix("parent_and_drain", ValidateParentAndDrain(m.drainDuration, m.parentShutdownDuration))
  \cup Prefix("refresh", ValidateRefreshDelay(m.discoveryRefreshDelay))
  \cup Prefix("connect", ValidateConnectTimeout(m.connectTimeout))
  \cup (IF m.authCertsPath = "" THEN Errs(<<"certs", "unset">>) ELSE {})
  \cup (IF m.authPolicy \notin {0, 1} THEN Errs(<<"auth", "unrecognized">>) ELSE {})

-----------------------------------------------------------------------------
(***************************************************************************)
(* Route rules.  Tags are a set of entries, each abstracted to whether    *)
(* its key and its value match the tag regexp.  A destination weight is   *)
(* [destination, tags, weight]; the route list is Nil (unset) or a        *)
(* sequence of them.  In ValidateRouteRule the first tag of an error      *)
(* names the field or sub-message whose validator appended it.            *)
(***************************************************************************)
ValidateTags(t) ==
       { <<"tag_key", e.id>> : e \in { e \in t : ~e.keyOk } }
  \cup { <<"tag_value", e.id>> : e \in { e \in t : ~e.valueOk } }

ValidatePercent(val) ==
    IF val < 0 \/ val > 100 THEN Errs(<<"percent_range">>) ELSE {}

ValidateDestinationWeight(dw) ==
       (IF dw.destination # EmptyStr THEN ValidateFQDN(dw.destination) ELSE {})
  \cup ValidateTags(dw.tags)
  \cup Prefix("weight", ValidatePercent(dw.weight))

RouteWeightSum(routes) == SumFunction([i \in DOMAIN routes |-> routes[i].weight])

\* Fault variant of ValidateWeights: the single-route exemption is missing.
ValidateWeights_NoImplicit(routes, defaultDestination) ==
    IF RouteWeightSum(routes) # 100 THEN Errs(<<"weights_total">>) ELSE {}

\* ValidateWeights: a lone route of weight 0 stands for 100 (cfg.proto).
ValidateWeights(routes, defaultDestination) ==
    IF Len(routes) = 1 /\ RouteWeightSum(routes) = 0 THEN {}
    ELSE IF RouteWeightSum(routes) # 100 THEN Errs(<<"weights_total">>)
    ELSE {}

(***************************************************************************)
(* The sub-messages of a route rule.  A oneof is a record with a kind     *)
(* (Nil when unset) and the fields of its choices; a Get accessor of a    *)
(* choice that is not the one set returns nil.  Float percentages keep    *)
(* their inclusive bounds on integer values.                              *)
(***************************************************************************)
\* The Get accessor of a oneof field: its value if that choice is set.
Choice(msg, kind, value) == IF msg.kind = kind THEN value ELSE Nil

ValidateFloatPercent(val) ==
    IF val < 0 \/ val > 100 THEN Errs(<<"percent_range">>) ELSE {}

ValidateHTTPTimeout(timeout) ==
    IF timeout.kind = "simple"
    THEN Prefix("httpTimeout", ValidateDuration(timeout.timeout))
    ELSE {}

ValidateHTTPRetries(retry) ==
    IF retry.kind = "simple"
    THEN    (IF retry.attempts < 0 THEN Errs(<<"attempts_range">>) ELSE {})
       \cup Prefix("perTryTimeout", ValidateDuration(retry.perTryTimeout))
    ELSE {}

\* ValidateDelay: GetFixedDelay() is nil for an exponential delay.
ValidateDelay(delay) ==
       Prefix("percent", ValidateFloatPercent(delay.percent))
  \cup Prefix("fixedDelay", ValidateDuration(Choice(delay, "fixed", delay.duration)))
  \cup (IF delay.kind = "exponential"
        THEN Prefix("exponentialDelay", ValidateDuration(delay.duration))
             \cup Errs(<<"exponential_unsupported">>)
        ELSE {})

ValidateAbortHTTPStatus(status) ==
    IF status < 0 \/ status > 600 THEN Errs(<<"abort_status">>) ELSE {}

ValidateAbort(abort) ==
       Prefix("percent", ValidateFloatPercent(abort.percent))
  \cup CASE abort.kind = "grpcStatus" -> Errs(<<"grpc_unsupported">>)
          [] abort.kind = "httpStatus" -> ValidateAbortHTTPStatus(abort.status)
          [] OTHER                     -> {}

ValidateHTTPFault(fault) ==
       (IF fault.delay # Nil THEN ValidateDelay(fault.delay) ELSE {})
  \cup (IF fault.abort # Nil THEN ValidateAbort(fault.abort) ELSE {})

ValidateTerminate(terminate) ==
    Prefix("terminate_percent", ValidateFloatPercent(terminate.percent))

\* ValidateThrottle: GetThrottleAfterPeriod() is nil unless the throttle
\* is after a period, and GetThrottleAfterBytes() is 0 unless after bytes.
ValidateThrottle(throttle) ==
       Prefix("throttle_percent", ValidateFloatPercent(throttle.percent))
  \cup (IF throttle.downstreamLimitBps < 0 THEN Errs(<<"downstream_limit">>) ELSE {})
  \cup (IF throttle.upstreamLimitBps < 0 THEN Errs(<<"upstream_limit">>) ELSE {})
  \cup (IF ValidateDuration(Choice(throttle, "period", throttle.period)) # {}
        THEN Errs(<<"throttle_after_period">>) ELSE {})
  \cup (IF throttle.kind = "bytes" /\ throttle.bytes < 0
        THEN Errs(<<"throttle_after_bytes">>) ELSE {})

ValidateL4Fault(fault) ==
       (IF fault.terminate # Nil
        THEN ValidateTerminate(fault.terminate) \cup Errs(<<"terminate_unsupported">>)
        ELSE {})
  \cup (IF fault.throttle # Nil THEN ValidateThrottle(fault.throttle) ELSE {})

-----------------------------------------------------------------------------
(***************************************************************************)
(* Services and service instances.  A service is its hostname and its     *)
(* ports in declaration order, each [name, port, protocol]; an instance   *)
(* is its service (Nil when missing), tags, endpoint port and the service *)
(* port it serves (Nil when missing).  The first tag of an error names    *)
(* the field its message is about.                                       *)
(***************************************************************************)
\* Fault variant of Service.Validate: an unnamed port is refused even alone.
ServiceValidate_UnnamedRefused(svc) ==
       (IF StrLen(svc.hostname) = 0 THEN Errs(<<"hostname", "empty">>) ELSE {})
  \cup { <<"hostname", "part", i>> : i \in { i \in DOMAIN svc.hostname : ~IsDNS1123Label(<<svc.hostname[i]>>) } }
  \cup (IF svc.ports = <<>> THEN Errs(<<"ports", "none">>) ELSE {})
  \cup UNION { LET port == svc.ports[i] IN
                   (IF port.name = EmptyStr
                    THEN IF Len(svc.ports) >= 1 THEN Errs(<<"port_name", "empty">>) ELSE {}
                    ELSE IF ~IsDNS1123Label(port.name) THEN Errs(<<"port_name", "invalid", port.name>>) ELSE {})
              \cup Prefix("port_value", ValidatePort(port.port))
              : i \in DOMAIN svc.ports }

ServiceValidate(svc) ==
       (IF StrLen(svc.hostname) = 0 THEN Errs(<<"hostname", "empty">>) ELSE {})
  \cup { <<"hostname", "part", i>> : i \in { i \in DOMAIN svc.hostname : ~IsDNS1123Label(<<svc.hostname[i]>>) } }
  \cup (IF svc.ports = <<>> THEN Errs(<<"ports", "none">>) ELSE {})
  \cup UNION { LET port == svc.ports[i] IN
                   (IF port.name = EmptyStr
                    THEN IF Len(svc.ports) > 1 THEN Errs(<<"port_name", "empty">>) ELSE {}
                    ELSE IF ~IsDNS1123Label(port.name) THEN Errs(<<"port_name", "invalid", port.name>>) ELSE {})
              \cup Prefix("port_value", ValidatePort(port.port))
              : i \in DOMAIN svc.ports }

\* PortList.Get: the first port of that name.
PortsGet(ports, name) ==
    IF \E i \in DOMAIN ports : ports[i].name = name
    THEN [found |-> TRUE,
          port |-> ports[CHOOSE i \in DOMAIN ports :
                              ports[i].name = name /\ \A j \in 1..i-1 : ports[j].name # name]]
    ELSE [found |-> FALSE]

ServiceInstanceValidate(inst) ==
       (IF inst.service = Nil THEN Errs(<<"service", "missing">>)
        ELSE Prefix("service", ServiceValidate(inst.service)))
  \cup Prefix("tags", ValidateTags(inst.tags))
  \cup Prefix("endpoint_port", ValidatePort(inst.endpointPort))
  \cup (IF inst.servicePort = Nil THEN Errs(<<"service_port", "missing">>)
        ELSE IF inst.service = Nil THEN {}
        ELSE LET expected == PortsGet(inst.service.ports, inst.servicePort.name)
             IN  IF ~expected.found THEN Errs(<<"service_port", "undeclared">>)
                 ELSE    (IF expected.port.port # inst.servicePort.port
                          THEN Errs(<<"service_port", "value">>) ELSE {})
                    \cup (IF expected.port.protocol # inst.servicePort.protocol
                          THEN Errs(<<"service_port", "protocol">>) ELSE {}))

-----------------------------------------------------------------------------
(***************************************************************************)
(* Match conditions.  A subnet is its "/"-separated parts (strings.Split  *)
(* on "/"), each a string; Atoi of a string with a dot fails.  An HTTP    *)
(* header name is its lower-cased form and whether it already is lower    *)
(* case; a StringMatch is its match type (Nil when unset) and whether the *)
(* matched string is empty.  The headers are a Go map: a function.        *)
(***************************************************************************)
Atoi(s) == IF Len(s) = 1 THEN s[1].num ELSE NaN

\* Fault variant of ValidateCIDRBlock: off by one at the upper bound, so a
\* single-host block /32 is refused.
ValidateCIDRBlock_Refuses32(cidr) ==
    IF Atoi(cidr) = NaN \/ Atoi(cidr) <= 0 \/ Atoi(cidr) >= 32
    THEN Errs(<<"cidr_block">>) ELSE {}

ValidateCIDRBlock(cidr) ==
    IF Atoi(cidr) = NaN \/ Atoi(cidr) <= 0 \/ Atoi(cidr) > 32
    THEN Errs(<<"cidr_block">>) ELSE {}

\* ValidateIPv4Subnet (ValidateSubnet): more than one "/" returns at once;
\* otherwise the block, if any, and the address are both checked.
ValidateIPv4Subnet(parts) ==
    IF Len(parts) > 2 THEN Errs(<<"cidr_notation">>)
    ELSE    (IF Len(parts) = 2 THEN ValidateCIDRBlock(parts[2]) ELSE {})
       \cup ValidateIPv4Address(parts[1])

ValidateL4MatchAttributes(ma) ==
    UNION { ValidateIPv4Subnet(sn) : sn \in ToSet(ma.sourceSubnet) \cup ToSet(ma.destinationSubnet) }

HeaderURI == "uri"

ValidateHTTPHeaderName(name) == IF ~name.lower THEN Errs(<<"not_lower">>) ELSE {}

ValidateStringMatch(m) == IF m.type = Nil THEN Errs(<<"unrecognized">>) ELSE {}

\* One iteration of the header loop of ValidateMatchCondition: each check
\* prefixes its error with "header name %q invalid" or "header %q value
\* invalid" (the role, then the quoted name); the uri header needs a
\* non-empty value.
HeaderErrors(name, value) ==
       Prefix("header_name", Prefix(name, ValidateHTTPHeaderName(name)))
  \cup Prefix("header_value", Prefix(name, ValidateStringMatch(value)))
  \cup (IF name.lc = HeaderURI /\ name.lower /\ value.type # Nil /\ value.empty
        THEN Errs(<<"uri_empty", value.type>>) ELSE {})

ValidateMatchCondition(mc) ==
       (IF mc.source # EmptyStr THEN ValidateFQDN(mc.source) ELSE {})
  \cup ValidateTags(mc.sourceTags)
  \cup (IF mc.tcp # Nil THEN ValidateL4MatchAttributes(mc.tcp) ELSE {})
  \cup (IF mc.udp # Nil
        THEN ValidateL4MatchAttributes(mc.udp) \cup Errs(<<"udp_unsupported">>)
        ELSE {})
  \cup UNION { HeaderErrors(n, mc.httpHeaders[n]) : n \in DOMAIN mc.httpHeaders }

-----------------------------------------------------------------------------
(* ValidateRouteRule.                                                      *)

RouteLen(r) == IF r.route = Nil THEN 0 ELSE Len(r.route)

NoTarget(x) == ~x.uri /\ ~x.authority

ValidateRouteRule(r) ==
       (IF r.name = EmptyStr THEN Errs(<<"name", "missing">>) ELSE {})
  \cup (IF ~IsDNS1123Label(r.name) THEN Errs(<<"name", "not_label">>) ELSE {})
  \cup (IF r.destination = EmptyStr THEN Errs(<<"destination", "missing">>) ELSE {})
  \cup Prefix("destination", ValidateFQDN(r.destination))
  \cup (IF r.match # Nil THEN Prefix("match", ValidateMatchCondition(r.match)) ELSE {})
  \cup (IF r.rewrite # Nil /\ NoTarget(r.rewrite) THEN Errs(<<"rewrite", "no_target">>) ELSE {})
  \cup (IF r.redirect # Nil
        THEN    (IF RouteLen(r) > 0 THEN Errs(<<"redirect", "with_route">>) ELSE {})
           \cup (IF r.httpFault # Nil THEN Errs(<<"redirect", "with_fault">>) ELSE {})
           \cup (IF NoTarget(r.redirect) THEN Errs(<<"redirect", "no_target">>) ELSE {})
        ELSE {})
  \cup (IF r.redirect # Nil /\ r.rewrite # Nil THEN Errs(<<"redirect", "with_rewrite">>) ELSE {})
  \cup (IF r.route # Nil
        THEN Prefix("route", UNION { ValidateDestinationWeight(r.route[i]) : i \in DOMAIN r.route }
                             \cup ValidateWeights(r.route, r.destination))
        ELSE {})
  \cup (IF r.httpReqTimeout # Nil THEN Prefix("timeout", ValidateHTTPTimeout(r.httpReqTimeout)) ELSE {})
  \cup (IF r.httpReqRetries # Nil THEN Prefix("retries", ValidateHTTPRetries(r.httpReqRetries)) ELSE {})
  \cup (IF r.httpFault # Nil THEN Prefix("http_fault", ValidateHTTPFault(r.httpFault)) ELSE {})
  \cup (IF r.l4Fault # Nil
        THEN Prefix("l4_fault_body", ValidateL4Fault(r.l4Fault))
             \cup Errs(<<"l4_fault", "not_implemented">>)
        ELSE {})

-----------------------------------------------------------------------------
(***************************************************************************)
(* Ingress rules and destination policies.  Their validators start with   *)
(* a cast of the proto message; ValidateConfig calls them only after the  *)
(* message name matched the kind's, so the cast cannot fail there.  As in *)
(* ValidateRouteRule, the first tag of an error names its field.  A       *)
(* circuit breaker is a oneof whose simple choice carries the limits.     *)
(***************************************************************************)
ValidateIngressRule(v) ==
       (IF v.name = EmptyStr THEN Errs(<<"name", "missing">>) ELSE {})
  \cup (IF ~IsDNS1123Label(v.name) THEN Errs(<<"name", "not_label">>) ELSE {})
  \cup (IF v.destination = EmptyStr THEN Errs(<<"destination", "missing">>) ELSE {})
  \cup Prefix("destination", ValidateFQDN(v.destination))

\* The policy is a name; it is not validated.
ValidateLoadBalancing(lb) == {}

\* The counters of a simple circuit breaker that must not be negative.
CircuitBreakerCounts ==
    {"maxConnections", "httpMaxPendingRequests", "httpMaxRequests",
     "httpConsecutiveErrors", "httpMaxRequestsPerConnection"}

ValidateCircuitBreaker(cb) ==
    IF cb.kind = "simple"
    THEN    { <<"circuit_breaker", f>> : f \in { f \in CircuitBreakerCounts : cb[f] < 0 } }
       \cup (IF ValidateDuration(cb.sleepWindow) # {}
             THEN Errs(<<"circuit_breaker", "sleepWindow">>) ELSE {})
       \cup (IF ValidateDuration(cb.httpDetectionInterval) # {}
             THEN Errs(<<"circuit_breaker", "httpDetectionInterval">>) ELSE {})
       \cup Prefix("circuit_breaker", ValidatePercent(cb.httpMaxEjectionPercent))
    ELSE {}

\* One iteration of the policy loop of ValidateDestinationPolicy.
PolicyErrors(policy) ==
       Prefix("tags", ValidateTags(policy.tags))
  \cup (IF policy.loadBalancing # Nil THEN ValidateLoadBalancing(policy.loadBalancing) ELSE {})
  \cup (IF policy.circuitBreaker # Nil THEN ValidateCircuitBreaker(policy.circuitBreaker) ELSE {})

ValidateDestinationPolicy(v) ==
       (IF v.destination = EmptyStr THEN Errs(<<"destination", "missing">>)
        ELSE Prefix("destination", ValidateFQDN(v.destination)))
  \cup UNION { PolicyErrors(v.policy[i]) : i \in DOMAIN v.policy }

(***************************************************************************)
(* ValidateConfig: a nil object, a type the descriptor does not declare, *)
(* an object that is not a proto message, and a message name other than  *)
(* the kind's each return one error in that order; otherwise the kind's  *)
(* validator decides.  An object is [message, value], with message        *)
(* NotProto for a value that is not a proto message.                     *)
(***************************************************************************)
RouteRuleMessage         == "istio.proxy.v1.config.RouteRule"
IngressRuleMessage       == "istio.proxy.v1.config.IngressRule"
DestinationPolicyMessage == "istio.proxy.v1.config.DestinationPolicy"
NotProto                 == "not a proto message"

\* ConfigDescriptor.GetByType: the first kind of that type.
GetByType(descriptor, typ) ==
    descriptor[CHOOSE i \in DOMAIN descriptor :
                   descriptor[i].type = typ /\ \A j \in 1..i-1 : descriptor[j].type # typ]

\* ProtoSchema.Validate of the registry's kinds, by message name.
KindValidate(messageName, v) ==
    CASE messageName = RouteRuleMessage         -> ValidateRouteRule(v)
      [] messageName = IngressRuleMessage       -> ValidateIngressRule(v)
      [] messageName = DestinationPolicyMessage -> ValidateDestinationPolicy(v)

\* Fault variant of ValidateConfig: the message-name check is missing.
ValidateConfig_NoSchemaCheck(descriptor, typ, obj) ==
    IF obj = Nil THEN Errs(<<"payload", "nil">>)
    ELSE IF \A i \in DOMAIN descriptor : descriptor[i].type # typ
         THEN Errs(<<"type", "undeclared">>)
    ELSE IF obj.message = NotProto THEN Errs(<<"schema", "not_proto">>)
    ELSE KindValidate(obj.message, obj.value)

ValidateConfig(descriptor, typ, obj) ==
    IF obj = Nil THEN Errs(<<"payload", "nil">>)
    ELSE IF \A i \in DOMAIN descriptor : descriptor[i].type # typ
         THEN Errs(<<"type", "undeclared">>)
    ELSE IF obj.message = NotProto THEN Errs(<<"schema", "not_proto">>)
    ELSE IF obj.message # GetByType(descriptor, typ).messageName
         THEN Errs(<<"schema", "mismatched">>)
    ELSE KindValidate(obj.message, obj.value)

-----------------------------------------------------------------------------
(***************************************************************************)
(* ConfigDescriptor.Validate: one pass over the kinds with two maps of    *)
(* the types and message names seen so far; every check appends.  A kind *)
(* is [type, plural, messageName, hasKey]; errors carry the value their   *)
(* message quotes (the plural error quotes the type, as the code does).   *)
(***************************************************************************)
DescriptorInit == [errs |-> {}, types |-> {}, messages |-> {}]

KindErrors(acc, v) ==
       (IF ~v.hasKey THEN Errs(<<"key", v.type>>) ELSE {})
  \cup (IF ~IsDNS1123Label(v.type) THEN Errs(<<"type", v.type>>) ELSE {})
  \cup (IF ~IsDNS1123Label(v.plural) THEN Errs(<<"plural", v.type>>) ELSE {})
  \cup (IF v.messageName \notin ProtoMessages THEN Errs(<<"message", v.messageName>>) ELSE {})
  \cup (IF v.type \in acc.types THEN Errs(<<"dup_type", v.type>>) ELSE {})
  \cup (IF v.messageName \in acc.messages THEN Errs(<<"dup_message", v.messageName>>) ELSE {})

\* Fault variant of DescriptorStep: types[v.Type] = true is missing.
DescriptorStep_NoTypeRecord(acc, v) ==
    [errs |-> acc.errs \cup KindErrors(acc, v), types |-> acc.types,
     messages |-> acc.messages \cup {v.messageName}]

DescriptorStep(acc, v) ==
    [errs |-> acc.errs \cup KindErrors(acc, v), types |-> acc.types \cup {v.type},
     messages |-> acc.messages \cup {v.messageName}]

ValidateDescriptor(descriptor) == FoldLeft(DescriptorStep, DescriptorInit, descriptor).errs

-----------------------------------------------------------------------------
(***************************************************************************)
(* Reference rules (spec section 4.1), one verdict per field: a host must *)
(* be an FQDN of at most 255 characters with DNS-label parts (or, for a   *)
(* proxy address, an IPv4 address), a port lies in 1..65535, a duration  *)
(* is representable, at least 1ms and whole milliseconds, plus the range  *)
(* each duration field is documented with; the discovery refresh delay    *)
(* and the connect timeout lie strictly between their bounds, as the      *)
(* error of ValidateDurationRange words it.                               *)
(***************************************************************************)
FQDNOk(s) == StrLen(s) \in 1..255 /\ \A i \in DOMAIN s : IsDNS1123Label(<<s[i]>>)

IPv4Ok(s) == Len(s) = 4 /\ \A i \in DOMAIN s : s[i].num \in 0..255

AddressOk(a) == a.colon /\ a.port \in 1..65535 /\ (FQDNOk(a.host) \/ IPv4Ok(a.host))

WellFormed(d) == d # Nil /\ d >= Millisecond /\ d % Millisecond = 0

\* A range as the error of ValidateDurationRange states it: ">min and <max".
StrictlyWithin(d, min, max) == min < d /\ d < max

MeshRules(m) ==
    [egress      |-> m.egressProxyAddress = EmptyAddress \/ AddressOk(m.egressProxyAddress),
     discovery   |-> m.discoveryAddress # EmptyAddress /\ AddressOk(m.discoveryAddress),
     mixer       |-> m.mixerAddress = EmptyAddress \/ AddressOk(m.mixerAddress),
     statsd      |-> m.statsdUdpAddress = EmptyAddress \/ AddressOk(m.statsdUdpAddress),
     listen_port |-> m.proxyListenPort \in 1..65535,
     admin_port  |-> m.proxyAdminPort \in 1..65535,
     cluster     |-> m.istioServiceCluster # "",
     drain       |-> /\ WellFormed(m.drainDuration)
                     /\ m.drainDuration % Second = 0
                     /\ m.drainDuration <= drainTimeMax,
     parent      |-> /\ WellFormed(m.parentShutdownDuration)
                     /\ m.parentShutdownDuration % Second = 0
                     /\ m.parentShutdownDuration <= parentShutdownTimeMax
                     /\ WellFormed(m.drainDuration) => m.parentShutdownDuration > m.drainDuration,
     refresh     |-> WellFormed(m.discoveryRefreshDelay)
                     /\ StrictlyWithin(m.discoveryRefreshDelay, discoveryRefreshDelayMin, discoveryRefreshDelayMax),
     connect     |-> WellFormed(m.connectTimeout)
                     /\ StrictlyWithin(m.connectTimeout, connectTimeoutMin, connectTimeoutMax),
     certs       |-> m.authCertsPath # "",
     auth        |-> m.authPolicy \in {0, 1}]

InvalidMeshFields(m) == { f \in DOMAIN MeshRules(m) : ~MeshRules(m)[f] }

\* The field an error of ValidateProxyMeshConfig names.
MeshField(e) == IF e[1] = "parent_and_drain" THEN e[2] ELSE e[1]

(***************************************************************************)
(* Reference for a match condition: an optional FQDN source, well-formed  *)
(* tags, subnets written a.b.c.d or a.b.c.d/n with a prefix length of 1   *)
(* to 32, no UDP match (not supported), and lower-case header names with  *)
(* a recognized match type, the uri header's value not empty.             *)
(***************************************************************************)
SubnetOk(sn) ==
    /\ IPv4Ok(sn[1])
    /\ Len(sn) = 1 \/ (Len(sn) = 2 /\ Atoi(sn[2]) \in 1..32)

Subnets(ma) == IF ma = Nil THEN {} ELSE ToSet(ma.sourceSubnet) \cup ToSet(ma.destinationSubnet)

MatchRules(mc) ==
    [source  |-> mc.source = EmptyStr \/ FQDNOk(mc.source),
     tags    |-> \A e \in mc.sourceTags : e.keyOk /\ e.valueOk,
     subnets |-> \A sn \in Subnets(mc.tcp) \cup Subnets(mc.udp) : SubnetOk(sn),
     udp     |-> mc.udp = Nil,
     headers |-> \A n \in DOMAIN mc.httpHeaders :
                    /\ n.lower
                    /\ mc.httpHeaders[n].type # Nil
                    /\ n.lc = HeaderURI => ~mc.httpHeaders[n].empty]

InvalidMatchFields(mc) == { f \in DOMAIN MatchRules(mc) : ~MatchRules(mc)[f] }

\* The field an error of ValidateMatchCondition is about, from its message.
MatchField(e) ==
    CASE e[1] \in {"fqdn_too_long", "fqdn_empty", "fqdn_label"}      -> "source"
      [] e[1] \in {"tag_key", "tag_value"}                           -> "tags"
      [] e[1] \in {"cidr_notation", "cidr_block", "ipv4_address"}    -> "subnets"
      [] e[1] = "udp_unsupported"                                   -> "udp"
      [] OTHER                                                      -> "headers"
(***************************************************************************)
(* Reference for the sub-messages of a route rule: durations well formed, *)
(* retry attempts not negative, percentages in 0..100, an HTTP status in  *)
(* 0..600.  Where the code gives the only word it is followed: a delay    *)
(* must be a fixed delay (an exponential one is not supported), a gRPC    *)
(* abort and an L4 terminate are not supported, and a throttle must name  *)
(* the period after which it starts.                                      *)
(***************************************************************************)
TimeoutOk(t) == t.kind = "simple" => WellFormed(t.timeout)

RetriesOk(r) == r.kind = "simple" => r.attempts >= 0 /\ WellFormed(r.perTryTimeout)

DelayOk(d) == d.percent \in 0..100 /\ d.kind = "fixed" /\ WellFormed(d.duration)

AbortOk(a) ==
    /\ a.percent \in 0..100
    /\ a.kind # "grpcStatus"
    /\ a.kind = "httpStatus" => a.status \in 0..600

HTTPFaultOk(f) == (f.delay = Nil \/ DelayOk(f.delay)) /\ (f.abort = Nil \/ AbortOk(f.abort))

ThrottleOk(t) ==
    /\ t.percent \in 0..100
    /\ t.downstreamLimitBps >= 0 /\ t.upstreamLimitBps >= 0
    /\ t.kind = "period" /\ WellFormed(t.period)

L4FaultOk(f) == f.terminate = Nil /\ (f.throttle = Nil \/ ThrottleOk(f.throttle))

(***************************************************************************)
(* Reference rules for a route rule (spec section 4.1 and its scenario in *)
(* section 8): a name that is a DNS label, an FQDN destination, a route   *)
(* list whose entries are well formed and whose weights total exactly 100 *)
(* unless it has one route of implicit weight, a redirect that excludes   *)
(* a route, a fault and a rewrite, and L4 faults not supported.          *)
(***************************************************************************)
RouteRules(r) ==
    [name        |-> IsDNS1123Label(r.name),
     destination |-> FQDNOk(r.destination),
     match       |-> r.match = Nil \/ InvalidMatchFields(r.match) = {},
     rewrite     |-> r.rewrite = Nil \/ ~NoTarget(r.rewrite),
     redirect    |-> r.redirect = Nil \/ (/\ ~NoTarget(r.redirect)
                                        /\ RouteLen(r) = 0
                                        /\ r.httpFault = Nil
                                        /\ r.rewrite = Nil),
     route       |-> r.route = Nil \/
                     (/\ \A i \in DOMAIN r.route :
                            /\ r.route[i].destination = EmptyStr \/ FQDNOk(r.route[i].destination)
                            /\ \A e \in r.route[i].tags : e.keyOk /\ e.valueOk
                            /\ r.route[i].weight \in 0..100
                      /\ \/ RouteWeightSum(r.route) = 100
                         \/ Len(r.route) = 1 /\ r.route[1].weight = 0),
     timeout     |-> r.httpReqTimeout = Nil \/ TimeoutOk(r.httpReqTimeout),
     retries     |-> r.httpReqRetries = Nil \/ RetriesOk(r.httpReqRetries),
     http_fault  |-> r.httpFault = Nil \/ HTTPFaultOk(r.httpFault),
     l4_fault    |-> r.l4Fault = Nil,
     l4_fault_body |-> r.l4Fault = Nil \/ L4FaultOk(r.l4Fault)]

InvalidRouteFields(r) == { f \in DOMAIN RouteRules(r) : ~RouteRules(r)[f] }

(***************************************************************************)
(* Reference for the registry (spec section 4.1): every kind has a key    *)
(* function, DNS-label type and plural names and a known message; type    *)
(* names and message names are unique.  One violation per offending      *)
(* value.                                                                 *)
(***************************************************************************)
DescriptorViolations(d) ==
    LET kinds == ToSet(d)
        Repeated(f(_)) == { f(d[i]) : i \in { i \in DOMAIN d : \E j \in DOMAIN d : j # i /\ f(d[j]) = f(d[i]) } }
    IN     { <<"key", k.type>> : k \in { k \in kinds : ~k.hasKey } }
      \cup { <<"type", k.type>> : k \in { k \in kinds : ~IsDNS1123Label(k.type) } }
      \cup { <<"plural", k.type>> : k \in { k \in kinds : ~IsDNS1123Label(k.plural) } }
      \cup { <<"message", k.messageName>> : k \in { k \in kinds : k.messageName \notin ProtoMessages } }
      \cup { <<"dup_type", t>> : t \in Repeated(LAMBDA k : k.type) }
      \cup { <<"dup_message", m>> : m \in Repeated(LAMBDA k : k.messageName) }


(***************************************************************************)
(* Reference for ingress rules and destination policies: a DNS-label name *)
(* and an FQDN destination; well-formed tags; a simple circuit breaker   *)
(* with no negative limit, well-formed durations and an ejection          *)
(* percentage in 0..100.                                                  *)
(***************************************************************************)
IngressRuleRules(v) == [name |-> IsDNS1123Label(v.name), destination |-> FQDNOk(v.destination)]

CircuitBreakerOk(cb) ==
    cb.kind = "simple" =>
        /\ \A f \in CircuitBreakerCounts : cb[f] >= 0
        /\ WellFormed(cb.sleepWindow) /\ WellFormed(cb.httpDetectionInterval)
        /\ cb.httpMaxEjectionPercent \in 0..100

PolicyRules(v) ==
    [destination     |-> FQDNOk(v.destination),
     tags            |-> \A i \in DOMAIN v.policy : \A e \in v.policy[i].tags : e.keyOk /\ e.valueOk,
     circuit_breaker |-> \A i \in DOMAIN v.policy :
                            v.policy[i].circuitBreaker = Nil \/ CircuitBreakerOk(v.policy[i].circuitBreaker)]

InvalidKindFields(messageName, v) ==
    CASE messageName = RouteRuleMessage         -> InvalidRouteFields(v)
      [] messageName = IngressRuleMessage       ->
            { f \in DOMAIN IngressRuleRules(v) : ~IngressRuleRules(v)[f] }
      [] messageName = DestinationPolicyMessage ->
            { f \in DOMAIN PolicyRules(v) : ~PolicyRules(v)[f] }

(***************************************************************************)
(* Reference for ValidateConfig (spec section 4.1): a nil payload, an     *)
(* unknown type and a schema mismatch are errors of the request; the      *)
(* spec does not order them.                                              *)
(***************************************************************************)
EnvelopeViolations(descriptor, typ, obj) ==
    LET declared == \E i \in DOMAIN descriptor : descriptor[i].type = typ
    IN     (IF obj = Nil THEN {"payload"} ELSE {})
      \cup (IF ~declared THEN {"type"} ELSE {})
      \cup (IF obj # Nil /\ declared /\ obj.message # GetByType(descriptor, typ).messageName
            THEN {"schema"} ELSE {})

(***************************************************************************)
(* Reference for services (spec section 4.1): a hostname of DNS labels   *)
(* and at most 255 characters,                                            *)
(* at least one port, port numbers in 1..65535, and port names that are   *)
(* DNS labels, where only the single port of a service may be unnamed.    *)
(* An instance needs a valid service, valid tags, an endpoint port in     *)
(* range and a service port the service declares, with the same number  *)
(* and protocol; a port is looked up by its name (PortList.Get).          *)
(***************************************************************************)
ServiceRules(svc) ==
    [hostname   |-> StrLen(svc.hostname) \in 1..255 /\ \A i \in DOMAIN svc.hostname : IsDNS1123Label(<<svc.hostname[i]>>),
     ports      |-> svc.ports # <<>>,
     port_name  |-> \A i \in DOMAIN svc.ports :
                      IF svc.ports[i].name = EmptyStr THEN Len(svc.ports) = 1
                      ELSE IsDNS1123Label(svc.ports[i].name),
     port_value |-> \A i \in DOMAIN svc.ports : svc.ports[i].port \in 1..65535]

InvalidServiceFields(svc) == { f \in DOMAIN ServiceRules(svc) : ~ServiceRules(svc)[f] }

InstanceRules(inst) ==
    [service       |-> inst.service # Nil /\ InvalidServiceFields(inst.service) = {},
     tags          |-> \A e \in inst.tags : e.keyOk /\ e.valueOk,
     endpoint_port |-> inst.endpointPort \in 1..65535,
     service_port  |-> /\ inst.servicePort # Nil
                       /\ inst.service # Nil =>
                            LET declared == PortsGet(inst.service.ports, inst.servicePort.name)
                            IN  /\ declared.found
                                /\ declared.port.port = inst.servicePort.port
                                /\ declared.port.protocol = inst.servicePort.protocol]

InvalidInstanceFields(inst) == { f \in DOMAIN InstanceRules(inst) : ~InstanceRules(inst)[f] }
=============================================================================
