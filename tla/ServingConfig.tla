--------------------------- MODULE ServingConfig ---------------------------
(***************************************************************************)
(* From a WAF to what Envoy is told: discovery of the data-plane provider   *)
(* (internal/dataplane/config/discover.go), the portable configuration      *)
(* (config/build.go), its ECDS resources (ecds/wasm.go) and the filter slot *)
(* of each provider (extensionserver, slot/istio, slot/cilium, xdsutil).    *)
(*                                                                          *)
(* A resource name "kubewaf/ns/waf[/challenge]" is the tuple of its last    *)
(* parts; a SecLang directive is the set of its words; the name of a        *)
(* GatewayClass or of its controller is the set of the words it contains;   *)
(* wasm modules are told apart by their SHA-256, "" when not loaded.        *)
(***************************************************************************)
EXTENDS Naturals, Sequences, Functions, FiniteSetsExt

CONSTANTS
    Wafs,           \* the WAFs, all of one namespace
    Gateways,       \* Gateways: ns, words of the class name and of its controller
    Routes,         \* HTTPRoutes of the namespace: parents and backends
    InstalledAPIs,  \* the platforms whose CRDs are installed
    RuleLines,      \* the SecLang lines of every WAF's RuleSets
    Threshold,      \* DirectivesCompressThreshold, in lines
    OTelHost        \* whether --otel-service-host is set

HomeNs == "ns"
Providers == {"EnvoyGateway", "Istio", "Cilium"}
Modules == {"modsecurity", "challenge"}
DefaultECDSCluster == "kubewaf_ecds"
DefaultOTelCluster == "kubewaf_otel"

\* A WAF's spec: what the properties tell apart of every field.
PolicyTarget == [kind : {"Gateway", "HTTPRoute", "Service"}, name : STRING]
WAFSpec ==
    [type : {"", "Auto"} \cup Providers, service : STRING, cluster : STRING,
     targetRefs : Seq(PolicyTarget), parentRefs : Seq(PolicyTarget),
     challenge : {"off", "inline", "short", "ref", "managed"},
     telemetry : {"absent", "None", "Managed"}, redact : {"unset", "redact", "keep"},
     crsEnable : BOOLEAN,
     crs : SUBSET {"set", "paranoia", "threshold", "RemoveById", "RemoveByTag", "UpdateTargetById"},
     mode : {"", "Blocking", "DetectionOnly"}, ftw : BOOLEAN]

NamesOf(s, kind) ==
    LET t == SelectSeq(s, LAMBDA x : x.kind = kind) IN [i \in DOMAIN t |-> t[i].name]
Reversed(s) == [i \in DOMAIN s |-> s[Len(s) - i + 1]]
First(s) == IF s = <<>> THEN "" ELSE s[1]

-----------------------------------------------------------------------------
(* Provider discovery.                                                      *)

\* EffectivePolicyTargets: targetRef and targetRefs, in this order, before the
\* legacy parentRefs.
EffectivePolicyTargets(s) == IF s.targetRefs # <<>> THEN s.targetRefs ELSE s.parentRefs

NeedsProviderDiscovery(s) == s.type \in {"", "Auto"}

ProviderFromControllerName(c) ==
    IF "envoyproxy.io" \in c THEN "EnvoyGateway"
    ELSE IF c \cap {"istio.io", "istio/"} # {} THEN "Istio"
    ELSE IF "cilium" \in c THEN "Cilium" ELSE ""

providerFromGatewayClassName(n) ==
    IF "cilium" \in n THEN "Cilium"
    ELSE IF "istio" \in n THEN "Istio"
    ELSE IF n \cap {"eg", "envoy"} # {} THEN "EnvoyGateway" ELSE ""

\* The calls of a discovery that may fail: the Get of a target Gateway, the Get of its
\* class, the List of a platform's API and the List of HTTPRoutes.  No failure stops the
\* discovery: lost is the set of the calls that failed in it.
DiscoveryCalls(s) ==
    {"Gateway", "GatewayClass"} \X Range(NamesOf(EffectivePolicyTargets(s), "Gateway"))
    \cup {"List"} \X (InstalledAPIs \cup {"HTTPRoute"})

\* What the class of a Gateway of the WAF's namespace tells, "" if nothing: without its
\* class, or with one of an unknown controller, the class's name does.
GatewayTells(g, lost) ==
    LET p == IF <<"GatewayClass", g>> \in lost THEN ""
             ELSE ProviderFromControllerName(Gateways[g].controller) IN
    IF <<"Gateway", g>> \in lost \/ g \notin DOMAIN Gateways THEN ""
    ELSE IF Gateways[g].ns # HomeNs \/ Gateways[g].class = {} THEN ""
    ELSE IF p # "" THEN p ELSE providerFromGatewayClassName(Gateways[g].class)

\* The first target Gateway that tells a provider.
discoverFromTargetedGateways(s, lost) ==
    LET gws == NamesOf(EffectivePolicyTargets(s), "Gateway")
        at == {i \in DOMAIN gws : GatewayTells(gws[i], lost) # ""}
    IN IF at = {} THEN "" ELSE GatewayTells(gws[Min(at)], lost)

\* Any error of a platform's List counts as not installed.
discoverFromInstalledAPIs(lost) ==
    LET listed == {a \in InstalledAPIs : <<"List", a>> \notin lost} IN
    IF "EnvoyGateway" \in listed THEN "EnvoyGateway"
    ELSE IF "Istio" \in listed THEN "Istio"
    ELSE IF "Cilium" \in listed THEN "Cilium" ELSE ""

httpRouteParentsGateway(rt, gws) == Range(NamesOf(rt.parents, "Gateway")) \cap gws # {}
firstServiceBackend(rt) == First(NamesOf(rt.backends, "Service"))

discoverBackendServiceFromHTTPRoutes(s, lost) ==
    LET gws == Range(NamesOf(EffectivePolicyTargets(s), "Gateway"))
        rts == SelectSeq(Routes, LAMBDA rt : httpRouteParentsGateway(rt, gws)
                                             /\ firstServiceBackend(rt) # "")
    IN IF rts = <<>> \/ <<"List", "HTTPRoute">> \in lost THEN "" ELSE firstServiceBackend(rts[1])

fillCiliumService(s, p, lost) ==
    First(SelectSeq(<<s.service, First(NamesOf(EffectivePolicyTargets(s), "Service")),
                      discoverBackendServiceFromHTTPRoutes(s, lost)>>,
                    LAMBDA n : p = "Cilium" /\ n # ""))

\* Target Gateways, then installed APIs, then DefaultProvider.
DiscoverProvider(s, lost) ==
    LET targeted == discoverFromTargetedGateways(s, lost)
        installed == discoverFromInstalledAPIs(lost)
        p == IF targeted # "" THEN targeted ELSE IF installed # "" THEN installed ELSE "EnvoyGateway"
    IN [provider |-> p, service |-> fillCiliumService(s, p, lost)]
NotDiscovered == [provider |-> "", service |-> ""]

\* The spec's own settings over the discovered ones over the defaults.
resolveProvider(w, s, found) ==
    [provider |-> IF ~NeedsProviderDiscovery(s) THEN s.type
                  ELSE IF found.provider # "" THEN found.provider ELSE "EnvoyGateway",
     cluster  |-> IF s.cluster # "" THEN s.cluster ELSE DefaultECDSCluster,
     service  |-> IF s.service # "" THEN s.service
                  ELSE IF found.service # "" THEN found.service ELSE w]

-----------------------------------------------------------------------------
(* The portable configuration.                                              *)

ExtensionName(w) == <<w>>
ChallengeExtensionName(w) == <<w, "challenge">>

\* spec.crs is unset when crs is {}; set and empty when it is {"set"}.
CRSSetupActions(crs) ==
    IF crs = {} THEN <<>>
    ELSE << {"SecAction", "crs_setup_version"} \cup (crs \cap {"paranoia", "threshold"}) >>

CRSExclusions(crs) ==
    LET ex == SelectSeq(<<"RemoveById", "RemoveByTag", "UpdateTargetById">>, LAMBDA x : x \in crs)
    IN [i \in DOMAIN ex |-> {ex[i]}]

secRuleEngineValue(s) == IF s.mode = "DetectionOnly" THEN "DetectionOnly" ELSE "On"
ftwProfileEnabled(s) == s.ftw

BuildDirectives(s, rules) ==
    << {"Include", "@kubewaf-defaults"}, {"SecRuleEngine", secRuleEngineValue(s)},
       {"SecDebugLogLevel"} >>
    \o (IF ftwProfileEnabled(s) THEN << {"Include", "@ftw-conf"} >> ELSE <<>>)
    \o (IF s.crsEnable
        THEN << {"Include", "@crs-setup-conf"} >> \o CRSSetupActions(s.crs)
             \o << {"Include", "@owasp_crs"} >> \o CRSExclusions(s.crs)
        ELSE CRSSetupActions(s.crs))
    \o rules
    \o (IF s.crsEnable THEN <<>> ELSE CRSExclusions(s.crs))

ShouldCompressDirectives(d) == Len(d) >= Threshold
attachDirectives(d) ==
    [encoding |-> IF ShouldCompressDirectives(d) THEN "gzip+base64" ELSE "plain", default |-> d]

\* Absent telemetry is left out, mode None carries nothing else, Managed carries the
\* spec's redaction, the operator's default, redacting, when it does not say.
buildTelemetryPluginJSON(s) ==
    IF s.telemetry = "absent" THEN <<>>
    ELSE IF s.telemetry # "Managed" THEN <<"None">>
    ELSE <<"Managed", IF s.redact = "unset" THEN "redact" ELSE s.redact>>

buildWAFPluginJSON(s, rules) ==
    [directives |-> attachDirectives(BuildDirectives(s, rules)), telemetry |-> buildTelemetryPluginJSON(s)]

ChallengeEnabled(s) == s.challenge # "off"

\* The HMAC the pipeline resolved, or the inline one; without either the plugin has
\* none (the build Envoy Gateway's policies go through).
challengeSecret(s, hmac) == IF hmac # "" THEN hmac ELSE IF s.challenge = "inline" THEN "inline" ELSE ""
buildChallengeFilter(w, s, hmac, loaded) ==
    [name |-> ChallengeExtensionName(w), sha |-> loaded["challenge"],
     plugin |-> [secret |-> challengeSecret(s, hmac)]]

wafFilter(w, s, rules, loaded) ==
    [name |-> ExtensionName(w), sha |-> loaded["modsecurity"], plugin |-> buildWAFPluginJSON(s, rules)]

BuildFromWAF(w, s, rules, found, hmac, loaded) ==
    LET r == resolveProvider(w, s, found) IN
    [ok |-> /\ loaded["modsecurity"] # ""
            /\ ChallengeEnabled(s) => loaded["challenge"] # "" /\ s.challenge # "short",
     waf |-> w, provider |-> r.provider, cluster |-> r.cluster, service |-> r.service,
     managed |-> s.telemetry = "Managed", targets |-> EffectivePolicyTargets(s),
     filters |-> (IF ChallengeEnabled(s) THEN <<buildChallengeFilter(w, s, hmac, loaded)>> ELSE <<>>)
                 \o <<wafFilter(w, s, rules, loaded)>>]

FilterNames(p) == [i \in DOMAIN p.filters |-> p.filters[i].name]

-----------------------------------------------------------------------------
(* ECDS resources.                                                          *)

WasmCodeCluster == <<"kubewaf_wasm_code">>
CECResourceName(w) == <<"kubewaf", w>>
CiliumPrefixedCluster(w, local) == <<HomeNs>> \o CECResourceName(w) \o local
\* Fault: the name Cilium gives the cluster is not used.
wasmFetchClusterLocal(p) == WasmCodeCluster
wasmFetchCluster(p) ==
    IF p.provider = "Cilium" THEN CiliumPrefixedCluster(p.waf, WasmCodeCluster) ELSE WasmCodeCluster

\* A typed extension config: its name, the code's checksum, the cluster it is
\* fetched from, the plugin configuration.
buildOne(f, wasmCluster) == [name |-> f.name, sha |-> f.sha, fetch |-> wasmCluster, plugin |-> f.plugin]
BuildTypedExtensionConfigs(p) ==
    [ok |-> \A i \in DOMAIN p.filters : p.filters[i].sha # "",
     tecs |-> [i \in DOMAIN p.filters |-> buildOne(p.filters[i], wasmFetchCluster(p))]]

-----------------------------------------------------------------------------
(* Envoy Gateway: the extension server's hooks on a listener and on the     *)
(* clusters of a translation.                                               *)

Router == [name |-> <<"router">>, cluster |-> ""]
MakeECDSFilterStub(name, cluster) == [name |-> name, cluster |-> cluster]
\* Fault: the WAF filter comes before its challenge.
StubsWAFFirst(p) ==
    [i \in DOMAIN p.filters |-> MakeECDSFilterStub(Reversed(FilterNames(p))[i], p.cluster)]
MakeECDSFilterStubs(p) == [i \in DOMAIN p.filters |-> MakeECDSFilterStub(p.filters[i].name, p.cluster)]

parseListenerGateway(l) == [ns |-> l.name[1], gateway |-> l.name[2]]

matchesGateway(p, g) ==
    LET hit(t) == t.kind = "HTTPRoute" \/ (t.kind = "Gateway" /\ t.name = g.gateway)
    IN g.ns = HomeNs /\ \E i \in DOMAIN p.targets : hit(p.targets[i])

\* The policies Envoy Gateway hands over, built without rules, when there are any,
\* else the index.
portableFromUnstructured(w, s, loaded) ==
    [BuildFromWAF(w, s, <<>>, NotDiscovered, "", loaded) EXCEPT !.provider = "EnvoyGateway"]
matchingConfigs(l, policies, indexed) ==
    LET ours == SelectSeq(policies, LAMBDA p : p.ok)
    IN IF ours # <<>> THEN ours
       ELSE SelectSeq(indexed, LAMBDA p : matchesGateway(p, parseListenerGateway(l)))

HasOTelAccessLog(l) == l.log
AppendOTelAccessLog(l) == [l EXCEPT !.log = TRUE]

\* Stubs that are not in the chain yet go before the router, or to the end.
injectIntoFilterChain(l, cfgs) ==
    LET present == {l.filters[i].name : i \in DOMAIN l.filters}
        stubsOf[k \in 0..Len(cfgs)] == IF k = 0 THEN <<>> ELSE stubsOf[k - 1] \o MakeECDSFilterStubs(cfgs[k])
        stubs == stubsOf[Len(cfgs)]
        fresh(i) == stubs[i].name \notin present \cup {stubs[j].name : j \in 1..(i - 1)}
        freshOf[k \in 0..Len(stubs)] ==
            IF k = 0 THEN <<>> ELSE freshOf[k - 1] \o (IF fresh(k) THEN <<stubs[k]>> ELSE <<>>)
        toInsert == freshOf[Len(stubs)]
        before == {i \in DOMAIN l.filters : l.filters[i] = Router}
        at == IF before = {} THEN Len(l.filters) ELSE Min(before) - 1
        filters == SubSeq(l.filters, 1, at) \o toInsert \o SubSeq(l.filters, at + 1, Len(l.filters))
        need == \E i \in DOMAIN cfgs : cfgs[i].managed
    IN IF toInsert = <<>> /\ (~need \/ HasOTelAccessLog(l)) THEN l
       ELSE IF need THEN AppendOTelAccessLog([l EXCEPT !.filters = filters])
       ELSE [l EXCEPT !.filters = filters]

PostHTTPListenerModify(l, policies, indexed) ==
    LET m == matchingConfigs(l, policies, indexed)
    IN IF m = <<>> THEN l ELSE injectIntoFilterChain(l, m)

\* EnsureCluster appends a cluster unless one has its name; clusters are sets here.
EnsureCluster(clusters, name) == clusters \cup {name}
buildECDSCluster(indexed) == IF indexed = <<>> THEN DefaultECDSCluster ELSE indexed[1].cluster
MakeOTelCluster == IF OTelHost THEN {<<DefaultOTelCluster>>} ELSE {}
buildOTelCluster == MakeOTelCluster
MakeWasmCodeCluster(indexed) == IF indexed = <<>> THEN {} ELSE {WasmCodeCluster}

PostTranslateModify(clusters, indexed) ==
    EnsureCluster(clusters, <<buildECDSCluster(indexed)>>)
        \cup buildOTelCluster \cup MakeWasmCodeCluster(indexed)

-----------------------------------------------------------------------------
(* Istio: an EnvoyFilter's patches, and the chain the patches make.         *)

ecdsClusterValue(p) == <<p.cluster>>
OTelClusterMap == MakeOTelCluster
wasmCodeClusterValueURL == WasmCodeCluster
ecdsFilterValueNamed(p, name) == [name |-> name, cluster |-> p.cluster]

\* The filters are patched in last first.
buildSpec(p) ==
    [clusters |-> {wasmCodeClusterValueURL, ecdsClusterValue(p)} \cup OTelClusterMap,
     filters |-> [i \in DOMAIN p.filters |->
                     ecdsFilterValueNamed(p, Reversed(FilterNames(p))[i])]]

\* INSERT_BEFORE puts its filter directly before the router, after those of the
\* patches before it.
ApplyPatches(spec) == spec.filters \o <<Router>>

-----------------------------------------------------------------------------
(* Cilium: the CiliumEnvoyConfig of a WAF.                                  *)

GatewayServiceName(g) == <<"cilium-gateway", g>>
gatewayTargets(p) == NamesOf(p.targets, "Gateway")
buildServices(p) == {GatewayServiceName(g) : g \in Range(gatewayTargets(p))} \cup {<<p.service>>}

httpFilters(p) == [i \in DOMAIN p.filters |-> [name |-> p.filters[i].name, cluster |-> p.cluster]]
                  \o <<Router>>
originalDstClusterResource == <<"kubewaf_original_dst">>
backendServiceCluster(p) == <<HomeNs, p.service, "80">>
backendServiceClusterResource(p) == <<HomeNs, p.service, "80">>
gatewayListenerResource(p) == [filters |-> httpFilters(p), route |-> backendServiceCluster(p)]
serviceRouteResource(p) == originalDstClusterResource
serviceListenerResource(p) == [filters |-> httpFilters(p), route |-> serviceRouteResource(p)]

\* With a target Gateway one listener routes to the app Service's own cluster;
\* otherwise to the original destination.
buildResources(p) ==
    LET gw == gatewayTargets(p) # <<>> IN
    [clusters |-> {WasmCodeCluster, originalDstClusterResource}
                  \cup (IF gw THEN {backendServiceClusterResource(p)} ELSE {}),
     listener |-> IF gw THEN gatewayListenerResource(p) ELSE serviceListenerResource(p)]
=============================================================================
