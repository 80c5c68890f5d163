-------------------------- MODULE ServingScenario --------------------------
(* The instance of Serving that TLC checks: two WAFs of one namespace, a    *)
(* Gateway of every platform, one HTTPRoute behind the Cilium Gateway.      *)
EXTENDS Naturals, TLC

MCWafs == {"w1", "w2"}
Target(kind, name) == <<[kind |-> kind, name |-> name]>>

MCGateways ==
    ("geg" :> [ns |-> "ns", class |-> {"eg"}, controller |-> {"envoyproxy.io"}])
    @@ ("gistio" :> [ns |-> "ns", class |-> {"istio"}, controller |-> {}])
    @@ ("gcil" :> [ns |-> "ns", class |-> {"cilium"}, controller |-> {"cilium"}])
MCRoutes == <<[parents |-> Target("Gateway", "gcil"), backends |-> Target("Service", "app")]>>
MCInstalled == {"EnvoyGateway", "Istio"}
MCRuleLines == [w \in MCWafs |-> <<{"SecRule", w}>>]
MCSecretNameOf == [w \in MCWafs |-> <<w, "hmac">>]
MCImages == {[modsecurity |-> "sha1", challenge |-> c] : c \in {"sha2", "empty"}}

Plain == [type |-> "Auto", service |-> "", cluster |-> "", telemetry |-> "absent", redact |-> "unset",
          challenge |-> "off", targetRefs |-> <<>>, parentRefs |-> <<>>, crsEnable |-> FALSE,
          crs |-> {}, mode |-> "", ftw |-> FALSE]
OnEnvoyGateway == [Plain EXCEPT !.challenge = "managed", !.targetRefs = Target("Gateway", "geg"),
                                !.crsEnable = TRUE, !.crs = {"paranoia", "RemoveById"}]
OnRoute == [Plain EXCEPT !.telemetry = "Managed", !.parentRefs = Target("HTTPRoute", "r"),
                         !.cluster = "own_ecds", !.crs = {"RemoveByTag"}]
OnIstio == [Plain EXCEPT !.type = "Istio", !.mode = "DetectionOnly", !.challenge = "ref"]
OnIstioGateway == [Plain EXCEPT !.telemetry = "Managed", !.redact = "keep",
                                !.targetRefs = Target("Gateway", "gistio")]
OnCilium == [Plain EXCEPT !.targetRefs = Target("Gateway", "gcil"), !.challenge = "managed",
                          !.telemetry = "None", !.ftw = TRUE, !.crs = {"set"}]
MCStarts ==
    {[wafs |-> ("w1" :> OnEnvoyGateway @@ "w2" :> OnIstioGateway), writes |-> 1, faults |-> 1],
     [wafs |-> "w1" :> OnCilium, writes |-> 2, faults |-> 0],
     [wafs |-> "w1" :> OnCilium, writes |-> 0, faults |-> 1],
     [wafs |-> [w \in MCWafs |-> OnIstioGateway], writes |-> 2, faults |-> 0],
     [wafs |-> <<>>, writes |-> 0, faults |-> 0]}
MCObsStates == {{"enabled", "ciliumOtelMerged"}, {"enabled", "injectConfigured"}}
MCSpecs == {OnEnvoyGateway, OnRoute, OnIstio, OnIstioGateway, OnCilium}
=============================================================================
