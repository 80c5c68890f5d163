---------------------------- MODULE ServingRest ----------------------------
(***************************************************************************)
(* What a WAF at rest has: the resources of its spec, one slot, the HMAC of *)
(* its Secret, the access log of its namespace; and that a WAF that is gone *)
(* leaves nothing.  For any WAFs, specs, Secrets, failures and restarts.    *)
(*                                                                          *)
(* The argument: what the worker compiled it publishes and attaches step by *)
(* step (TaskInv); whatever changes a WAF or its Secret meanwhile queues    *)
(* the WAF; and a reconcile that ends without queueing it again has done    *)
(* all of it for the WAF as it is (RestOf, HMACOf).                         *)
(***************************************************************************)
EXTENDS ServingProofs

-----------------------------------------------------------------------------
(* The invariant.                                                           *)

\* A WAF that should be served and for which nothing is queued.
Attended(w) == waf[w].live /\ ~waf[w].del /\ w \notin kq
Working(w) == task.pc # "idle" /\ task.waf = w

\* The worker has published its WAF.
Slotting == {"others", "maybe", "delete", "otel", "status"}

\* The resources a WAF with a spec has, and the cluster they are fetched from.
FiltersFor(w, s) == {n \in NamesOfWAF(w) : n = ExtensionName(w) \/ ChallengeEnabled(s)}
FetchedFrom(w, p) == IF p = "Cilium" THEN CiliumPrefixedCluster(w, WasmCodeCluster) ELSE WasmCodeCluster
NamesIn(filters) == {filters[i].name : i \in DOMAIN filters}
Row(f) == f \in Seq({f[i] : i \in DOMAIN f})

\* The ECDS server has, and serves, the build of a spec for a provider.
Published(w, s, p) ==
    /\ loaded["modsecurity"] # ""
    /\ snapshot[ExtensionName(w)].plugin = buildWAFPluginJSON(s, RuleLines[w])
    /\ snapshot[ExtensionName(w)].sha = loaded["modsecurity"]
    /\ \A n \in NamesOfWAF(w) : /\ resources[n] = snapshot[n]
                                /\ (snapshot[n] # NoTEC) <=> n \in FiltersFor(w, s)
                                /\ n \in FiltersFor(w, s) => snapshot[n].fetch = FetchedFrom(w, p)

\* The slot of a provider.
Detached(w, p) ==
    /\ p = "Istio" => ef[w] = NoObject
    /\ p = "Cilium" => cec[w] = NoObject
    /\ p = "EnvoyGateway" => index[w] = NoObject
Attached(w, s, p) ==
    /\ p = "Istio" => /\ ef[w] # NoObject /\ WasmCodeCluster \in ef[w].clusters /\ Row(ef[w].filters)
                      /\ NamesIn(ef[w].filters) = FiltersFor(w, s)
    /\ p = "Cilium" => /\ cec[w] # NoObject /\ WasmCodeCluster \in cec[w].resources.clusters
                       /\ NamesIn(cec[w].resources.listener.filters) = FiltersFor(w, s) \cup {Router.name}
    /\ p = "EnvoyGateway" => index[w] # NoObject /\ NamesIn(index[w].filters) = FiltersFor(w, s)

\* A provider that a WAF with this spec may be given.
Suits(p, s) == p \in Providers /\ (p = "Istio" => s.type \in {"", "Auto", "Istio"})

\* A configuration of a WAF with a spec.
Compiled(c, w, s) ==
    /\ c # NoObject /\ c.waf = w /\ Suits(c.provider, s)
    /\ c.managed <=> s.telemetry = "Managed"
    /\ Row(c.filters) /\ NamesIn(c.filters) = FiltersFor(w, s)

\* A worker that has published its WAF detaches it from the other providers, attaches it
\* to its own and sees to the access log.
Attaching ==
    /\ Compiled(task.cfg, task.waf, task.copy.spec)
    /\ Published(task.waf, task.copy.spec, task.cfg.provider)
    /\ task.cfg.provider \notin task.todo
    /\ \A p \in Providers \ (task.todo \cup {task.cfg.provider}) : Detached(task.waf, p)
    /\ Ensured => task.todo = {} /\ Attached(task.waf, task.copy.spec, task.cfg.provider)
    /\ task.pc = "otel" => task.cfg.provider = "Istio" /\ task.cfg.managed
    /\ task.pc \in {"maybe", "delete"} => ~(task.cfg.provider = "Istio" /\ task.cfg.managed)
    /\ task.pc = "status" => (task.cfg.provider = "Istio" /\ task.cfg.managed => otel)

\* A worker that deletes its WAF has emptied the server for it; it leaves the access log
\* only if it has seen a WAF that needs it.
Deleting ==
    /\ ~Ensured /\ waf[task.waf].del
    /\ \A n \in NamesOfWAF(task.waf) : resources[n] = NoTEC
    /\ \A p \in Providers \ task.todo : Detached(task.waf, p)
    /\ task.pc = "others" /\ "Istio" \notin task.todo /\ otel =>
         \E v \in Wafs \ {task.waf} : wafNeedsIstioAccessLog(v) \/ v \in kq

TaskInv ==
    /\ task.pc \in {"secret", "build"} => ~task.copy.del
    /\ task.pc \in Slotting /\ ~task.copy.del => Attaching
    /\ task.pc # "idle" /\ task.copy.del => Deleting
    /\ task.pc = "delete" => \A v \in Wafs \ {task.waf} : Attended(v) => ~wafNeedsIstioAccessLog(v)

\* What the worker holds is the WAF as it is, or the WAF is queued.
CopyOf(w) == Attended(w) /\ Working(w) => task.copy = waf[w]

\* The HMAC of a managed challenge on its way from the Secret to the server.
SecretOf(w) == secrets[ManagedChallengeSecretName(w)]
Matches(w, v) == v \notin {"", "short"} /\ (SecretOf(w).owner = w => SecretOf(w).val = v)
HMACOf(w) ==
    Attended(w) /\ waf[w].spec.challenge = "managed" =>
       /\ Working(w) /\ task.pc = "secret" =>
            (SecretOf(w).owner = w \/ task.seen.owner = w => SecretOf(w) = task.seen)
       /\ Working(w) /\ task.pc = "build" => Matches(w, task.hmac)
       /\ ~Working(w) \/ task.pc \in Slotting =>
            /\ Matches(w, snapshot[ChallengeExtensionName(w)].plugin.secret)
            /\ resources[ChallengeExtensionName(w)] = snapshot[ChallengeExtensionName(w)]

\* A WAF at rest.
RestOf(w) ==
    Attended(w) /\ ~Working(w) =>
       /\ Suits(sts[w].provider, waf[w].spec)
       /\ Published(w, waf[w].spec, sts[w].provider)
       /\ Attached(w, waf[w].spec, sts[w].provider)
       /\ \A q \in Providers \ {sts[w].provider} : Detached(w, q)
       /\ (sts[w].sink = "") <=> (waf[w].spec.telemetry # "Managed")
       /\ sts[w].provider = "Istio" /\ waf[w].spec.telemetry = "Managed" => otel

\* Nothing is there for a WAF that does not carry the finalizer.
GoneOf(w) ==
    ~(waf[w].live /\ waf[w].fin) =>
       (\A p \in Providers : Detached(w, p)) /\ \A n \in NamesOfWAF(w) : resources[n] = NoTEC

WafInv(w) == CopyOf(w) /\ HMACOf(w) /\ RestOf(w) /\ GoneOf(w)

\* The inductive invariant: types, the worker, and every WAF.
WafsInv == \A w \in Wafs : WafInv(w)
SInv == TInv /\ TaskInv /\ WafsInv

-----------------------------------------------------------------------------
(* Builds.                                                                  *)

\* Discovery answers a provider.
LEMMA FoundIs == ASSUME NEW s, NEW lost PROVE DiscoverProvider(s, lost).provider \in Providers
<1>1. \A g : GatewayTells(g, lost) \in Providers \cup {""}
  BY DEF GatewayTells, ProviderFromControllerName, providerFromGatewayClassName, Providers
<1>2. discoverFromTargetedGateways(s, lost) \in Providers \cup {""}
  BY <1>1, Zenon DEF discoverFromTargetedGateways
<1>3. discoverFromInstalledAPIs(lost) \in Providers \cup {""}
  BY DEF discoverFromInstalledAPIs, Providers
<1>. QED  BY <1>2, <1>3, Zenon DEF DiscoverProvider, Providers

\* A sequence of one element.
LEMMA OneOf == ASSUME NEW b, NEW f, f = <<>> \o <<b>> PROVE DOMAIN f = 1..1 /\ Len(f) = 1 /\ f[1] = b
<1>1. f = <<b>>  OBVIOUS
<1>. QED  BY <1>1

\* A sequence of one element or two.
LEMMA OneOrTwo ==
    ASSUME NEW two \in BOOLEAN, NEW a, NEW b, NEW f, f = (IF two THEN <<a>> ELSE <<>>) \o <<b>>
    PROVE  /\ ~two => DOMAIN f = 1..1 /\ Len(f) = 1 /\ f[1] = b
           /\ two => DOMAIN f = 1..2 /\ Len(f) = 2 /\ f[1] = a /\ f[2] = b
<1>1. ASSUME ~two PROVE DOMAIN f = 1..1 /\ Len(f) = 1 /\ f[1] = b
  <2>1. f = <<>> \o <<b>>  BY <1>1
  <2>. QED  BY ONLY <2>1, OneOf
<1>2. ASSUME two PROVE DOMAIN f = 1..2 /\ Len(f) = 2 /\ f[1] = a /\ f[2] = b
  <2>1. f = <<a>> \o <<b>>  BY <1>2
  <2>2. DOMAIN f = 1..2 /\ f[1] = a /\ f[2] = b  BY <2>1, PairOf
  <2>3. Len(f) = 2  BY <2>1
  <2>. QED  BY <2>2, <2>3
<1>. QED  BY <1>1, <1>2

\* The filters of a configuration, in their order.
FiltersMade(w, s, rules, hmac, ld) ==
    (IF ChallengeEnabled(s) THEN <<buildChallengeFilter(w, s, hmac, ld)>> ELSE <<>>)
    \o <<wafFilter(w, s, rules, ld)>>

\* The challenge comes before the WAF filter (BuildFromWAF).
LEMMA FiltersAre ==
    ASSUME NEW w, NEW s, NEW rules, NEW hmac, NEW ld, NEW f, f = FiltersMade(w, s, rules, hmac, ld)
    PROVE  /\ ~ChallengeEnabled(s) => DOMAIN f = 1..1 /\ Len(f) = 1 /\ f[1] = wafFilter(w, s, rules, ld)
           /\ ChallengeEnabled(s) => /\ DOMAIN f = 1..2 /\ Len(f) = 2 /\ f[2] = wafFilter(w, s, rules, ld)
                                     /\ f[1] = buildChallengeFilter(w, s, hmac, ld)
<1>1. PICK two \in BOOLEAN : two = ChallengeEnabled(s)  BY Zenon DEF ChallengeEnabled
<1>2. PICK a, b : a = buildChallengeFilter(w, s, hmac, ld) /\ b = wafFilter(w, s, rules, ld)  OBVIOUS
<1>3. f = (IF two THEN <<a>> ELSE <<>>) \o <<b>>  BY <1>1, <1>2 DEF FiltersMade
<1>4. /\ ~two => DOMAIN f = 1..1 /\ Len(f) = 1 /\ f[1] = b
      /\ two => DOMAIN f = 1..2 /\ Len(f) = 2 /\ f[1] = a /\ f[2] = b
  BY ONLY <1>3, OneOrTwo, two \in BOOLEAN
<1>. QED  BY <1>1, <1>2, <1>4, Zenon

\* The names of filters followed by one more.
LEMMA NamesAppended ==
    ASSUME NEW g, g \in Seq({g[i] : i \in DOMAIN g}), NEW x, NEW h, h = g \o <<x>>
    PROVE  NamesIn(h) = NamesIn(g) \cup {x.name}
<1>1. PICK n \in Nat : n = Len(g) /\ DOMAIN g = 1..n  OBVIOUS
<1>2. PICK S : S = {g[i] : i \in DOMAIN g} \cup {x}  BY Zenon
<1>3. g \in Seq(S) /\ <<x>> \in Seq(S) /\ Len(<<x>>) = 1  BY <1>2
<1>4. Len(h) = n + 1 /\ DOMAIN h = 1..(n + 1)  BY <1>1, <1>3
<1>5. \A i \in 1..n : h[i] = g[i]  BY <1>1, <1>3
<1>6. h[n + 1] = x  BY <1>1, <1>3
<1>7. PICK I : I = 1..n  OBVIOUS
<1>8. 1..(n + 1) = I \cup {n + 1}  BY <1>7
<1>9. NamesIn(g) = {g[i].name : i \in I} /\ NamesIn(h) = {h[i].name : i \in I \cup {n + 1}}
  BY <1>1, <1>4, <1>7, <1>8, Zenon DEF NamesIn
<1>10. \A i \in I : h[i].name = g[i].name  BY <1>5, <1>7, Zenon
<1>11. {h[i].name : i \in I \cup {n + 1}} = {g[i].name : i \in I} \cup {x.name}
  BY <1>6, <1>10, Zenon
<1>. QED  BY <1>9, <1>11, Zenon

\* Two rows of filters with the same names.
LEMMA SameNames ==
    ASSUME NEW p, NEW q, \A i \in DOMAIN p : \E j \in DOMAIN q : p[i].name = q[j].name,
           \A i \in DOMAIN q : \E j \in DOMAIN p : q[i].name = p[j].name
    PROVE  NamesIn(p) = NamesIn(q)
<1>1. ASSUME NEW x \in NamesIn(p) PROVE x \in NamesIn(q)
  <2>1. PICK i \in DOMAIN p : x = p[i].name  BY Zenon DEF NamesIn
  <2>2. PICK j \in DOMAIN q : p[i].name = q[j].name  BY Zenon
  <2>. QED  BY <2>1, <2>2, Zenon DEF NamesIn
<1>2. ASSUME NEW x \in NamesIn(q) PROVE x \in NamesIn(p)
  <2>1. PICK i \in DOMAIN q : x = q[i].name  BY Zenon DEF NamesIn
  <2>2. PICK j \in DOMAIN p : q[i].name = p[j].name  BY Zenon
  <2>. QED  BY <2>1, <2>2, Zenon DEF NamesIn
<1>. QED  BY <1>1, <1>2, Zenon

\* A sequence is a Row.
LEMMA RowIs == ASSUME NEW S, NEW f \in Seq(S) PROVE Row(f)
BY DEF Row

\* Sequences of one and of two elements are Rows.
LEMMA RowsAre == ASSUME NEW a, NEW b PROVE Row(<<>> \o <<b>>) /\ Row(<<a>> \o <<b>>)
<1>1. <<>> \in Seq({a, b}) /\ <<a>> \in Seq({a, b}) /\ <<b>> \in Seq({a, b})  OBVIOUS
<1>2. <<>> \o <<b>> \in Seq({a, b}) /\ <<a>> \o <<b>> \in Seq({a, b})  BY <1>1
<1>. QED  BY <1>2, RowIs, Zenon

\* A function on 1..k is a sequence.
LEMMA RowOf == ASSUME NEW k \in Nat, NEW S, NEW f \in [1..k -> S] PROVE f \in Seq(S)
OBVIOUS

\* The names of one filter.
LEMMA NamesOfOne == ASSUME NEW f, DOMAIN f = 1..1 PROVE NamesIn(f) = {f[1].name}
<1>1. 1..1 = {1}  OBVIOUS
<1>. QED  BY <1>1, Zenon DEF NamesIn

\* The names of two filters.
LEMMA NamesOfTwo == ASSUME NEW f, DOMAIN f = 1..2 PROVE NamesIn(f) = {f[1].name, f[2].name}
<1>1. 1..2 = {1, 2}  OBVIOUS
<1>. QED  BY <1>1, Zenon DEF NamesIn

\* BuildFromWAF compiles the WAF and the spec it is given.
LEMMA CompiledIs ==
    ASSUME NEW w, NEW s \in WAFSpec, NEW rules, NEW found, found.provider \in Providers \cup {""}, NEW hmac, NEW ld,
           NEW cfg, cfg = BuildFromWAF(w, s, rules, found, hmac, ld)
    PROVE  Compiled(cfg, w, s)
<1>1. /\ cfg.waf = w /\ (cfg.managed <=> s.telemetry = "Managed")
      /\ cfg.provider = IF ~NeedsProviderDiscovery(s) THEN s.type
                        ELSE IF found.provider # "" THEN found.provider ELSE "EnvoyGateway"
  BY Zenon DEF BuildFromWAF, resolveProvider
<1>2. s.type \in {"", "Auto"} \cup Providers  BY Zenon DEF WAFSpec
<1>3. Suits(cfg.provider, s)  BY <1>1, <1>2, Zenon DEF Suits, Providers, NeedsProviderDiscovery
<1>4. cfg # NoObject
  <2>1. "waf" \in DOMAIN cfg  BY Zenon DEF BuildFromWAF
  <2>2. "waf" \notin DOMAIN NoObject  BY Zenon DEF NoObject
  <2>. QED  BY <2>1, <2>2, Zenon
<1>5. NamesIn(cfg.filters) = FiltersFor(w, s)
  <2>1. wafFilter(w, s, rules, ld).name = ExtensionName(w)
        /\ buildChallengeFilter(w, s, hmac, ld).name = ChallengeExtensionName(w)
    BY Zenon DEF wafFilter, buildChallengeFilter
  <2>2. PICK f : f = cfg.filters  BY Zenon
  <2>3. f = FiltersMade(w, s, rules, hmac, ld)  BY <2>2, Zenon DEF BuildFromWAF, FiltersMade
  <2>4. CASE ChallengeEnabled(s)
    <3>1. /\ DOMAIN f = 1..2 /\ f[2] = wafFilter(w, s, rules, ld)
          /\ f[1] = buildChallengeFilter(w, s, hmac, ld)
      BY ONLY <2>3, <2>4, FiltersAre
    <3>2. NamesIn(f) = {ChallengeExtensionName(w), ExtensionName(w)}  BY <2>1, <3>1, NamesOfTwo, Zenon
    <3>. QED  BY <2>2, <2>4, <3>2, Zenon DEF FiltersFor, NamesOfWAF
  <2>5. CASE ~ChallengeEnabled(s)
    <3>1. DOMAIN f = 1..1 /\ f[1] = wafFilter(w, s, rules, ld)  BY ONLY <2>3, <2>5, FiltersAre
    <3>2. NamesIn(f) = {ExtensionName(w)}  BY <2>1, <3>1, NamesOfOne, Zenon
    <3>. QED  BY <2>2, <2>5, <3>2, Zenon DEF FiltersFor, NamesOfWAF
  <2>. QED  BY <2>4, <2>5, Zenon
<1>6. Row(cfg.filters)
  <2>1. PICK a, b : a = buildChallengeFilter(w, s, hmac, ld) /\ b = wafFilter(w, s, rules, ld)  BY Zenon
  <2>2. cfg.filters = (IF ChallengeEnabled(s) THEN <<a>> ELSE <<>>) \o <<b>>  BY <2>1, Zenon DEF BuildFromWAF
  <2>3. CASE ChallengeEnabled(s)
    <3>1. cfg.filters = <<a>> \o <<b>>  BY <2>2, <2>3, Zenon
    <3>. QED  BY ONLY <3>1, RowsAre
  <2>4. CASE ~ChallengeEnabled(s)
    <3>1. cfg.filters = <<>> \o <<b>>  BY <2>2, <2>4, Zenon
    <3>. QED  BY ONLY <3>1, RowsAre
  <2>. QED  BY <2>3, <2>4, Zenon
<1>. QED  BY <1>1, <1>3, <1>4, <1>5, <1>6, Zenon DEF Compiled

\* The resources BuildTypedExtensionConfigs makes of a configuration.
LEMMA TecsAre ==
    ASSUME NEW w, NEW s, NEW rules, NEW found, NEW hmac, NEW ld,
           NEW cfg, cfg = BuildFromWAF(w, s, rules, found, hmac, ld),
           NEW t, t = BuildTypedExtensionConfigs(cfg).tecs
    PROVE  /\ ~ChallengeEnabled(s) =>
                 Len(t) = 1 /\ t[1] = buildOne(wafFilter(w, s, rules, ld), FetchedFrom(w, cfg.provider))
           /\ ChallengeEnabled(s) =>
                 /\ Len(t) = 2 /\ t[2] = buildOne(wafFilter(w, s, rules, ld), FetchedFrom(w, cfg.provider))
                 /\ t[1] = buildOne(buildChallengeFilter(w, s, hmac, ld), FetchedFrom(w, cfg.provider))
<1>1. PICK f : f = cfg.filters  OBVIOUS
<1>2. f = FiltersMade(w, s, rules, hmac, ld) /\ cfg.waf = w  BY <1>1, Zenon DEF BuildFromWAF, FiltersMade
<1>3. PICK from : from = FetchedFrom(w, cfg.provider)  OBVIOUS
<1>4. t = [i \in DOMAIN f |-> buildOne(f[i], from)]
  BY <1>1, <1>2, <1>3 DEF BuildTypedExtensionConfigs, wasmFetchCluster, FetchedFrom
<1>5. /\ ~ChallengeEnabled(s) => DOMAIN f = 1..1 /\ f[1] = wafFilter(w, s, rules, ld)
      /\ ChallengeEnabled(s) => /\ DOMAIN f = 1..2 /\ f[2] = wafFilter(w, s, rules, ld)
                                /\ f[1] = buildChallengeFilter(w, s, hmac, ld)
  BY ONLY <1>2, FiltersAre
<1>6. CASE ~ChallengeEnabled(s)
  <2>1. t = [i \in 1..1 |-> buildOne(f[i], from)]  BY <1>4, <1>5, <1>6
  <2>. QED  BY <1>3, <1>5, <1>6, <2>1
<1>7. CASE ChallengeEnabled(s)
  <2>1. t = [i \in 1..2 |-> buildOne(f[i], from)]  BY <1>4, <1>5, <1>7
  <2>. QED  BY <1>3, <1>5, <1>7, <2>1
<1>. QED  BY <1>6, <1>7, Zenon

\* What Upsert of a build stores (Publish, Upsert).
LEMMA PutIs ==
    ASSUME NEW w \in Wafs, NEW s, NEW rules, NEW found, NEW hmac, NEW ld,
           NEW cfg, cfg = BuildFromWAF(w, s, rules, found, hmac, ld),
           NEW res, res = Upserted(w, BuildTypedExtensionConfigs(cfg).tecs),
           NEW from, from = FetchedFrom(w, cfg.provider),
           NEW a, a = buildOne(wafFilter(w, s, rules, ld), from),
           NEW b, b = buildOne(buildChallengeFilter(w, s, hmac, ld), from)
    PROVE  /\ res[ExtensionName(w)] = a
           /\ ChallengeEnabled(s) => res[ChallengeExtensionName(w)] = b
           /\ ~ChallengeEnabled(s) => res[ChallengeExtensionName(w)] = NoTEC
           /\ \A v \in Wafs \ {w} : \A n \in NamesOfWAF(v) : res[n] = resources[n]
<1>1. PICK t : t = BuildTypedExtensionConfigs(cfg).tecs  OBVIOUS
<1>4. a.name = ExtensionName(w) /\ b.name = ChallengeExtensionName(w)
  BY DEF buildOne, wafFilter, buildChallengeFilter
<1>5. /\ ~ChallengeEnabled(s) => Len(t) = 1 /\ t[1] = a
      /\ ChallengeEnabled(s) => Len(t) = 2 /\ t[2] = a /\ t[1] = b
  BY <1>1, TecsAre, SMTT(30)
<1>6. ASSUME NEW c, ConfigOf(res) = [ConfigOf(resources) EXCEPT ![w] = [waf |-> a, challenge |-> c]]
      PROVE  /\ res[ExtensionName(w)] = a /\ res[ChallengeExtensionName(w)] = c
             /\ \A v \in Wafs \ {w} : \A n \in NamesOfWAF(v) : res[n] = resources[n]
  BY <1>6, Zenon DEF ConfigOf, NamesOfWAF
<1>7. CASE ~ChallengeEnabled(s)
  <2>1. ConfigOf(res) = [ConfigOf(resources) EXCEPT ![w] = [waf |-> a, challenge |-> NoTEC]]
    BY <1>1, <1>4, <1>5, <1>7, PutOne, SMTT(30)
  <2>. QED  BY ONLY <1>6, <1>7, <2>1, Zenon
<1>8. CASE ChallengeEnabled(s)
  <2>1. ConfigOf(res) = [ConfigOf(resources) EXCEPT ![w] = [waf |-> a, challenge |-> b]]
    BY <1>1, <1>4, <1>5, <1>8, PutTwo, SMTT(30)
  <2>. QED  BY ONLY <1>6, <1>8, <2>1, Zenon
<1>. QED  BY <1>7, <1>8, Zenon

-----------------------------------------------------------------------------
(* What the slot of a provider is made of.                                  *)

\* The EnvoyFilter names the filters of the configuration (buildSpec).
LEMMA EnvoyFilterIs ==
    ASSUME NEW c, Row(c.filters), NEW o, o = buildSpec(c)
    PROVE  /\ o # NoObject /\ WasmCodeCluster \in o.clusters /\ Row(o.filters)
           /\ NamesIn(o.filters) = NamesIn(c.filters)
<1>1. PICK f : f = c.filters  OBVIOUS
<1>2. PICK k \in Nat : k = Len(f) /\ DOMAIN f = 1..k  BY <1>1 DEF Row
<1>3. PICK names : names = FilterNames(c)  OBVIOUS
<1>4. names = [i \in 1..k |-> f[i].name]  BY <1>1, <1>2, <1>3 DEF FilterNames
<1>5. Len(names) = k  BY <1>4
<1>6. PICK r : r = Reversed(names)  OBVIOUS
<1>7. r = [i \in 1..k |-> f[k - i + 1].name]  BY <1>4, <1>5, <1>6 DEF Reversed
<1>8. o.filters = [i \in 1..k |-> [name |-> r[i], cluster |-> c.cluster]]
  BY <1>1, <1>2, <1>3, <1>6, Zenon DEF buildSpec, ecdsFilterValueNamed
<1>9. \A i \in 1..k : o.filters[i].name = f[k - i + 1].name  BY <1>7, <1>8
<1>10. NamesIn(o.filters) = NamesIn(f)
  <2>1. PICK g : g = o.filters  OBVIOUS
  <2>2. DOMAIN g = 1..k /\ \A i \in 1..k : g[i].name = f[k - i + 1].name  BY <1>8, <1>9, <2>1, Zenon
  <2>3. \A i \in 1..k : k - i + 1 \in 1..k /\ k - (k - i + 1) + 1 = i  OBVIOUS
  <2>4. \A i \in DOMAIN g : \E j \in DOMAIN f : g[i].name = f[j].name  BY <1>2, <2>2, <2>3, Zenon
  <2>5. \A i \in DOMAIN f : \E j \in DOMAIN g : f[i].name = g[j].name
    <3>. SUFFICES ASSUME NEW i \in 1..k PROVE \E j \in 1..k : f[i].name = g[j].name  BY ONLY <1>2, <2>2, SMTT(30)
    <3>1. k - i + 1 \in 1..k /\ g[k - i + 1].name = f[k - (k - i + 1) + 1].name  BY <2>2, <2>3, Zenon
    <3>. QED  BY <2>3, <3>1
  <2>6. NamesIn(g) = NamesIn(f)  BY ONLY <2>4, <2>5, SameNames
  <2>. QED  BY <2>1, <2>6
<1>11. Row(o.filters)
  <2>1. PICK g : g = o.filters  OBVIOUS
  <2>2. g \in [1..k -> {g[i] : i \in 1..k}]  BY <1>8, <2>1
  <2>3. g \in Seq({g[i] : i \in 1..k})  BY ONLY <2>2, k \in Nat, RowOf
  <2>. QED  BY <2>1, <2>3, RowIs
<1>12. o # NoObject /\ WasmCodeCluster \in o.clusters
  BY Zenon DEF buildSpec, NoObject, wasmCodeClusterValueURL
<1>. QED  BY <1>1, <1>10, <1>11, <1>12

\* The CiliumEnvoyConfig names them before the router (buildResources, httpFilters).
LEMMA CiliumIs ==
    ASSUME NEW c, Row(c.filters), NEW o, o = [services |-> buildServices(c), resources |-> buildResources(c)]
    PROVE  /\ o # NoObject /\ WasmCodeCluster \in o.resources.clusters
           /\ NamesIn(o.resources.listener.filters) = NamesIn(c.filters) \cup {Router.name}
<1>1. PICK f : f = c.filters  OBVIOUS
<1>2. PICK k \in Nat : k = Len(f) /\ DOMAIN f = 1..k  BY <1>1 DEF Row
<1>3. PICK g : g = [i \in 1..k |-> [name |-> f[i].name, cluster |-> c.cluster]]  BY Zenon
<1>4. PICK h : h = httpFilters(c)  OBVIOUS
<1>5. h = g \o <<Router>>  BY <1>1, <1>2, <1>3, <1>4, Zenon DEF httpFilters
<1>6. o.resources.listener.filters = h
  BY <1>4, Zenon DEF buildResources, gatewayListenerResource, serviceListenerResource
<1>7. NamesIn(h) = NamesIn(g) \cup {Router.name}
  <2>1. PICK S : S = {g[i] : i \in 1..k}  BY Zenon
  <2>2. g \in [1..k -> S] /\ DOMAIN g = 1..k  BY <1>3, <2>1, Zenon
  <2>3. g \in Seq({g[i] : i \in DOMAIN g})  BY ONLY <2>1, <2>2, k \in Nat, RowOf
  <2>. QED  BY ONLY <1>5, <2>3, NamesAppended, Zenon
<1>8. NamesIn(g) = NamesIn(f)  BY <1>2, <1>3, Zenon DEF NamesIn
<1>9. o # NoObject /\ WasmCodeCluster \in o.resources.clusters  BY Zenon DEF buildResources, NoObject
<1>. QED  BY <1>1, <1>6, <1>7, <1>8, <1>9, Zenon

-----------------------------------------------------------------------------
(* Frames: what a step must leave alone for a WAF's part of the invariant.  *)

\* What is deployed for a WAF is kept.
Kept(v) ==
    /\ \A n \in NamesOfWAF(v) : resources'[n] = resources[n]
    /\ ef'[v] = ef[v] /\ cec'[v] = cec[v] /\ index'[v] = index[v] /\ loaded' = loaded

\* What is served for it is kept.
Shown(v) == \A n \in NamesOfWAF(v) : snapshot'[n] = snapshot[n]

\* Whatever changes a WAF or the Secret it owns queues it.
Seen(v) ==
    Attended(v)' => /\ Attended(v) /\ waf'[v] = waf[v]
                    /\ SecretOf(v).owner = v \/ SecretOf(v)'.owner = v => SecretOf(v)' = SecretOf(v)

\* The worker stays where it is with the WAF, or goes on among the slots.
Moves(v) ==
    /\ Working(v)' => Working(v) /\ task'.copy = task.copy
    /\ ~Working(v)' => ~Working(v)
    /\ Working(v)' /\ task'.pc = "secret" => task.pc = "secret" /\ task'.seen = task.seen
    /\ Working(v)' /\ task'.pc = "build" => task.pc = "build" /\ task'.hmac = task.hmac
    /\ Working(v)' /\ task'.pc \in Slotting => task.pc \in Slotting

\* What is kept for a WAF is published, attached and detached as before.
LEMMA KeptSame ==
    ASSUME NEW v \in Wafs, Kept(v), NEW s, NEW p
    PROVE  /\ Detached(v, p)' <=> Detached(v, p)
           /\ Attached(v, s, p)' <=> Attached(v, s, p)
           /\ Shown(v) => (Published(v, s, p)' <=> Published(v, s, p))
<1>1. /\ ef'[v] = ef[v] /\ cec'[v] = cec[v] /\ index'[v] = index[v] /\ loaded' = loaded
      /\ \A n \in NamesOfWAF(v) : resources'[n] = resources[n]
  BY DEF Kept
<1>2. Detached(v, p)' <=> Detached(v, p)  BY <1>1, Zenon DEF Detached
<1>3. Attached(v, s, p)' <=> Attached(v, s, p)  BY <1>1, Zenon DEF Attached
<1>4. ASSUME Shown(v) PROVE Published(v, s, p)' <=> Published(v, s, p)
  <2>1. \A n \in NamesOfWAF(v) : snapshot'[n] = snapshot[n]  BY <1>4 DEF Shown
  <2>2. snapshot'[ExtensionName(v)] = snapshot[ExtensionName(v)]  BY <2>1, Zenon DEF NamesOfWAF
  <2>. QED  BY <1>1, <2>1, <2>2, Zenon DEF Published
<1>. QED  BY <1>2, <1>3, <1>4

\* A WAF that no step of the worker or of a user concerns stays as it is.
LEMMA Undisturbed ==
    ASSUME NEW v \in Wafs, WafInv(v), Kept(v), Seen(v),
           waf[v].live /\ waf[v].fin => waf'[v].live /\ waf'[v].fin,
           Attended(v)' => /\ Shown(v) /\ Moves(v)
                           /\ sts'[v].provider = sts[v].provider /\ sts'[v].sink = sts[v].sink
                           /\ otel /\ wafNeedsIstioAccessLog(v) => otel'
    PROVE  WafInv(v)'
<1>0. PICK P, S : P = sts[v].provider /\ S = waf[v].spec  OBVIOUS
<1>1. GoneOf(v)'
  <2>1. \A p \in Providers : Detached(v, p)' <=> Detached(v, p)  BY KeptSame, Zenon
  <2>2. \A n \in NamesOfWAF(v) : resources'[n] = resources[n]  BY Zenon DEF Kept
  <2>3. GoneOf(v)  BY Zenon DEF WafInv
  <2>. QED  BY <2>1, <2>2, <2>3, Zenon DEF GoneOf
<1>2. CASE ~Attended(v)'
  BY <1>1, <1>2, Zenon DEF WafInv, CopyOf, HMACOf, RestOf
<1>3. CASE Attended(v)'
  <2>1. /\ Attended(v) /\ waf'[v] = waf[v]
        /\ SecretOf(v).owner = v \/ SecretOf(v)'.owner = v => SecretOf(v)' = SecretOf(v)
    BY <1>3, Zenon DEF Seen
  <2>2. Shown(v) /\ Moves(v)  BY <1>3, Zenon
  <2>3. CopyOf(v)'  BY <2>1, <2>2, Zenon DEF CopyOf, Moves, WafInv
  <2>4. RestOf(v)'
    <3>1. CASE Working(v)'  BY <3>1, Zenon DEF RestOf
    <3>2. CASE ~Working(v)'
      <4>1. ~Working(v) /\ RestOf(v)  BY <2>2, <3>2, Zenon DEF Moves, WafInv
      <4>2. /\ Suits(P, S) /\ Published(v, S, P) /\ Attached(v, S, P)
            /\ \A q \in Providers \ {P} : Detached(v, q)
            /\ (sts[v].sink = "") <=> (S.telemetry # "Managed")
            /\ P = "Istio" /\ S.telemetry = "Managed" => otel
        BY <1>0, <2>1, <4>1, Zenon DEF RestOf
      <4>3. sts'[v].provider = P /\ sts'[v].sink = sts[v].sink /\ waf'[v].spec = S  BY <1>0, <1>3, <2>1, Zenon
      <4>4. Published(v, S, P)' /\ Attached(v, S, P)'  BY <2>2, <4>2, KeptSame, Zenon
      <4>5. \A q \in Providers \ {P} : Detached(v, q)'  BY <4>2, KeptSame, Zenon
      <4>6. P = "Istio" /\ S.telemetry = "Managed" => otel'
        BY <1>0, <1>3, <2>1, <4>2, Zenon DEF wafNeedsIstioAccessLog, Suits, Attended
      <4>. QED  BY <4>2, <4>3, <4>4, <4>5, <4>6, Zenon DEF RestOf, Published, Attached, Detached
    <3>. QED  BY <3>1, <3>2, Zenon
  <2>5. HMACOf(v)'
    <3>. SUFFICES ASSUME waf'[v].spec.challenge = "managed"
                  PROVE  /\ Working(v)' /\ task'.pc = "secret" =>
                              (SecretOf(v)'.owner = v \/ task'.seen.owner = v => SecretOf(v)' = task'.seen)
                         /\ Working(v)' /\ task'.pc = "build" => Matches(v, task.hmac)'
                         /\ ~Working(v)' \/ task'.pc \in Slotting =>
                              /\ Matches(v, snapshot[ChallengeExtensionName(v)].plugin.secret)'
                              /\ resources'[ChallengeExtensionName(v)] = snapshot'[ChallengeExtensionName(v)]
      BY Zenon DEF HMACOf
    <3>1. /\ Working(v) /\ task.pc = "secret" =>
               (SecretOf(v).owner = v \/ task.seen.owner = v => SecretOf(v) = task.seen)
          /\ Working(v) /\ task.pc = "build" => Matches(v, task.hmac)
          /\ ~Working(v) \/ task.pc \in Slotting =>
               /\ Matches(v, snapshot[ChallengeExtensionName(v)].plugin.secret)
               /\ resources[ChallengeExtensionName(v)] = snapshot[ChallengeExtensionName(v)]
      BY <2>1, Zenon DEF WafInv, HMACOf
    <3>3. /\ snapshot'[ChallengeExtensionName(v)] = snapshot[ChallengeExtensionName(v)]
          /\ resources'[ChallengeExtensionName(v)] = resources[ChallengeExtensionName(v)]
      BY <2>2, Zenon DEF Shown, Kept, NamesOfWAF
    <3>4. ASSUME Working(v)', task'.pc = "secret", SecretOf(v)'.owner = v \/ task'.seen.owner = v
          PROVE  SecretOf(v)' = task'.seen
      <4>1. Working(v) /\ task.pc = "secret" /\ task'.seen = task.seen  BY <2>2, <3>4, Zenon DEF Moves
      <4>. QED  BY <2>1, <3>1, <3>4, <4>1, Zenon
    <3>5. ASSUME Working(v)', task'.pc = "build" PROVE Matches(v, task.hmac)'
      <4>1. Working(v) /\ task.pc = "build" /\ task'.hmac = task.hmac  BY <2>2, <3>5, Zenon DEF Moves
      <4>. QED  BY <2>1, <3>1, <4>1, Zenon DEF Matches
    <3>6. ASSUME ~Working(v)' \/ task'.pc \in Slotting
          PROVE  /\ Matches(v, snapshot[ChallengeExtensionName(v)].plugin.secret)'
                 /\ resources'[ChallengeExtensionName(v)] = snapshot'[ChallengeExtensionName(v)]
      <4>1. ~Working(v) \/ task.pc \in Slotting  BY <2>2, <3>6, Zenon DEF Moves
      <4>. QED  BY <2>1, <3>1, <3>3, <4>1, Zenon DEF Matches
    <3>. QED  BY <3>4, <3>5, <3>6, Zenon
  <2>. QED  BY <1>1, <2>3, <2>4, <2>5, Zenon DEF WafInv
<1>. QED  BY <1>2, <1>3, Zenon

\* What TaskInv says of a worker that waits while others act.
LEMMA TaskStays ==
    ASSUME TaskInv, TInv, task' = task,
           task.pc # "idle" => Kept(task.waf) /\ Shown(task.waf) /\ (waf[task.waf].del => waf'[task.waf].del),
           otel' = otel,
           \A v \in Wafs : v \in kq' \/ (v \notin kq /\ waf'[v] = waf[v])
    PROVE  TaskInv'
<1>1. CASE task.pc = "idle"
  BY <1>1, Zenon DEF TaskInv, Slotting
<1>2. CASE task.pc # "idle"
  <2>1. PICK w, s, p : w = task.waf /\ s = task.copy.spec /\ p = task.cfg.provider  OBVIOUS
  <2>2. w \in Wafs /\ Kept(w) /\ Shown(w)  BY <1>2, <2>1, Zenon DEF TInv, PartsT, HeldT
  <2>3. Ensured' <=> Ensured  BY DEF Ensured
  <2>4. \A q \in Providers : Detached(w, q)' <=> Detached(w, q)  BY <2>2, KeptSame, Zenon
  <2>5. (Published(w, s, p)' <=> Published(w, s, p)) /\ (Attached(w, s, p)' <=> Attached(w, s, p))
    BY <2>2, KeptSame, Zenon
  <2>6. Attaching => Attaching'
    BY <2>1, <2>3, <2>4, <2>5, Zenon DEF Attaching
  <2>7. ASSUME Deleting PROVE Deleting'
    <3>1. /\ ~Ensured /\ waf[w].del /\ \A n \in NamesOfWAF(w) : resources[n] = NoTEC
          /\ \A q \in Providers \ task.todo : Detached(w, q)
      BY <2>1, <2>7, Zenon DEF Deleting
    <3>2. waf'[w].del /\ \A n \in NamesOfWAF(w) : resources'[n] = NoTEC
      BY <1>2, <2>1, <2>2, <3>1, Zenon DEF Kept
    <3>3. ASSUME task.pc = "others", "Istio" \notin task.todo, otel
          PROVE  \E v \in Wafs \ {w} : wafNeedsIstioAccessLog(v)' \/ v \in kq'
      <4>1. PICK v \in Wafs \ {w} : wafNeedsIstioAccessLog(v) \/ v \in kq  BY <2>1, <2>7, <3>3, Zenon DEF Deleting
      <4>2. CASE v \in kq'  BY <4>2, Zenon
      <4>3. CASE waf'[v] = waf[v] /\ v \notin kq  BY <4>1, <4>3, Zenon DEF wafNeedsIstioAccessLog
      <4>. QED  BY <4>2, <4>3, Zenon
    <3>. QED  BY <2>1, <2>3, <2>4, <3>1, <3>2, <3>3, Zenon DEF Deleting
  <2>8. ASSUME NEW v \in Wafs, Attended(v)' PROVE Attended(v) /\ waf'[v] = waf[v]
    BY <2>8, Zenon DEF Attended
  <2>9. task.pc = "delete" => \A v \in Wafs \ {w} : Attended(v)' => ~wafNeedsIstioAccessLog(v)'
    BY <2>1, <2>8, Zenon DEF TaskInv, wafNeedsIstioAccessLog
  <2>. QED  BY <2>1, <2>6, <2>7, <2>9, Zenon DEF TaskInv
<1>. QED  BY <1>1, <1>2

-----------------------------------------------------------------------------
(* The steps of users and of failures.                                      *)

\* A step that leaves the worker and all that is deployed alone.
LEMMA Waits ==
    ASSUME SInv, UNCHANGED <<slots, memory, task>>,
           \A v \in Wafs :
              /\ waf[v].live /\ waf[v].fin => waf'[v].live /\ waf'[v].fin
              /\ waf[v].del => waf'[v].del
              /\ sts'[v].provider = sts[v].provider /\ sts'[v].sink = sts[v].sink
              /\ v \in kq' \/ /\ v \notin kq /\ waf'[v] = waf[v]
                              /\ SecretOf(v).owner = v \/ SecretOf(v)'.owner = v => SecretOf(v)' = SecretOf(v)
    PROVE  TaskInv' /\ WafsInv'
<1>. USE DEF slots, memory
<1>1. \A v \in Wafs : Kept(v) /\ Shown(v)  BY Zenon DEF Kept, Shown
<1>2. TaskInv'
  <2>1. TaskInv /\ TInv  BY Zenon DEF SInv
  <2>2. task.pc # "idle" => Kept(task.waf) /\ Shown(task.waf) /\ (waf[task.waf].del => waf'[task.waf].del)
    BY <1>1, <2>1, Zenon DEF TInv, PartsT, HeldT
  <2>3. \A v \in Wafs : v \in kq' \/ (v \notin kq /\ waf'[v] = waf[v])  BY Zenon
  <2>4. task' = task /\ otel' = otel  BY Zenon
  <2>. QED  BY ONLY <2>1, <2>2, <2>3, <2>4, TaskStays, Zenon
<1>3. ASSUME NEW v \in Wafs PROVE WafInv(v)'
  <2>1. WafInv(v) /\ Kept(v) /\ Shown(v)  BY <1>1, Zenon DEF SInv, WafsInv
  <2>2. Moves(v)  BY Zenon DEF Moves, Working
  <2>3. Seen(v)  BY Zenon DEF Seen, Attended
  <2>4. /\ waf[v].live /\ waf[v].fin => waf'[v].live /\ waf'[v].fin
        /\ sts'[v].provider = sts[v].provider /\ sts'[v].sink = sts[v].sink /\ otel' = otel
    BY Zenon
  <2>. QED  BY ONLY <2>1, <2>2, <2>3, <2>4, v \in Wafs, Undisturbed, Zenon
<1>. QED  BY <1>2, <1>3, Zenon DEF WafsInv

\* What SInv says, for the steps below.
LEMMA InvParts ==
    ASSUME SInv
    PROVE  /\ WafsOK /\ task = Named(task) /\ PartsT /\ HeldT /\ SecretsT /\ StatusT /\ ObjectsT /\ TaskInv /\ WafsInv
           /\ task.pc \in Pcs /\ (task.pc # "idle" => task.waf \in Wafs)
BY Zenon DEF SInv, TInv, TaskOK, PartsT, HeldT

\* The Secret of a WAF is one the model has.
LEMMA SecretIs == ASSUME NEW v \in Wafs PROVE ManagedChallengeSecretName(v) \in SecretNames
BY Zenon DEF ManagedChallengeSecretName, SecretNames

\* A WAF is queued by every change of its spec, its deletion and every change of the Secret
\* it owns (the For and Owns watches), and by a reconcile that adds the finalizer or finds
\* no HMAC.
LEMMA UserRests ==
    ASSUME SInv,
           \/ \E w \in Wafs : \/ (\E s \in WafSpecs : ApplyWAF(w, s)) \/ DeleteWAF(w) \/ PeerCreates(w)
                              \/ ReconcileBegin(w) /\ UNCHANGED task
           \/ \E n \in SecretNames : (\E new : EditSecret(n, new)) \/ GarbageCollect(n)
           \/ \E d \in ObsStates : EditObservability(d)
    PROVE  TaskInv' /\ WafsInv'
<1>. USE DEF memory, slots
<1>0. WafsOK /\ SecretsT /\ StatusT  BY InvParts
<1>n. \A v \in Wafs : v # "none"  BY NamesAssumption
<1>1. ASSUME NEW w \in Wafs, NEW s \in WafSpecs, ApplyWAF(w, s) PROVE TaskInv' /\ WafsInv'
  <2>1. /\ waf' = [waf EXCEPT ![w].live = TRUE, ![w].spec = s] /\ kq' = kq \cup {w}
        /\ UNCHANGED <<slots, memory, task, sts, secrets>>
    BY <1>1, Zenon DEF ApplyWAF
  <2>2. \A v \in Wafs : /\ waf[v].live /\ waf[v].fin => waf'[v].live /\ waf'[v].fin
                        /\ waf[v].del => waf'[v].del
                        /\ v # w => waf'[v] = waf[v]
    BY <1>0, <2>1 DEF WafsOK, WAFObject
  <2>. QED  BY <2>1, <2>2, Waits, Zenon DEF SecretOf
<1>2. ASSUME NEW w \in Wafs, DeleteWAF(w) PROVE TaskInv' /\ WafsInv'
  <2>1. /\ waf' = [waf EXCEPT ![w] = IF waf[w].fin THEN [waf[w] EXCEPT !.del = TRUE] ELSE NoWaf] /\ kq' = kq \cup {w}
        /\ ~waf[w].del /\ UNCHANGED <<slots, memory, task, sts, secrets>>
    BY <1>2 DEF DeleteWAF
  <2>2. \A v \in Wafs : /\ waf[v].live /\ waf[v].fin => waf'[v].live /\ waf'[v].fin
                        /\ waf[v].del => waf'[v].del
                        /\ v # w => waf'[v] = waf[v]
    BY <1>0, <2>1 DEF WafsOK, WAFObject
  <2>. QED  BY <2>1, <2>2, Waits, Zenon DEF SecretOf
<1>3. ASSUME NEW w \in Wafs, PeerCreates(w) PROVE TaskInv' /\ WafsInv'
  <2>0. PICK m, g : m = ManagedChallengeSecretName(w) /\ g = generateChallengeHMAC  OBVIOUS
  <2>1. /\ secrets' = [secrets EXCEPT ![m] = Owned(w, g)] /\ kq' = kq \cup {w} /\ secrets[m] = NoSecret
        /\ UNCHANGED <<slots, memory, task, sts, waf>>
    BY <1>3, <2>0, Zenon DEF PeerCreates
  <2>2. ASSUME NEW v \in Wafs, v # w
        PROVE  SecretOf(v).owner = v \/ SecretOf(v)'.owner = v => SecretOf(v)' = SecretOf(v)
    <3>1. PICK n \in SecretNames : n = ManagedChallengeSecretName(v)  BY SecretIs, Zenon
    <3>2. secrets'[n] = IF n = m THEN Owned(w, g) ELSE secrets[n]  BY <1>0, <2>1, Zenon DEF SecretsT
    <3>3. Owned(w, g).owner # v /\ NoSecret.owner # v  BY <1>n, <2>2, Zenon DEF Owned, NoSecret
    <3>. QED  BY <2>1, <3>1, <3>2, <3>3, Zenon DEF SecretOf
  <2>. QED  BY <2>1, <2>2, Waits, Zenon
<1>4. ASSUME NEW w \in Wafs, ReconcileBegin(w), UNCHANGED task PROVE TaskInv' /\ WafsInv'
  <2>1. /\ UNCHANGED <<slots, memory, task, secrets>> /\ kq' = kq \cup {w}
        /\ \/ waf' = [waf EXCEPT ![w].fin = TRUE] /\ UNCHANGED sts
           \/ UNCHANGED waf /\ sts' = [sts EXCEPT ![w].ready = FALSE]
    <3>1. task.pc = "idle"  BY <1>4, Zenon DEF ReconcileBegin
    <3>2. PICK b : b = Begun(w)  OBVIOUS
    <3>3. b = Named(b) /\ b.pc = "build"  BY ONLY <3>2, BegunOK, ZenonT(60)
    <3>4. \A x : [b EXCEPT !.pc = "secret", !.seen = x].pc = "secret" /\ [b EXCEPT !.hmac = x].pc = "build"
      BY <3>3 DEF Named
    <3>5. \A x : task' # [Begun(w) EXCEPT !.pc = "secret", !.seen = x] /\ task' # [Begun(w) EXCEPT !.hmac = x]
      BY <1>4, <3>1, <3>2, <3>4, Zenon
    <3>. QED  BY <1>4, <3>5, Zenon DEF ReconcileBegin, markNotReady
  <2>2. \A v \in Wafs : /\ waf[v].live /\ waf[v].fin => waf'[v].live /\ waf'[v].fin
                        /\ waf[v].del => waf'[v].del
                        /\ v # w => waf'[v] = waf[v]
                        /\ sts'[v].provider = sts[v].provider /\ sts'[v].sink = sts[v].sink
    <3>1. CASE waf' = [waf EXCEPT ![w].fin = TRUE] /\ UNCHANGED sts  BY <1>0, <3>1 DEF WafsOK, WAFObject
    <3>2. CASE UNCHANGED waf /\ sts' = [sts EXCEPT ![w].ready = FALSE]  BY <1>0, <3>2, Zenon DEF StatusT
    <3>. QED  BY <2>1, <3>1, <3>2, Zenon
  <2>. QED  BY <2>1, <2>2, Waits, Zenon DEF SecretOf
<1>5. ASSUME NEW n \in SecretNames, NEW new, secrets' = [secrets EXCEPT ![n] = new], kq' = kq \cup OwnerOf(n),
             new.owner \in {"none", secrets[n].owner}, UNCHANGED <<waf, sts, slots, memory, task>>
      PROVE  TaskInv' /\ WafsInv'
  <2>1. ASSUME NEW v \in Wafs
        PROVE  v \in kq' \/ (SecretOf(v).owner = v \/ SecretOf(v)'.owner = v => SecretOf(v)' = SecretOf(v))
    <3>1. PICK m \in SecretNames : m = ManagedChallengeSecretName(v)  BY SecretIs, Zenon
    <3>2. secrets'[m] = IF m = n THEN new ELSE secrets[m]  BY <1>0, <1>5, Zenon DEF SecretsT
    <3>3. CASE m = n  BY <1>5, <1>n, <3>1, <3>2, <3>3, Zenon DEF SecretOf, OwnerOf
    <3>4. CASE m # n  BY <3>1, <3>2, <3>4, Zenon DEF SecretOf
    <3>. QED  BY <3>3, <3>4, Zenon
  <2>. QED  BY <1>5, <2>1, Waits, Zenon
<1>6. ASSUME NEW n \in SecretNames, NEW new, EditSecret(n, new) PROVE TaskInv' /\ WafsInv'
  <2>1. /\ secrets' = [secrets EXCEPT ![n] = new] /\ kq' = kq \cup OwnerOf(n)
        /\ new \in {NoSecret, [secrets[n] EXCEPT !.val = "short"], [NoSecret EXCEPT !.val = "user-hmac"]}
        /\ UNCHANGED <<waf, sts, slots, memory, task>>
    BY <1>6 DEF EditSecret
  <2>2. NoSecret.owner = "none" /\ [NoSecret EXCEPT !.val = "user-hmac"].owner = "none"  BY DEF NoSecret
  <2>3. [secrets[n] EXCEPT !.val = "short"].owner = secrets[n].owner
    <3>1. PICK r, v, o, b : r = secrets[n] /\ r = [val |-> v, owner |-> o, stale |-> b]  BY <1>0, Zenon DEF SecretsT
    <3>2. [r EXCEPT !.val = "short"].owner = r.owner  BY <3>1
    <3>. QED  BY <3>1, <3>2
  <2>. QED  BY <1>5, <2>1, <2>2, <2>3, Zenon
<1>7. ASSUME NEW n \in SecretNames, GarbageCollect(n) PROVE TaskInv' /\ WafsInv'
  <2>1. secrets' = [secrets EXCEPT ![n] = NoSecret] /\ kq' = kq \cup OwnerOf(n)
        /\ UNCHANGED <<waf, sts, slots, memory, task>>
    BY <1>7, Zenon DEF GarbageCollect
  <2>2. NoSecret.owner = "none"  BY Zenon DEF NoSecret
  <2>. QED  BY <1>5, <2>1, <2>2, Zenon
<1>8. ASSUME NEW d, EditObservability(d) PROVE TaskInv' /\ WafsInv'
  <2>1. kq' = kq \cup requestsForManagedWAFs /\ UNCHANGED <<slots, memory, task, sts, waf, secrets>>
    BY <1>8, Zenon DEF EditObservability
  <2>. QED  BY <2>1, Waits, Zenon DEF SecretOf
<1>. QED  BY <1>1, <1>2, <1>3, <1>4, <1>6, <1>7, <1>8, Zenon

-----------------------------------------------------------------------------
(* The steps of the worker among the slots.                                 *)

\* A WAF the worker does not have in hand.
LEMMA Bystander ==
    ASSUME NEW v \in Wafs, WafInv(v), ~Working(v), ~Working(v)', Kept(v), waf'[v] = waf[v], v \in kq => v \in kq',
           SecretOf(v).owner = v \/ SecretOf(v)'.owner = v => SecretOf(v)' = SecretOf(v),
           Attended(v) => /\ Shown(v) /\ sts'[v] = sts[v]
                          /\ otel /\ wafNeedsIstioAccessLog(v) => otel'
    PROVE  WafInv(v)'
<1>1. Attended(v)' => Attended(v)  BY Zenon DEF Attended
<1>2. Seen(v)  BY <1>1, Zenon DEF Seen
<1>3. Moves(v)  BY Zenon DEF Moves
<1>4. waf[v].live /\ waf[v].fin => waf'[v].live /\ waf'[v].fin  BY Zenon
<1>. QED  BY <1>1, <1>2, <1>3, <1>4, Undisturbed, Zenon

\* A step on the slots of the worker's WAF leaves what WAFs have: their own part is the
\* worker's to see to, the others only share the access log with it.
LEMMA SlotRests ==
    ASSUME SInv, UNCHANGED <<waf, sts, secrets, loaded, resources, snapshot, kq>>,
           task.pc \in Slotting, task'.pc \in Slotting, task'.waf = task.waf, task'.copy = task.copy,
           \A v \in Wafs \ {task.waf} : /\ ef'[v] = ef[v] /\ cec'[v] = cec[v] /\ index'[v] = index[v]
                                        /\ otel /\ Attended(v) /\ wafNeedsIstioAccessLog(v) => otel'
    PROVE  WafsInv'
<1>0. HeldT /\ WafsInv /\ task.pc # "idle" /\ task'.pc # "idle"  BY InvParts, Zenon DEF Slotting
<1>1. ASSUME NEW v \in Wafs, v # task.waf PROVE WafInv(v)'
  <2>1. WafInv(v) /\ ~Working(v) /\ ~Working(v)'  BY <1>0, <1>1, Zenon DEF WafsInv, Working
  <2>2. Kept(v) /\ Shown(v) /\ SecretOf(v)' = SecretOf(v)  BY <1>1, Zenon DEF Kept, Shown, SecretOf
  <2>. QED  BY <1>1, <2>1, <2>2, Bystander, Zenon
<1>2. ASSUME NEW v \in Wafs, v = task.waf PROVE WafInv(v)'
  <2>1. WafInv(v) /\ Working(v) /\ Working(v)' /\ (Attended(v)' <=> Attended(v))  BY <1>0, <1>2, Zenon DEF WafsInv, Working, Attended
  <2>2. CopyOf(v)'  BY <2>1, Zenon DEF WafInv, CopyOf
  <2>3. RestOf(v)'  BY <2>1, Zenon DEF RestOf
  <2>4. GoneOf(v)'  BY <1>0, <1>2, Zenon DEF HeldT, GoneOf
  <2>5. HMACOf(v)'
    <3>1. task'.pc \notin {"secret", "build"}  BY Zenon DEF Slotting
    <3>2. \A x : Matches(v, x)' <=> Matches(v, x)  BY Zenon DEF Matches, SecretOf
    <3>3. Attended(v) /\ waf[v].spec.challenge = "managed" =>
             /\ Matches(v, snapshot[ChallengeExtensionName(v)].plugin.secret)
             /\ resources[ChallengeExtensionName(v)] = snapshot[ChallengeExtensionName(v)]
      BY <2>1, Zenon DEF WafInv, HMACOf
    <3>4. Matches(v, snapshot[ChallengeExtensionName(v)].plugin.secret)' <=>
             Matches(v, snapshot[ChallengeExtensionName(v)].plugin.secret)
      BY Zenon DEF Matches, SecretOf
    <3>. QED  BY <2>1, <3>1, <3>3, <3>4, Zenon DEF HMACOf
  <2>. QED  BY <2>2, <2>3, <2>4, <2>5, Zenon DEF WafInv
<1>. QED  BY <1>1, <1>2, Zenon DEF WafsInv

\* What is left to show of a step on the slots of the worker's WAF.
LEMMA SlotTask ==
    ASSUME TaskInv, NEW w, NEW s, NEW c, w = task.waf, s = task.copy.spec, c = task.cfg,
           UNCHANGED <<waf, kq, loaded, resources, snapshot>>,
           task.pc \in Slotting, task'.pc \in Slotting, task'.waf = w, task'.copy = task.copy, task'.cfg = c,
           task'.todo \subseteq task.todo,
           \A p \in Providers \ task'.todo : Detached(w, p)' \/ (p = c.provider /\ ~task.copy.del),
           ~task.copy.del =>
              /\ Ensured' => task'.todo = {} /\ Attached(w, s, c.provider)'
              /\ task'.pc = "otel" => c.provider = "Istio" /\ c.managed
              /\ task'.pc \in {"maybe", "delete"} => ~(c.provider = "Istio" /\ c.managed)
              /\ task'.pc = "status" => (c.provider = "Istio" /\ c.managed => otel'),
           task.copy.del =>
              /\ ~Ensured'
              /\ task'.pc = "others" /\ "Istio" \notin task'.todo /\ otel' =>
                   \E v \in Wafs \ {w} : wafNeedsIstioAccessLog(v) \/ v \in kq,
           task'.pc = "delete" => \A v \in Wafs \ {w} : Attended(v) => ~wafNeedsIstioAccessLog(v)
    PROVE  TaskInv'
<1>1. task'.pc \notin {"idle", "secret", "build"} /\ task.pc # "idle"  BY Zenon DEF Slotting
<1>2. \A v : (wafNeedsIstioAccessLog(v)' <=> wafNeedsIstioAccessLog(v)) /\ (Attended(v)' <=> Attended(v))
  BY Zenon DEF wafNeedsIstioAccessLog, Attended
<1>3. ASSUME ~task.copy.del PROVE Attaching'
  <2>1. Compiled(c, w, s) /\ Published(w, s, c.provider) /\ c.provider \notin task.todo
    BY <1>3, Zenon DEF TaskInv, Attaching
  <2>2. Published(w, s, c.provider)'  BY <2>1, Zenon DEF Published
  <2>3. /\ Ensured' => task'.todo = {} /\ Attached(w, s, c.provider)'
        /\ task'.pc = "otel" => c.provider = "Istio" /\ c.managed
        /\ task'.pc \in {"maybe", "delete"} => ~(c.provider = "Istio" /\ c.managed)
        /\ task'.pc = "status" => (c.provider = "Istio" /\ c.managed => otel')
    BY <1>3, Zenon
  <2>4. c.provider \notin task'.todo /\ \A p \in Providers \ (task'.todo \cup {c.provider}) : Detached(w, p)'
    BY <2>1, Zenon
  <2>5. task'.waf = w /\ task'.copy.spec = s /\ task'.cfg = c  BY Zenon
  <2>. QED  BY ONLY <2>1, <2>2, <2>3, <2>4, <2>5, Zenon DEF Attaching, Published, Attached, Detached
<1>4. ASSUME task.copy.del PROVE Deleting'
  <2>1. waf[w].del /\ \A n \in NamesOfWAF(w) : resources[n] = NoTEC  BY <1>1, <1>4, Zenon DEF TaskInv, Deleting
  <2>2. \A p \in Providers \ task'.todo : Detached(w, p)'  BY <1>4, Zenon
  <2>3. /\ ~Ensured'
        /\ task'.pc = "others" /\ "Istio" \notin task'.todo /\ otel' =>
             \E v \in Wafs \ {w} : wafNeedsIstioAccessLog(v)' \/ v \in kq'
    BY <1>2, <1>4, Zenon
  <2>4. task'.waf = w /\ waf' = waf /\ resources' = resources  BY Zenon
  <2>. QED  BY ONLY <2>1, <2>2, <2>3, <2>4, Zenon DEF Deleting, Detached
<1>5. task'.pc = "delete" => \A v \in Wafs \ {w} : Attended(v)' => ~wafNeedsIstioAccessLog(v)'  BY <1>2, Zenon
<1>6. task'.waf = w /\ task'.copy = task.copy  BY Zenon
<1>. QED  BY ONLY <1>1, <1>3, <1>4, <1>5, <1>6, Zenon DEF TaskInv

\* The worker that detaches its WAF keeps to what is published (DeleteOthers, DeleteAll).
LEMMA DetachRests ==
    ASSUME SInv, DeleteEnvoyFilter \/ DeleteCiliumEnvoyConfig \/ egDelete
    PROVE  TaskInv' /\ WafsInv'
<1>. USE DEF memory, slots
<1>0. task = Named(task) /\ ObjectsT /\ TaskInv /\ (task.pc # "idle" => task.waf \in Wafs)  BY InvParts
<1>1. PICK w, s, c : w = task.waf /\ s = task.copy.spec /\ c = task.cfg  OBVIOUS
<1>2. /\ task.pc = "others" /\ UNCHANGED <<waf, sts, secrets, loaded, resources, snapshot, kq, otel>>
      /\ task'.waf = w /\ task'.copy = task.copy /\ task'.cfg = c
      /\ \E p \in Providers :
            /\ p \in task.todo /\ task'.todo = task.todo \ {p} /\ task'.pc = (IF p = "Istio" THEN "maybe" ELSE "others")
            /\ p = "Istio" => task'.ret = "others"
            /\ ef' = IF p = "Istio" THEN [ef EXCEPT ![w] = NoObject] ELSE ef
            /\ cec' = IF p = "Cilium" THEN [cec EXCEPT ![w] = NoObject] ELSE cec
            /\ index' = IF p = "EnvoyGateway" THEN [index EXCEPT ![w] = NoObject] ELSE index
  <2>1. CASE DeleteEnvoyFilter
    <3>1. /\ ef' = [ef EXCEPT ![w] = NoObject] /\ UNCHANGED <<cec, index>> /\ "Istio" \in task.todo /\ task.pc = "others"
          /\ task' = [task EXCEPT !.pc = "maybe", !.ret = "others", !.todo = @ \ {"Istio"}]
          /\ UNCHANGED <<waf, sts, secrets, loaded, resources, snapshot, kq, otel>>
      BY <1>1, <2>1, Zenon DEF DeleteEnvoyFilter
    <3>2. /\ task'.waf = w /\ task'.copy = task.copy /\ task'.cfg = c /\ task'.pc = "maybe" /\ task'.ret = "others"
          /\ task'.todo = task.todo \ {"Istio"}
      BY <1>0, <1>1, <3>1 DEF Named
    <3>. QED  BY <3>1, <3>2 DEF Providers
  <2>2. CASE DeleteCiliumEnvoyConfig
    <3>1. /\ cec' = [cec EXCEPT ![w] = NoObject] /\ UNCHANGED <<ef, index>> /\ "Cilium" \in task.todo /\ task.pc = "others"
          /\ task' = [task EXCEPT !.todo = @ \ {"Cilium"}]
          /\ UNCHANGED <<waf, sts, secrets, loaded, resources, snapshot, kq, otel>>
      BY <1>1, <2>2 DEF DeleteCiliumEnvoyConfig
    <3>2. /\ task'.waf = w /\ task'.copy = task.copy /\ task'.cfg = c /\ task'.pc = "others"
          /\ task'.todo = task.todo \ {"Cilium"}
      BY <1>0, <1>1, <3>1 DEF Named
    <3>. QED  BY <3>1, <3>2 DEF Providers
  <2>3. CASE egDelete
    <3>1. /\ index' = [index EXCEPT ![w] = NoObject] /\ UNCHANGED <<ef, cec>> /\ "EnvoyGateway" \in task.todo
          /\ task.pc = "others" /\ task' = [task EXCEPT !.todo = @ \ {"EnvoyGateway"}]
          /\ UNCHANGED <<waf, sts, secrets, loaded, resources, snapshot, kq, otel>>
      BY <1>1, <2>3 DEF egDelete, IndexDelete
    <3>2. /\ task'.waf = w /\ task'.copy = task.copy /\ task'.cfg = c /\ task'.pc = "others"
          /\ task'.todo = task.todo \ {"EnvoyGateway"}
      BY <1>0, <1>1, <3>1, Zenon DEF Named
    <3>. QED  BY <3>1, <3>2 DEF Providers
  <2>. QED  BY <2>1, <2>2, <2>3, Zenon
<1>3. PICK p \in Providers :
         /\ p \in task.todo /\ task'.todo = task.todo \ {p} /\ task'.pc = (IF p = "Istio" THEN "maybe" ELSE "others")
         /\ p = "Istio" => task'.ret = "others"
         /\ ef' = IF p = "Istio" THEN [ef EXCEPT ![w] = NoObject] ELSE ef
         /\ cec' = IF p = "Cilium" THEN [cec EXCEPT ![w] = NoObject] ELSE cec
         /\ index' = IF p = "EnvoyGateway" THEN [index EXCEPT ![w] = NoObject] ELSE index
  BY <1>2, Zenon
<1>4. /\ task'.pc = (IF p = "Istio" THEN "maybe" ELSE "others") /\ task'.todo = task.todo \ {p}
      /\ task'.waf = w /\ task'.copy = task.copy /\ task'.cfg = c /\ (p = "Istio" => task'.ret = "others")
  BY <1>2, <1>3, Zenon
<1>5. w \in Wafs /\ task.pc \in Slotting /\ task'.pc \in {"maybe", "others"} /\ task'.pc \in Slotting
  BY <1>0, <1>1, <1>2, <1>4, Zenon DEF Slotting
<1>6. /\ ef'[w] = (IF p = "Istio" THEN NoObject ELSE ef[w])
      /\ cec'[w] = (IF p = "Cilium" THEN NoObject ELSE cec[w])
      /\ index'[w] = (IF p = "EnvoyGateway" THEN NoObject ELSE index[w])
      /\ \A v \in Wafs \ {w} : ef'[v] = ef[v] /\ cec'[v] = cec[v] /\ index'[v] = index[v]
  BY <1>0, <1>3, <1>5, Zenon DEF ObjectsT
<1>7. WafsInv'  BY <1>1, <1>2, <1>4, <1>5, <1>6, SlotRests, Zenon
<1>8. \A q \in Providers : (q = p => Detached(w, q)') /\ (Detached(w, q) => Detached(w, q)')  BY <1>6, Zenon DEF Detached
<1>9. ~Ensured' /\ task'.pc \notin {"otel", "status", "delete"}  BY <1>4, <1>5, Zenon DEF Ensured
<1>10. ASSUME ~task.copy.del
       PROVE  /\ c.provider # p /\ \A q \in Providers \ (task.todo \cup {c.provider}) : Detached(w, q)
              /\ task'.pc = "maybe" => c.provider # "Istio"
  <2>1. Attaching  BY <1>0, <1>5, <1>10, Zenon DEF TaskInv
  <2>. QED  BY <1>1, <1>3, <1>4, <2>1, Zenon DEF Attaching
<1>11. ASSUME task.copy.del
       PROVE  /\ \A q \in Providers \ task.todo : Detached(w, q)
              /\ "Istio" \notin task.todo /\ otel => \E v \in Wafs \ {w} : wafNeedsIstioAccessLog(v) \/ v \in kq
  <2>1. Deleting  BY <1>0, <1>2, <1>11, Zenon DEF TaskInv
  <2>. QED  BY <1>1, <1>2, <2>1, Zenon DEF Deleting
<1>12. \A q \in Providers \ task'.todo : Detached(w, q)' \/ (q = c.provider /\ ~task.copy.del)
  BY <1>4, <1>8, <1>10, <1>11, Zenon
<1>13. task'.pc = "others" /\ "Istio" \notin task'.todo => "Istio" \notin task.todo  BY <1>4, Zenon
<1>14. TaskInv'
  <2>1. task'.todo \subseteq task.todo  BY <1>4, Zenon
  <2>2. task.copy.del =>
           /\ ~Ensured'
           /\ task'.pc = "others" /\ "Istio" \notin task'.todo /\ otel' =>
                \E v \in Wafs \ {w} : wafNeedsIstioAccessLog(v) \/ v \in kq
    BY <1>2, <1>9, <1>11, <1>13, Zenon
  <2>3. ~task.copy.del =>
           /\ Ensured' => task'.todo = {} /\ Attached(w, s, c.provider)'
           /\ task'.pc = "otel" => c.provider = "Istio" /\ c.managed
           /\ task'.pc \in {"maybe", "delete"} => ~(c.provider = "Istio" /\ c.managed)
           /\ task'.pc = "status" => (c.provider = "Istio" /\ c.managed => otel')
    BY <1>9, <1>10, Zenon
  <2>4. task'.pc = "delete" => \A v \in Wafs \ {w} : Attended(v) => ~wafNeedsIstioAccessLog(v)  BY <1>9
  <2>5. /\ UNCHANGED <<waf, kq, loaded, resources, snapshot>> /\ task.pc \in Slotting /\ task'.pc \in Slotting
        /\ task'.waf = w /\ task'.copy = task.copy /\ task'.cfg = c
    BY <1>1, <1>2, <1>4, <1>5, Zenon
  <2>6. TaskInv  BY <1>0
  <2>. QED  BY ONLY <1>1, <1>12, <2>1, <2>2, <2>3, <2>4, <2>5, <2>6, SlotTask, Zenon
<1>. QED  BY <1>7, <1>14, Zenon

\* The access log goes only while no attended WAF needs it, and a worker that deletes its
\* WAF leaves it only to one that does (MaybeDeleteOTelAccessLogEnvoyFilter).
LEMMA AccessLogRests ==
    ASSUME SInv, MaybeDeleteOTelAccessLogEnvoyFilter \/ deleteAccessLogEnvoyFilter
    PROVE  TaskInv' /\ WafsInv'
<1>. USE DEF memory, slots
<1>0. task = Named(task) /\ HeldT /\ TaskInv /\ (task.pc # "idle" => task.waf \in Wafs)  BY InvParts
<1>1. PICK w, s, c : w = task.waf /\ s = task.copy.spec /\ c = task.cfg  OBVIOUS
<1>2. /\ task.pc \in {"maybe", "delete"}
      /\ UNCHANGED <<waf, sts, secrets, loaded, resources, snapshot, kq, ef, cec, index>>
      /\ \/ /\ task' = [task EXCEPT !.pc = task.ret] /\ otel' = otel /\ task.pc = "maybe"
            /\ \E v \in Wafs \ {w} : wafNeedsIstioAccessLog(v)
         \/ /\ task' = [task EXCEPT !.pc = "delete"] /\ otel' = otel
            /\ \A v \in Wafs \ {w} : ~wafNeedsIstioAccessLog(v)
         \/ task' = [task EXCEPT !.pc = task.ret] /\ otel' = FALSE /\ task.pc = "delete"
  BY <1>1 DEF MaybeDeleteOTelAccessLogEnvoyFilter, deleteAccessLogEnvoyFilter, Goto
<1>3. task.ret \in {"others", "status"} /\ w \in Wafs  BY <1>0, <1>1, <1>2 DEF HeldT
<1>4. /\ task'.pc \in {task.ret, "delete"} /\ task'.waf = w /\ task'.copy = task.copy /\ task'.cfg = c
      /\ task'.todo = task.todo /\ task'.ret = task.ret
      /\ task'.pc = "delete" => \A v \in Wafs \ {w} : ~wafNeedsIstioAccessLog(v)
      /\ task'.pc = "others" /\ otel' => \E v \in Wafs \ {w} : wafNeedsIstioAccessLog(v)
      /\ otel' = otel \/ (otel' = FALSE /\ task.pc = "delete")
  BY <1>0, <1>1, <1>2, <1>3 DEF Named
<1>5. task.pc \in Slotting /\ task'.pc \in Slotting  BY <1>2, <1>3, <1>4 DEF Slotting
<1>6. \A v \in Wafs \ {w} : otel /\ Attended(v) /\ wafNeedsIstioAccessLog(v) => otel'
  BY <1>0, <1>1, <1>4, Zenon DEF TaskInv
<1>7. WafsInv'  BY <1>1, <1>2, <1>4, <1>5, <1>6, SlotRests, Zenon
<1>8. \A q \in Providers : Detached(w, q)' <=> Detached(w, q)  BY <1>2 DEF Detached
<1>9. Attached(w, s, c.provider)' <=> Attached(w, s, c.provider)  BY <1>2 DEF Attached
<1>10. Ensured' <=> Ensured  BY <1>2, <1>3, <1>4 DEF Ensured
<1>11. ASSUME ~task.copy.del
       PROVE  /\ Ensured => task.todo = {} /\ Attached(w, s, c.provider)
              /\ ~(c.provider = "Istio" /\ c.managed)
              /\ \A q \in Providers \ (task.todo \cup {c.provider}) : Detached(w, q)
  <2>1. Attaching  BY <1>0, <1>5, <1>11, Zenon DEF TaskInv
  <2>. QED  BY <1>1, <1>2, <2>1, Zenon DEF Attaching
<1>12. ASSUME task.copy.del PROVE ~Ensured /\ \A q \in Providers \ task.todo : Detached(w, q)
  <2>1. Deleting  BY <1>0, <1>2, <1>12, Zenon DEF TaskInv
  <2>. QED  BY <1>1, <2>1, Zenon DEF Deleting
<1>13. \A q \in Providers \ task'.todo : Detached(w, q)' \/ (q = c.provider /\ ~task.copy.del)
  BY <1>4, <1>8, <1>11, <1>12, Zenon
<1>14. TaskInv'
  <2>1. /\ task.copy.del => ~Ensured'
        /\ task'.pc = "others" /\ otel' => \E v \in Wafs \ {w} : wafNeedsIstioAccessLog(v) \/ v \in kq
        /\ task'.pc = "delete" => \A v \in Wafs \ {w} : Attended(v) => ~wafNeedsIstioAccessLog(v)
        /\ task'.pc # "otel"
    BY <1>3, <1>4, <1>10, <1>12, Zenon
  <2>2. ~task.copy.del => /\ Ensured' => task'.todo = {} /\ Attached(w, s, c.provider)'
                          /\ ~(c.provider = "Istio" /\ c.managed)
    BY <1>4, <1>9, <1>10, <1>11, Zenon
  <2>. QED  BY <1>0, <1>1, <1>2, <1>4, <1>5, <1>13, <2>1, <2>2, SlotTask, SMTT(30)
<1>. QED  BY <1>7, <1>14

\* The slot the worker sets asks for the filters of the spec it compiled, and the access
\* log follows the EnvoyFilter of a managed WAF (EnsureDesired).
LEMMA EnsureRests ==
    ASSUME SInv, EnsureEnvoyFilter \/ EnsureOTelAccessLogEnvoyFilter \/ EnsureCiliumEnvoyConfig \/ egEnsure
    PROVE  TaskInv' /\ WafsInv'
<1>. USE DEF memory, slots
<1>0. task = Named(task) /\ ObjectsT /\ TaskInv /\ (task.pc # "idle" => task.waf \in Wafs)  BY InvParts, Zenon
<1>1. PICK w, s, c : w = task.waf /\ s = task.copy.spec /\ c = task.cfg  OBVIOUS
<1>2. ASSUME task.pc \in Slotting, ~task.copy.del
      PROVE  /\ Compiled(c, w, s) /\ \A q \in Providers \ (task.todo \cup {c.provider}) : Detached(w, q)
             /\ task.pc = "otel" => task.todo = {} /\ Attached(w, s, c.provider)
  <2>1. Attaching  BY <1>0, <1>2, Zenon DEF TaskInv
  <2>. QED  BY <1>1, <2>1, Zenon DEF Attaching, Ensured
<1>3. ASSUME /\ task.pc \in Slotting /\ task'.pc \in {"otel", "maybe", "status"} /\ task'.waf = w /\ task'.copy = task.copy
             /\ task'.cfg = c /\ task.todo = {} /\ task'.todo = {} /\ ~task.copy.del
             /\ UNCHANGED <<waf, sts, secrets, loaded, resources, snapshot, kq>>
             /\ otel => otel'
             /\ \A v \in Wafs \ {w} : ef'[v] = ef[v] /\ cec'[v] = cec[v] /\ index'[v] = index[v]
             /\ c.provider # "Istio" => ef'[w] = ef[w]
             /\ c.provider # "Cilium" => cec'[w] = cec[w]
             /\ c.provider # "EnvoyGateway" => index'[w] = index[w]
             /\ Attached(w, s, c.provider)'
             /\ task'.pc = "otel" => c.provider = "Istio" /\ c.managed
             /\ task'.pc = "maybe" => ~(c.provider = "Istio" /\ c.managed)
             /\ task'.pc = "status" => (c.provider = "Istio" /\ c.managed => otel')
      PROVE  TaskInv' /\ WafsInv'
  <2>1. task'.pc \in Slotting /\ task'.pc # "others" /\ task'.pc # "delete" /\ task'.pc \notin {"idle", "secret", "build"}
    BY <1>3, Zenon DEF Slotting
  <2>2. WafsInv'  BY <1>1, <1>3, <2>1, SlotRests, Zenon
  <2>3. \A q \in Providers \ {c.provider} : Detached(w, q)'  BY <1>2, <1>3, Zenon DEF Detached
  <2>4. TaskInv'
    <3>1. ~Ensured' \/ (task'.todo = {} /\ Attached(w, s, c.provider)')  BY <1>3, Zenon
    <3>2. ~task.copy.del =>
             /\ Ensured' => task'.todo = {} /\ Attached(w, s, c.provider)'
             /\ task'.pc = "otel" => c.provider = "Istio" /\ c.managed
             /\ task'.pc \in {"maybe", "delete"} => ~(c.provider = "Istio" /\ c.managed)
             /\ task'.pc = "status" => (c.provider = "Istio" /\ c.managed => otel')
      BY <1>3, <2>1, <3>1, Zenon
    <3>3. task.copy.del =>
             /\ ~Ensured'
             /\ task'.pc = "others" /\ "Istio" \notin task'.todo /\ otel' =>
                  \E v \in Wafs \ {w} : wafNeedsIstioAccessLog(v) \/ v \in kq
      BY <1>3, Zenon
    <3>4. task'.pc = "delete" => \A v \in Wafs \ {w} : Attended(v) => ~wafNeedsIstioAccessLog(v)  BY <2>1, Zenon
    <3>5. \A q \in Providers \ task'.todo : Detached(w, q)' \/ (q = c.provider /\ ~task.copy.del)  BY <1>3, <2>3, Zenon
    <3>6. /\ UNCHANGED <<waf, kq, loaded, resources, snapshot>> /\ task.pc \in Slotting /\ task'.pc \in Slotting
          /\ task'.waf = w /\ task'.copy = task.copy /\ task'.cfg = c /\ task'.todo \subseteq task.todo
      BY <1>3, <2>1, Zenon
    <3>7. TaskInv  BY <1>0
    <3>. QED  BY ONLY <1>1, <3>2, <3>3, <3>4, <3>5, <3>6, <3>7, SlotTask, ZenonT(60)
  <2>. QED  BY <2>2, <2>4
<1>4. CASE EnsureEnvoyFilter
  <2>1. /\ task.pc = "others" /\ task.todo = {} /\ ~task.copy.del /\ c.provider = "Istio"
        /\ ef' = [ef EXCEPT ![w] = buildSpec(c)]
        /\ task' = [task EXCEPT !.pc = IF c.managed THEN "otel" ELSE "maybe", !.ret = "status"]
        /\ UNCHANGED <<waf, sts, secrets, loaded, resources, snapshot, kq, otel, cec, index>>
    BY <1>1, <1>4 DEF EnsureEnvoyFilter
  <2>2. /\ task'.waf = w /\ task'.copy = task.copy /\ task'.cfg = c /\ task'.todo = {}
        /\ task'.pc = (IF c.managed THEN "otel" ELSE "maybe")
    BY <1>0, <1>1, <2>1 DEF Named
  <2>3. w \in Wafs /\ task.pc \in Slotting  BY <1>0, <1>1, <2>1 DEF Slotting
  <2>4. Compiled(c, w, s)  BY <1>2, <2>1, <2>3
  <2>5. PICK o : o = buildSpec(c)  OBVIOUS
  <2>6. ef'[w] = o /\ \A v \in Wafs \ {w} : ef'[v] = ef[v]  BY <1>0, <2>1, <2>3, <2>5 DEF ObjectsT
  <2>7. o # NoObject /\ WasmCodeCluster \in o.clusters /\ Row(o.filters) /\ NamesIn(o.filters) = NamesIn(c.filters)
    BY <2>4, <2>5, EnvoyFilterIs, Zenon DEF Compiled
  <2>8. Attached(w, s, c.provider)'  BY <2>1, <2>4, <2>6, <2>7 DEF Attached, Compiled
  <2>. QED  BY <1>3, <2>1, <2>2, <2>3, <2>6, <2>8
<1>5. CASE EnsureOTelAccessLogEnvoyFilter
  <2>1. /\ task.pc = "otel" /\ otel' = TRUE /\ task' = [task EXCEPT !.pc = "status"]
        /\ UNCHANGED <<waf, sts, secrets, loaded, resources, snapshot, kq, ef, cec, index>>
    BY <1>5 DEF EnsureOTelAccessLogEnvoyFilter, Goto
  <2>2. task'.waf = w /\ task'.copy = task.copy /\ task'.cfg = c /\ task'.todo = task.todo /\ task'.pc = "status"
    BY <1>0, <1>1, <2>1, Zenon DEF Named
  <2>3. task.pc \in Slotting /\ Ensured  BY <2>1 DEF Slotting, Ensured
  <2>4. ~task.copy.del  BY <1>0, <2>1, <2>3 DEF TaskInv, Deleting
  <2>5. task.todo = {} /\ Attached(w, s, c.provider)  BY <1>2, <2>1, <2>3, <2>4
  <2>6. Attached(w, s, c.provider)'  BY <2>1, <2>5, Zenon DEF Attached
  <2>. QED  BY <1>3, <2>1, <2>2, <2>3, <2>4, <2>5, <2>6, Zenon
<1>6. CASE EnsureCiliumEnvoyConfig
  <2>0. PICK o : o = [services |-> buildServices(c), resources |-> buildResources(c)]  BY Zenon
  <2>1. /\ task.pc = "others" /\ task.todo = {} /\ ~task.copy.del /\ c.provider = "Cilium"
        /\ cec' = [cec EXCEPT ![w] = o] /\ task' = [task EXCEPT !.pc = "status"]
        /\ UNCHANGED <<waf, sts, secrets, loaded, resources, snapshot, kq, otel, ef, index>>
    BY <1>1, <1>6, <2>0, Zenon DEF EnsureCiliumEnvoyConfig, Goto
  <2>2. task'.waf = w /\ task'.copy = task.copy /\ task'.cfg = c /\ task'.todo = {} /\ task'.pc = "status"
    BY <1>0, <1>1, <2>1 DEF Named
  <2>3. w \in Wafs /\ task.pc \in Slotting  BY <1>0, <1>1, <2>1 DEF Slotting
  <2>4. Compiled(c, w, s)  BY <1>2, <2>1, <2>3
  <2>6. cec'[w] = o /\ \A v \in Wafs \ {w} : cec'[v] = cec[v]  BY <1>0, <2>1, <2>3 DEF ObjectsT
  <2>7. /\ o # NoObject /\ WasmCodeCluster \in o.resources.clusters
        /\ NamesIn(o.resources.listener.filters) = NamesIn(c.filters) \cup {Router.name}
    BY <2>0, <2>4, CiliumIs, Zenon DEF Compiled
  <2>8. Attached(w, s, c.provider)'  BY <2>1, <2>4, <2>6, <2>7 DEF Attached, Compiled
  <2>. QED  BY <1>3, <2>1, <2>2, <2>3, <2>6, <2>8
<1>7. CASE egEnsure
  <2>1. /\ task.pc = "others" /\ task.todo = {} /\ ~task.copy.del /\ c.provider = "EnvoyGateway"
        /\ index' = [index EXCEPT ![c.waf] = c] /\ task' = [task EXCEPT !.pc = "status"]
        /\ UNCHANGED <<waf, sts, secrets, loaded, resources, snapshot, kq, otel, ef, cec>>
    BY <1>1, <1>7, Zenon DEF egEnsure, IndexUpsert, Goto
  <2>2. task'.waf = w /\ task'.copy = task.copy /\ task'.cfg = c /\ task'.todo = {} /\ task'.pc = "status"
    BY <1>0, <1>1, <2>1 DEF Named
  <2>3. w \in Wafs /\ task.pc \in Slotting  BY <1>0, <1>1, <2>1 DEF Slotting
  <2>4. Compiled(c, w, s)  BY <1>2, <2>1, <2>3
  <2>6. index'[w] = c /\ \A v \in Wafs \ {w} : index'[v] = index[v]  BY <1>0, <2>1, <2>3, <2>4, Zenon DEF ObjectsT, Compiled
  <2>8. Attached(w, s, c.provider)'  BY <2>1, <2>4, <2>6 DEF Attached, Compiled
  <2>. QED  BY <1>3, <2>1, <2>2, <2>3, <2>6, <2>8, Zenon
<1>. QED  BY <1>4, <1>5, <1>6, <1>7, Zenon
=============================================================================
