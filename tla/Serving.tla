------------------------------ MODULE Serving ------------------------------
(***************************************************************************)
(* The leader's WAF reconciles of one namespace and everything they share:  *)
(* the wasm modules loaded at start (cmd/main.go, internal/dataplane/       *)
(* wasmserve), the challenge Secrets (challenge/secret.go), the ECDS        *)
(* server's resources and snapshot (ecds/server.go), the Envoy Gateway      *)
(* index, the Istio EnvoyFilters with the namespace's single access-log     *)
(* filter, the CiliumEnvoyConfigs and the TelemetrySink condition.  What a  *)
(* WAF compiles to is in ServingConfig; caches, several replicas and rule   *)
(* resolution are in WAFDataplane and RuleRefs.                             *)
(*                                                                          *)
(* One worker takes one WAF at a time; every call to the API server is a    *)
(* step of its own, between which users edit WAFs, Secrets and ConfigMaps.  *)
(* A reconcile that succeeds changes status.ecdsVersion, which queues the   *)
(* WAF again: a ready WAF may be reconciled at any time.                    *)
(***************************************************************************)
EXTENDS ServingConfig, FiniteSets

CONSTANTS
    WafSpecs,      \* the specs users write
    Starts,        \* the WAFs the operator finds when it starts, and the bounds
                   \* writes and faults on what users and failures do from there
    ObsStates,     \* what the observability ConfigMaps may become
    HMACs,         \* values generateChallengeHMAC may return
    SecretNameOf,  \* name of the managed Secret of every WAF
    Images         \* wasm files of the operator images: "missing", "empty" or their checksum

ASSUME SpecsAssumption ==
    /\ WafSpecs \subseteq WAFSpec
    /\ \A st \in Starts : /\ DOMAIN st.wafs \subseteq Wafs
                          /\ \A w \in DOMAIN st.wafs : st.wafs[w] \in WafSpecs

\* Words of the model that are not names of WAFs: a Secret nobody owns, the router filter.
ASSUME NamesAssumption == {"none", "router"} \cap Wafs = {}

UserSecret == <<"user">>
SecretNames == {SecretNameOf[w] : w \in Wafs} \cup {UserSecret}
ResourceNames == {ExtensionName(w) : w \in Wafs} \cup {ChallengeExtensionName(w) : w \in Wafs}

VARIABLES
    waf, sts,             \* API server: WAFs and their status
    secrets,              \* API server: Secrets
    ef, otel, cec,        \* API server: EnvoyFilters, the access-log singleton, CiliumEnvoyConfigs
    obs,                  \* API server: the data of the observability ConfigMaps
    loaded,               \* process: checksum of every wasm module
    resources, snapshot,  \* process: the ECDS server's map, and what Envoy is served
    index,                \* process: the extension server's configurations
    kq, task,             \* process: queued WAFs, the worker
    writes, faults        \* user steps and faults left

vars == <<waf, sts, secrets, ef, otel, cec, obs, loaded, resources, snapshot, index, kq, task,
          writes, faults>>
memory == <<loaded, resources, snapshot, index>>
slots == <<ef, otel, cec>>

NoSpec == [none |-> TRUE]
NoWaf == [live |-> FALSE, del |-> FALSE, fin |-> FALSE, spec |-> NoSpec]
NoStatus == [ready |-> FALSE, provider |-> "", sink |-> ""]
NoSecret == [val |-> "", owner |-> "none", stale |-> FALSE]
NoTEC == [name |-> <<>>]
NoObject == [none |-> TRUE]
Idle == [pc |-> "idle", waf |-> "", copy |-> NoWaf, hmac |-> "", seen |-> NoSecret,
         cfg |-> NoObject, todo |-> {}, ret |-> ""]

\* A file that is missing or empty is not loaded; the others still are.
LoadFromFile(f) == IF f \in {"missing", "empty"} THEN "" ELSE f
Load(image) == [m \in Modules |-> LoadFromFile(image[m])]

NoResources == [n \in ResourceNames |-> NoTEC]
Init ==
    /\ \E st \in Starts :
          /\ waf = [w \in Wafs |-> IF w \in DOMAIN st.wafs
                                  THEN [live |-> TRUE, del |-> FALSE, fin |-> FALSE, spec |-> st.wafs[w]]
                                  ELSE NoWaf]
          /\ kq = DOMAIN st.wafs
          /\ writes = st.writes /\ faults = st.faults
    /\ sts = [w \in Wafs |-> NoStatus]
    /\ secrets = [n \in SecretNames |-> NoSecret]
    /\ ef = [w \in Wafs |-> NoObject] /\ otel = FALSE /\ cec = [w \in Wafs |-> NoObject]
    /\ obs = {}
    /\ loaded \in {Load(i) : i \in {j \in Images : Modules = {m \in Modules : Load(j)[m] # ""}}}
    /\ resources = NoResources /\ snapshot = NoResources /\ index = [w \in Wafs |-> NoObject]
    /\ task = Idle

-----------------------------------------------------------------------------
(* Users, the garbage collector, another leader.                            *)

UserWrite == writes > 0 /\ writes' = writes - 1

\* Create a WAF or change its spec.
ApplyWAF(w, s) ==
    /\ UserWrite /\ ~waf[w].del /\ waf[w].spec # s
    /\ waf' = [waf EXCEPT ![w].live = TRUE, ![w].spec = s]
    /\ kq' = kq \cup {w}
    /\ UNCHANGED <<sts, secrets, slots, obs, memory, task, faults>>

\* Deletion waits for the finalizer; without one the object is gone.
DeleteWAF(w) ==
    /\ UserWrite /\ waf[w].live /\ ~waf[w].del
    /\ waf' = [waf EXCEPT ![w] = IF waf[w].fin THEN [waf[w] EXCEPT !.del = TRUE] ELSE NoWaf]
    /\ kq' = kq \cup {w}
    /\ UNCHANGED <<sts, secrets, slots, obs, memory, task, faults>>

\* Events of a Secret reach the WAF that its controller reference names.
OwnerOf(n) == {secrets[n].owner} \cap Wafs

\* Delete a Secret, spoil its value, or provide the user's own.
EditSecret(n, new) ==
    /\ UserWrite /\ new # secrets[n]
    /\ \/ secrets[n] # NoSecret /\ new \in {NoSecret, [secrets[n] EXCEPT !.val = "short"]}
       \/ n = UserSecret /\ new = [NoSecret EXCEPT !.val = "user-hmac"]
    /\ secrets' = [secrets EXCEPT ![n] = new]
    /\ kq' = kq \cup OwnerOf(n)
    /\ UNCHANGED <<waf, sts, slots, obs, memory, task, faults>>

\* The owner is gone, even when a WAF of its name exists again.
GarbageCollect(n) ==
    /\ secrets[n].stale
    /\ secrets' = [secrets EXCEPT ![n] = NoSecret]
    /\ kq' = kq \cup OwnerOf(n)
    /\ UNCHANGED <<waf, sts, slots, obs, memory, task, writes, faults>>

\* mapObsCM: a change of an observability ConfigMap queues the managed WAFs.
requestsForManagedWAFs == {w \in Wafs : waf[w].live /\ waf[w].spec.telemetry = "Managed"}
EditObservability(d) ==
    /\ UserWrite /\ d # obs
    /\ obs' = d
    /\ kq' = kq \cup requestsForManagedWAFs
    /\ UNCHANGED <<waf, sts, secrets, slots, memory, task, faults>>

-----------------------------------------------------------------------------
(* Start of the process.                                                    *)

\* main advertises the URL and checksum of the modules that loaded.  The snapshot
\* and the index start empty, and the watch lists every WAF.
Restart(image) ==
    /\ faults > 0 /\ faults' = faults - 1
    /\ loaded' = Load(image)
    /\ resources' = NoResources /\ snapshot' = NoResources
    /\ index' = [w \in Wafs |-> NoObject]
    /\ task' = Idle
    /\ kq' = {w \in Wafs : waf[w].live}
    /\ UNCHANGED <<waf, sts, secrets, slots, obs, writes>>

\* serveModule: what a GET of the module's URL answers.
serveModule(m) == IF loaded[m] = "" THEN [code |-> 503, sha |-> ""] ELSE [code |-> 200, sha |-> loaded[m]]

-----------------------------------------------------------------------------
(* The WAF reconcile.                                                       *)

\* An error queues the WAF again.
Retry == task' = Idle /\ kq' = kq \cup {task.waf}

markNotReady(w) == sts' = [sts EXCEPT ![w].ready = FALSE]
Fail == Retry /\ markNotReady(task.waf)

\* An API call of the reconcile fails; where the error goes through markNotReady,
\* the status write may fail too and is ignored.
APIError ==
    /\ task.pc # "idle" /\ faults > 0 /\ faults' = faults - 1
    /\ Retry
    /\ \/ UNCHANGED sts
       \/ ~task.copy.del /\ task.pc # "status" /\ markNotReady(task.waf)
    /\ UNCHANGED <<waf, secrets, slots, obs, memory, writes>>

ManagedChallengeSecretName(w) == SecretNameOf[w]
\* Fault: a value that is too short is accepted.
secretHMACAnyLength(sec) == sec.val
secretHMACValue(sec) == IF sec.val \in {"", "short"} THEN "" ELSE sec.val

\* Inline value, user's Secret, else the managed Secret, which takes calls of its own.
ResolveChallengeHMAC(s) ==
    LET user == secretHMACValue(secrets[UserSecret]) IN
    CASE ~ChallengeEnabled(s)   -> [ok |-> TRUE, hmac |-> ""]
      [] s.challenge = "inline" -> [ok |-> TRUE, hmac |-> "inline"]
      [] s.challenge = "short"  -> [ok |-> FALSE, hmac |-> ""]
      [] s.challenge = "ref"    -> [ok |-> user # "", hmac |-> user]

\* The names of a WAF's resources; Delete removes them and publishes if there were
\* any, and DropLocal ignores a failure to.
NamesOfWAF(w) == {ExtensionName(w), ChallengeExtensionName(w)}
Without(res, w) == [n \in ResourceNames |-> IF n \in NamesOfWAF(w) THEN NoTEC ELSE res[n]]
publishLocked(res, ok) == snapshot' = IF ok THEN res ELSE snapshot
ECDSDelete(w, ok) ==
    /\ resources' = Without(resources, w)
    /\ IF resources' = resources THEN UNCHANGED snapshot ELSE publishLocked(resources', ok)
IndexDelete(w) == index' = [index EXCEPT ![w] = NoObject]

\* The worker has read the WAF.
Begun(w) == [Idle EXCEPT !.pc = "build", !.waf = w, !.copy = waf[w]]
\* Fault: the finalizer is not added.
ReconcileBeginBare(w) ==
    /\ task.pc = "idle" /\ waf[w].live /\ ~waf[w].del /\ w \in kq
    /\ task' = Begun(w)
    /\ kq' = kq \ {w}
    /\ UNCHANGED <<waf, sts, secrets, slots, obs, memory, writes, faults>>
ReconcileBegin(w) ==
    /\ task.pc = "idle" /\ waf[w].live /\ (w \in kq \/ sts[w].ready)
    /\ \/ /\ ~waf[w].del /\ ~waf[w].fin                           \* add the finalizer, requeue
          /\ waf' = [waf EXCEPT ![w].fin = TRUE]
          /\ kq' = kq \cup {w}
          /\ UNCHANGED <<task, sts>>
       \/ /\ ~waf[w].del /\ waf[w].fin
          /\ LET s == waf[w].spec IN
             IF s.challenge = "managed"
             THEN /\ task' = [Begun(w) EXCEPT !.pc = "secret", !.seen = secrets[ManagedChallengeSecretName(w)]]
                  /\ kq' = kq \ {w} /\ UNCHANGED sts
             ELSE LET r == ResolveChallengeHMAC(s) IN
                  IF r.ok THEN task' = [Begun(w) EXCEPT !.hmac = r.hmac] /\ kq' = kq \ {w} /\ UNCHANGED sts
                  ELSE markNotReady(w) /\ kq' = kq \cup {w} /\ UNCHANGED task
          /\ UNCHANGED waf
    /\ UNCHANGED <<secrets, slots, obs, memory, writes, faults>>

\* reconcileDelete: the process forgets the WAF, then every slot goes.
reconcileDelete(w) ==
    /\ task.pc = "idle" /\ waf[w].live /\ waf[w].del /\ w \in kq
    /\ \E ok \in BOOLEAN :
          /\ ok \/ faults > 0
          /\ faults' = IF ok THEN faults ELSE faults - 1
          /\ ECDSDelete(w, ok)
    /\ IndexDelete(w)
    /\ kq' = kq \ {w}
    /\ task' = [Idle EXCEPT !.pc = "others", !.waf = w, !.copy = waf[w], !.todo = Providers]
    /\ UNCHANGED <<waf, sts, secrets, slots, obs, loaded, writes>>

\* A random value: one that is nowhere in use.  Which one makes no difference.
ServedSecrets(res) == {res[ChallengeExtensionName(w)].plugin.secret :
                           w \in {v \in Wafs : res[ChallengeExtensionName(v)] # NoTEC}}
generateChallengeHMAC ==
    CHOOSE v \in HMACs : v \notin {task.hmac} \cup {secrets[n].val : n \in SecretNames}
                                 \cup ServedSecrets(resources) \cup ServedSecrets(snapshot)

\* SetControllerReference refuses an object another one controls, told by its name.
MayOwn(sec, w) == sec.owner \in {"none", w}
\* With the owner come the labels of setManagedSecretLabels.
Owned(w, v) == [val |-> v, owner |-> w, stale |-> FALSE]
Resolved(v) == task' = [task EXCEPT !.pc = "build", !.hmac = v, !.seen = NoSecret]
PutSecret(n, sec) == secrets' = [secrets EXCEPT ![n] = sec] /\ kq' = kq \cup {task.waf}

\* Update the Secret that was read, unless it has changed since.
UpdateSecret(n, v) ==
    IF MayOwn(task.seen, task.waf) /\ secrets[n] = task.seen
    THEN PutSecret(n, Owned(task.waf, v)) /\ Resolved(v) /\ UNCHANGED sts
    ELSE Fail /\ UNCHANGED secrets

adoptManagedSecretIfNeeded(n) ==
    IF task.seen = Owned(task.waf, task.seen.val)
    THEN Resolved(task.seen.val) /\ UNCHANGED <<secrets, kq, sts>>
    ELSE UpdateSecret(n, task.seen.val)

\* Create it; if it exists by now use its value.  The second read may find it gone
\* again, or without one.
CreateSecret(n, v) ==
    IF secrets[n] = NoSecret
    THEN PutSecret(n, Owned(task.waf, v)) /\ Resolved(v) /\ UNCHANGED sts
    ELSE /\ UNCHANGED secrets
         /\ \/ secretHMACValue(secrets[n]) # "" /\ Resolved(secretHMACValue(secrets[n]))
               /\ UNCHANGED <<kq, sts>>
            \/ Fail

ensureManagedChallengeSecret ==
    /\ task.pc = "secret"
    /\ LET n == ManagedChallengeSecretName(task.waf) IN
       IF secretHMACValue(task.seen) # "" THEN adoptManagedSecretIfNeeded(n)
       ELSE IF task.seen # NoSecret THEN UpdateSecret(n, generateChallengeHMAC)
       ELSE CreateSecret(n, generateChallengeHMAC)
    /\ UNCHANGED <<waf, slots, obs, memory, writes, faults>>

\* The reconcile of a leader that has just lost the lease creates the Secret.
PeerCreates(w) ==
    /\ faults > 0 /\ faults' = faults - 1
    /\ waf[w].live /\ waf[w].spec.challenge = "managed"
    /\ secrets[ManagedChallengeSecretName(w)] = NoSecret
    /\ secrets' = [secrets EXCEPT ![ManagedChallengeSecretName(w)] = Owned(w, generateChallengeHMAC)]
    /\ kq' = kq \cup {w}
    /\ UNCHANGED <<waf, sts, slots, obs, memory, task, writes>>

\* Fault: the WAF's old resources are not dropped first.
UpsertedOver(w, tecs) ==
    [n \in ResourceNames |->
        LET I == {i \in 1..Len(tecs) : tecs[i].name = n} IN
        IF I # {} THEN tecs[Max(I)] ELSE resources[n]]
\* Upsert: drop the WAF's resources, add the new ones, publish.
Upserted(w, tecs) ==
    [n \in ResourceNames |->
        LET I == {i \in 1..Len(tecs) : tecs[i].name = n} IN
        IF I # {} THEN tecs[Max(I)] ELSE Without(resources, w)[n]]
IndexUpsert(p) == index' = IF p.provider = "EnvoyGateway" THEN [index EXCEPT ![p.waf] = p] ELSE index

\* The rest of Build, then Publish.  A List that fails hides a platform from the
\* discovery of an Auto provider.
BuildAndPublish ==
    /\ task.pc = "build"
    /\ \E lost \in SUBSET DiscoveryCalls(task.copy.spec), ok \in BOOLEAN :
       LET w == task.waf
           s == task.copy.spec
           found == IF NeedsProviderDiscovery(s) THEN DiscoverProvider(s, lost) ELSE NotDiscovered
           cfg == BuildFromWAF(w, s, RuleLines[w], found, task.hmac, loaded)
           built == BuildTypedExtensionConfigs(cfg)
           bad == (IF lost = {} THEN 0 ELSE 1) + (IF ok THEN 0 ELSE 1)
       IN /\ faults' = faults - bad /\ bad <= faults
          /\ IF ~cfg.ok \/ ~built.ok
             THEN Fail /\ UNCHANGED <<resources, snapshot, index>>
             ELSE /\ resources' = Upserted(w, built.tecs)
                  /\ publishLocked(resources', ok)
                  /\ IF ok THEN /\ IndexUpsert(cfg)
                                /\ task' = [task EXCEPT !.pc = "others", !.cfg = cfg,
                                                        !.todo = Providers \ {cfg.provider}]
                                /\ UNCHANGED <<kq, sts>>
                     ELSE Fail /\ UNCHANGED index
    /\ UNCHANGED <<waf, secrets, slots, obs, loaded, writes>>

-----------------------------------------------------------------------------
(* Slots.                                                                   *)

Goto(pc) == task' = [task EXCEPT !.pc = pc]

\* DeleteOthers and DeleteAll visit the adapters in the order of a Go map.
DeleteEnvoyFilter ==
    /\ task.pc = "others" /\ "Istio" \in task.todo
    /\ ef' = [ef EXCEPT ![task.waf] = NoObject]
    /\ task' = [task EXCEPT !.pc = "maybe", !.ret = "others", !.todo = @ \ {"Istio"}]
    /\ UNCHANGED <<waf, sts, secrets, otel, cec, obs, memory, kq, writes, faults>>

DeleteCiliumEnvoyConfig ==
    /\ task.pc = "others" /\ "Cilium" \in task.todo
    /\ cec' = [cec EXCEPT ![task.waf] = NoObject]
    /\ task' = [task EXCEPT !.todo = @ \ {"Cilium"}]
    /\ UNCHANGED <<waf, sts, secrets, ef, otel, obs, memory, kq, writes, faults>>

egDelete ==
    /\ task.pc = "others" /\ "EnvoyGateway" \in task.todo
    /\ IndexDelete(task.waf)
    /\ task' = [task EXCEPT !.todo = @ \ {"EnvoyGateway"}]
    /\ UNCHANGED <<waf, sts, secrets, slots, obs, loaded, resources, snapshot, kq, writes, faults>>

\* Fault: a WAF whose provider is discovered is overlooked.
wafNeedsTypedIstio(w) ==
    waf[w].live /\ ~waf[w].del /\ waf[w].spec.telemetry = "Managed" /\ waf[w].spec.type = "Istio"
wafNeedsIstioAccessLog(w) ==
    waf[w].live /\ ~waf[w].del /\ waf[w].spec.telemetry = "Managed"
    /\ waf[w].spec.type \in {"", "Auto", "Istio"}

\* The singleton stays while another WAF of the namespace needs it.
MaybeDeleteOTelAccessLogEnvoyFilter ==
    /\ task.pc = "maybe"
    /\ Goto(IF \E w \in Wafs \ {task.waf} : wafNeedsIstioAccessLog(w) THEN task.ret ELSE "delete")
    /\ UNCHANGED <<waf, sts, secrets, slots, obs, memory, kq, writes, faults>>

deleteAccessLogEnvoyFilter ==
    /\ task.pc = "delete"
    /\ otel' = FALSE
    /\ Goto(task.ret)
    /\ UNCHANGED <<waf, sts, secrets, ef, cec, obs, memory, kq, writes, faults>>

\* EnsureDesired, once the other providers' slots are gone.
EnsureEnvoyFilter ==
    /\ task.pc = "others" /\ task.todo = {} /\ ~task.copy.del /\ task.cfg.provider = "Istio"
    /\ ef' = [ef EXCEPT ![task.waf] = buildSpec(task.cfg)]
    /\ task' = [task EXCEPT !.pc = IF task.cfg.managed THEN "otel" ELSE "maybe", !.ret = "status"]
    /\ UNCHANGED <<waf, sts, secrets, otel, cec, obs, memory, kq, writes, faults>>

EnsureOTelAccessLogEnvoyFilter ==
    /\ task.pc = "otel"
    /\ otel' = TRUE
    /\ Goto("status")
    /\ UNCHANGED <<waf, sts, secrets, ef, cec, obs, memory, kq, writes, faults>>

EnsureCiliumEnvoyConfig ==
    /\ task.pc = "others" /\ task.todo = {} /\ ~task.copy.del /\ task.cfg.provider = "Cilium"
    /\ cec' = [cec EXCEPT ![task.waf] = [services |-> buildServices(task.cfg),
                                         resources |-> buildResources(task.cfg)]]
    /\ Goto("status")
    /\ UNCHANGED <<waf, sts, secrets, ef, otel, obs, memory, kq, writes, faults>>

egEnsure ==
    /\ task.pc = "others" /\ task.todo = {} /\ ~task.copy.del /\ task.cfg.provider = "EnvoyGateway"
    /\ IndexUpsert(task.cfg)
    /\ Goto("status")
    /\ UNCHANGED <<waf, sts, secrets, slots, obs, loaded, resources, snapshot, kq, writes, faults>>

-----------------------------------------------------------------------------
(* The end of a reconcile.                                                  *)

evaluateTelemetrySink(p) ==
    IF "enabled" \notin obs THEN "Absent"
    ELSE IF p = "Cilium" THEN (IF "ciliumOtelMerged" \in obs THEN "Ready" ELSE "OTelClusterMissing")
    ELSE IF "injectConfigured" \in obs THEN "Ready" ELSE "Degraded"

applyTelemetrySink(s, p) == IF s.telemetry = "Managed" THEN evaluateTelemetrySink(p) ELSE ""

\* The WAF is read again; the sink is judged by the spec it has now.
WriteStatus ==
    /\ task.pc = "status"
    /\ sts' = [sts EXCEPT ![task.waf] =
                  [ready |-> TRUE, provider |-> task.cfg.provider,
                   sink |-> applyTelemetrySink(waf[task.waf].spec, task.cfg.provider)]]
    /\ task' = Idle
    /\ UNCHANGED <<waf, secrets, slots, obs, memory, kq, writes, faults>>

\* The finalizer goes last; owned objects are then left to the garbage collector.
Release ==
    /\ task.pc = "others" /\ task.todo = {} /\ task.copy.del
    /\ waf' = [waf EXCEPT ![task.waf] = NoWaf]
    /\ sts' = [sts EXCEPT ![task.waf] = NoStatus]
    /\ secrets' = [n \in SecretNames |->
                      IF secrets[n].owner = task.waf THEN [secrets[n] EXCEPT !.stale = TRUE]
                      ELSE secrets[n]]
    /\ task' = Idle
    /\ UNCHANGED <<slots, obs, memory, kq, writes, faults>>

Next ==
    \/ \E w \in Wafs : \/ \E s \in WafSpecs : ApplyWAF(w, s)
                       \/ DeleteWAF(w) \/ PeerCreates(w) \/ ReconcileBegin(w) \/ reconcileDelete(w)
    \/ \E n \in SecretNames :
          \/ \E new \in {NoSecret, [secrets[n] EXCEPT !.val = "short"], [NoSecret EXCEPT !.val = "user-hmac"]} :
                EditSecret(n, new)
          \/ GarbageCollect(n)
    \/ \E d \in ObsStates : EditObservability(d)
    \/ \E i \in Images : Restart(i)
    \/ APIError \/ ensureManagedChallengeSecret \/ BuildAndPublish
    \/ DeleteEnvoyFilter \/ DeleteCiliumEnvoyConfig \/ egDelete
    \/ MaybeDeleteOTelAccessLogEnvoyFilter \/ deleteAccessLogEnvoyFilter
    \/ EnsureEnvoyFilter \/ EnsureOTelAccessLogEnvoyFilter \/ EnsureCiliumEnvoyConfig \/ egEnsure
    \/ WriteStatus \/ Release

Spec == Init /\ [][Next]_vars
-----------------------------------------------------------------------------
(* Properties.                                                              *)

\* Every variable has its type: a Secret's owner is a WAF, only a deleted WAF's Secret
\* is stale, a resource is stored under its own name (Upsert of ecds/server.go), and
\* the worker only holds a WAF that cannot go away under it.
TypeOK ==
    /\ waf \in [Wafs -> [live : BOOLEAN, del : BOOLEAN, fin : BOOLEAN, spec : WafSpecs \cup {NoSpec}]]
    /\ \A n \in SecretNames : secrets[n].owner \in Wafs \cup {"none"}
    /\ \A n \in ResourceNames : resources[n].name \in {<<>>, n} /\ snapshot[n].name \in {<<>>, n}
    /\ kq \subseteq Wafs /\ otel \in BOOLEAN
    /\ sts \in [Wafs -> [ready : BOOLEAN, provider : Providers \cup {""},
                         sink : {"", "Absent", "Ready", "Degraded", "OTelClusterMissing"}]]
    /\ task.pc # "idle" => waf[task.waf].live /\ waf[task.waf].fin
    /\ task.pc \in {"idle", "secret", "build", "others", "maybe", "delete", "otel", "status"}

\* A WAF reported ready, with nothing queued or running for it.
Settled(w) == waf[w].live /\ ~waf[w].del /\ sts[w].ready /\ w \notin kq /\ task.waf # w

\* What Envoy finds for a WAF attached by a provider: filters and clusters.
FiltersOf(w) ==
    CASE sts[w].provider = "Istio"        -> ApplyPatches(ef[w])
      [] sts[w].provider = "Cilium"       -> cec[w].resources.listener.filters
      [] sts[w].provider = "EnvoyGateway" -> MakeECDSFilterStubs(index[w])
ClustersOf(w) ==
    CASE sts[w].provider = "Istio"        -> ef[w].clusters
      [] sts[w].provider = "Cilium"       -> {CiliumPrefixedCluster(w, c) : c \in cec[w].resources.clusters}
      [] sts[w].provider = "EnvoyGateway" -> PostTranslateModify({}, <<index[w]>>)

\* A ready WAF at rest is attached exactly once, by the provider its status names: its
\* slot asks for exactly the resources that are served, these are the ones of its current
\* spec, their code is fetched from a cluster the slot defines, the engine's code has the
\* checksum the operator serves, and a TelemetrySink condition is there when the WAF is
\* managed and only then.  A WAF that is gone leaves no slot and no resource in the map
\* the next snapshot is made of; the snapshot served may still hold it, when the publish
\* of its deletion failed (Reconcile, Publish, EnsureDesired, reconcileDelete).
AtRestServes ==
    \A w \in Wafs :
        /\ Settled(w) =>
            LET s == waf[w].spec
                named == {FiltersOf(w)[i].name : i \in DOMAIN FiltersOf(w)} \ {Router.name}
                served == {n \in NamesOfWAF(w) : snapshot[n] # NoTEC}
            IN /\ (ef[w] # NoObject) = (sts[w].provider = "Istio")
               /\ (cec[w] # NoObject) = (sts[w].provider = "Cilium")
               /\ (index[w] # NoObject) = (sts[w].provider = "EnvoyGateway")
               /\ named = served /\ ExtensionName(w) \in served
               /\ (ChallengeExtensionName(w) \in served) = ChallengeEnabled(s)
               /\ snapshot[ExtensionName(w)].plugin = buildWAFPluginJSON(s, RuleLines[w])
               /\ \A n \in served : snapshot[n].fetch \in ClustersOf(w)
               /\ serveModule("modsecurity") = [code |-> 200, sha |-> snapshot[ExtensionName(w)].sha]
               /\ (sts[w].sink = "") = (s.telemetry # "Managed")
        /\ ~waf[w].live =>
            /\ ef[w] = NoObject /\ cec[w] = NoObject /\ index[w] = NoObject
            /\ \A n \in NamesOfWAF(w) : resources[n] = NoTEC

\* The HMAC served for a managed challenge at rest is the one of the Secret the WAF
\* owns, and is usable, whoever created, spoiled, deleted or collected the Secret in
\* between (ensureManagedChallengeSecret).
HMACAgrees ==
    \A w \in Wafs :
        LET sec == secrets[ManagedChallengeSecretName(w)] IN
        Settled(w) /\ waf[w].spec.challenge = "managed" /\ sec.owner = w =>
            /\ snapshot[ChallengeExtensionName(w)].plugin.secret = sec.val
            /\ sec.val \notin {"", "short"}

\* The orders in which a Go map of configurations is ranged over.
Orders(S) == {q \in [1..Cardinality(S) -> S] : \A i, j \in DOMAIN q : q[i] = q[j] => i = j}
Indexed == {index[w] : w \in {v \in Wafs : index[v] # NoObject}}
Listener(g) == [name |-> <<Gateways[g].ns, g>>, filters |-> <<Router>>, log |-> FALSE]

\* Whatever order the index is read in, the listener hook is idempotent, attaches every
\* settled Envoy Gateway WAF that targets the listener's Gateway once, its challenge
\* directly before it and both before the router.  The translation hook, reading the
\* index in another order, adds one ECDS cluster, of some indexed WAF: when these name
\* one cluster, every filter of the listener finds its own.  The filters built from the
\* policies Envoy Gateway passes are those of the index (injectIntoFilterChain,
\* PostTranslateModify, buildECDSCluster, portableFromUnstructured).
HookSound ==
    \A g \in DOMAIN Gateways, q \in Orders(Indexed), r \in Orders(Indexed) :
        LET once == PostHTTPListenerModify(Listener(g), <<>>, q)
            clusters == PostTranslateModify({}, r)
            f == once.filters
            at(n) == {i \in DOMAIN f : f[i].name = n}
        IN /\ PostHTTPListenerModify(once, <<>>, r) = once
           /\ f[Len(f)] = Router /\ Cardinality(at(Router.name)) = 1
           /\ Indexed # {} => Cardinality(clusters \cap {<<p.cluster>> : p \in Indexed}) = 1
           /\ (\A p, o \in Indexed : p.cluster = o.cluster)
                => \A i \in 1..(Len(f) - 1) : <<f[i].cluster>> \in clusters
           /\ once.log /\ OTelHost => <<DefaultOTelCluster>> \in clusters
           /\ \A w \in Wafs :
                Settled(w) /\ index[w] # NoObject =>
                    LET policy == portableFromUnstructured(w, waf[w].spec, loaded)
                        hit == matchesGateway(index[w], parseListenerGateway(Listener(g)))
                    IN /\ Cardinality(at(ExtensionName(w))) = (IF hit THEN 1 ELSE 0)
                       /\ hit /\ ChallengeEnabled(waf[w].spec) =>
                            at(ChallengeExtensionName(w)) = {i - 1 : i \in at(ExtensionName(w))}
                       /\ MakeECDSFilterStubs(policy) = MakeECDSFilterStubs(index[w])

\* The access-log EnvoyFilter the namespace's WAFs share exists while a settled managed
\* WAF is attached by Istio, and a WAF that goes through its finalizer leaves it only to
\* another one that needs it, or that has changed since the list of WAFs was read.  The
\* one it is left to may go without a finalizer, before its first reconcile: then the
\* filter stays, for nobody (EnsureEnvoyFilter, MaybeDeleteOTelAccessLogEnvoyFilter).
SingletonCovers ==
    /\ []((\E w \in Wafs : Settled(w) /\ sts[w].provider = "Istio" /\ waf[w].spec.telemetry = "Managed") => otel)
    /\ [][\A w \in Wafs : waf[w].fin /\ ~waf'[w].live /\ otel'
              => \E v \in Wafs \ {w} : wafNeedsIstioAccessLog(v) \/ v \in kq]_vars

\* The refinement: what ECDS holds for a WAF, as one value.
NoConfig == [waf |-> NoTEC, challenge |-> NoTEC]
ConfigOf(res) == [w \in Wafs |-> [waf |-> res[ExtensionName(w)], challenge |-> res[ChallengeExtensionName(w)]]]
OfOneBuild(w, c) ==
    /\ c.waf # NoTEC
    /\ c.challenge # NoTEC => c.challenge.fetch = c.waf.fetch
    /\ \E s \in WafSpecs : /\ c.waf.plugin = buildWAFPluginJSON(s, RuleLines[w])
                           /\ (c.challenge # NoTEC) = ChallengeEnabled(s)
Registry == INSTANCE ConfigRegistry WITH
    accepted <- ConfigOf(resources), served <- ConfigOf(snapshot), Whole <- OfOneBuild

\* The ECDS server implements a register per WAF: every step replaces or drops one WAF's
\* whole configuration, and what is served is the state after some such step
\* (Upsert, Delete and publishLocked of ecds/server.go).
ImplementsRegistry == Registry!Spec
=============================================================================
