------------------------- MODULE ServingRestProofs -------------------------
(***************************************************************************)
(* The rest of the proof that SInv of ServingRest is inductive (the steps   *)
(* that read, compile, publish, delete and leave a WAF), and what follows:  *)
(* AtRestServes, HMACAgrees and SingletonCovers of Serving, for any WAFs,   *)
(* specs, Secrets, user edits, failures and restarts.                       *)
(***************************************************************************)
EXTENDS ServingRest

-----------------------------------------------------------------------------
(* The steps of the worker on the WAF it reads, compiles and leaves.        *)

\* A step on one WAF leaves the others; what remains is the WAF itself.
LEMMA Apart ==
    ASSUME SInv, NEW w \in Wafs, task.pc = "idle" \/ task.waf = w, task'.pc = "idle" \/ task'.waf = w, otel' = otel,
           \A v \in Wafs \ {w} :
              /\ Kept(v) /\ waf'[v] = waf[v] /\ (v \in kq => v \in kq')
              /\ SecretOf(v).owner = v \/ SecretOf(v)'.owner = v => SecretOf(v)' = SecretOf(v)
              /\ Attended(v) => Shown(v) /\ sts'[v] = sts[v],
           WafInv(w)'
    PROVE  WafsInv'
<1>1. ASSUME NEW v \in Wafs, v # w PROVE WafInv(v)'
  <2>1. WafInv(v)  BY InvParts DEF WafsInv
  <2>2. ~Working(v) /\ ~Working(v)'  BY <1>1 DEF Working
  <2>3. /\ Kept(v) /\ waf'[v] = waf[v] /\ (v \in kq => v \in kq')
        /\ SecretOf(v).owner = v \/ SecretOf(v)'.owner = v => SecretOf(v)' = SecretOf(v)
        /\ Attended(v) => /\ Shown(v) /\ sts'[v] = sts[v]
                          /\ otel /\ wafNeedsIstioAccessLog(v) => otel'
    BY <1>1
  <2>. QED  BY ONLY <2>1, <2>2, <2>3, v \in Wafs, Bystander
<1>. QED  BY <1>1, Zenon DEF WafsInv

\* A worker without a WAF.
LEMMA Idles == ASSUME task' = Idle PROVE TaskInv' /\ task'.pc = "idle" /\ \A v : ~Working(v)'
<1>1. task'.pc = "idle"  BY Zenon DEF Idle
<1>. QED  BY <1>1 DEF TaskInv, Slotting, Working

\* For a WAF that is queued only what it leaves behind counts.
LEMMA Unattended == ASSUME NEW w, ~Attended(w)', GoneOf(w)' PROVE WafInv(w)'
BY Zenon DEF WafInv, CopyOf, HMACOf, RestOf

\* A WAF that carries the finalizer may leave things behind.
LEMMA NotGone == ASSUME NEW w, waf'[w].live, waf'[w].fin PROVE GoneOf(w)'
BY DEF GoneOf

\* A reconcile that fails queues its WAF again, whatever it has stored for it.
LEMMA FailRests ==
    ASSUME SInv, task.pc # "idle", Retry, UNCHANGED sts \/ markNotReady(task.waf),
           UNCHANGED <<waf, secrets, slots, loaded, index>>,
           \A v \in Wafs \ {task.waf} : \A n \in NamesOfWAF(v) :
              resources'[n] = resources[n] /\ (Attended(v) => snapshot'[n] = snapshot[n])
    PROVE  TaskInv' /\ WafsInv'
<1>. USE DEF slots
<1>0. StatusT /\ HeldT /\ task.waf \in Wafs  BY InvParts
<1>1. PICK w \in Wafs : w = task.waf  BY <1>0
<1>2. task' = Idle /\ kq' = kq \cup {w}  BY <1>1 DEF Retry
<1>3. TaskInv' /\ task'.pc = "idle"  BY <1>2, Idles
<1>4. WafInv(w)'
  <2>1. ~Attended(w)'  BY <1>2 DEF Attended
  <2>2. waf'[w].live /\ waf'[w].fin  BY <1>0, <1>1, Zenon DEF HeldT
  <2>. QED  BY <2>1, <2>2, Unattended, NotGone
<1>5. ASSUME NEW v \in Wafs \ {w}
      PROVE  /\ Kept(v) /\ waf'[v] = waf[v] /\ (v \in kq => v \in kq')
             /\ SecretOf(v).owner = v \/ SecretOf(v)'.owner = v => SecretOf(v)' = SecretOf(v)
             /\ Attended(v) => Shown(v) /\ sts'[v] = sts[v]
  <2>1. Kept(v)  BY <1>1 DEF Kept
  <2>2. SecretOf(v)' = SecretOf(v)  BY DEF SecretOf
  <2>3. Attended(v) => Shown(v)  BY <1>1 DEF Shown
  <2>4. sts'[v] = sts[v]  BY <1>0, <1>1, Zenon DEF StatusT, markNotReady
  <2>. QED  BY <1>2, <2>1, <2>2, <2>3, <2>4
<1>6. otel' = otel  OBVIOUS
<1>. QED  BY ONLY <1>1, <1>3, <1>4, <1>5, <1>6, SInv, w \in Wafs, Apart, Zenon

\* An API call that fails.
LEMMA ErrorRests == ASSUME SInv, APIError PROVE TaskInv' /\ WafsInv'
<1>. USE DEF slots, memory
<1>1. task.pc # "idle" /\ Retry /\ (UNCHANGED sts \/ markNotReady(task.waf))  BY DEF APIError
<1>2. UNCHANGED <<waf, secrets, slots, loaded, index, resources, snapshot>>  BY DEF APIError
<1>. QED  BY <1>1, <1>2, FailRests

\* A reconcile starts from the WAF, and the Secret, as they are.
LEMMA BeginRests == ASSUME SInv, NEW w \in Wafs, ReconcileBegin(w) PROVE TaskInv' /\ WafsInv'
<1>. USE DEF slots, memory
<1>1. CASE UNCHANGED task  BY <1>1, UserRests
<1>2. CASE task' # task
  <2>1. /\ waf[w].live /\ ~waf[w].del /\ waf[w].fin /\ task.pc = "idle" /\ kq' = kq \ {w}
        /\ UNCHANGED <<waf, sts, secrets, slots, memory>>
        /\ \/ /\ waf[w].spec.challenge = "managed"
              /\ task' = [Begun(w) EXCEPT !.pc = "secret", !.seen = secrets[ManagedChallengeSecretName(w)]]
           \/ waf[w].spec.challenge # "managed" /\ \E h : task' = [Begun(w) EXCEPT !.hmac = h]
    BY <1>2, Zenon DEF ReconcileBegin
  <2>2. PICK b : b = Begun(w)  OBVIOUS
  <2>3. b = Named(b) /\ b.pc = "build" /\ b.waf = w /\ b.copy = waf[w]  BY <2>2, BegunOK, ZenonT(60)
  <2>4. /\ task'.waf = w /\ task'.copy = waf[w]
        /\ \/ task'.pc = "secret" /\ task'.seen = SecretOf(w)
           \/ task'.pc = "build" /\ waf[w].spec.challenge # "managed"
    <3>1. PICK x : x = SecretOf(w)  OBVIOUS
    <3>2. CASE task' = [b EXCEPT !.pc = "secret", !.seen = x]  BY <2>3, <3>1, <3>2, Zenon DEF Named
    <3>3. ASSUME NEW h, task' = [b EXCEPT !.hmac = h], waf[w].spec.challenge # "managed"
          PROVE  task'.waf = w /\ task'.copy = waf[w] /\ task'.pc = "build"
      BY <2>3, <3>3 DEF Named
    <3>. QED  BY <2>1, <2>2, <3>1, <3>2, <3>3, Zenon DEF SecretOf
  <2>5. TaskInv'
    <3>1. task'.pc \in {"secret", "build"} /\ ~task'.copy.del  BY <2>1, <2>4, Zenon
    <3>. QED  BY <3>1 DEF TaskInv, Slotting
  <2>6. WafInv(w)'
    <3>1. Working(w)' /\ task'.pc \notin Slotting /\ SecretOf(w)' = SecretOf(w) /\ waf' = waf
      BY <2>1, <2>4 DEF Working, Slotting, SecretOf
    <3>2. CopyOf(w)' /\ RestOf(w)' /\ GoneOf(w)'  BY <2>1, <2>4, <3>1, Zenon DEF CopyOf, RestOf, GoneOf
    <3>3. HMACOf(w)'  BY <2>4, <3>1, Zenon DEF HMACOf
    <3>. QED  BY <3>2, <3>3 DEF WafInv
  <2>7. ASSUME NEW v \in Wafs \ {w}
        PROVE  /\ Kept(v) /\ waf'[v] = waf[v] /\ (v \in kq => v \in kq')
               /\ SecretOf(v).owner = v \/ SecretOf(v)'.owner = v => SecretOf(v)' = SecretOf(v)
               /\ Attended(v) => Shown(v) /\ sts'[v] = sts[v]
    BY <2>1, Zenon DEF Kept, Shown, SecretOf
  <2>8. task.pc = "idle" /\ task'.waf = w /\ otel' = otel  BY <2>1, <2>4, Zenon
  <2>9. WafsInv'  BY ONLY <2>6, <2>7, <2>8, SInv, w \in Wafs, Apart, Zenon
  <2>. QED  BY <2>5, <2>9
<1>. QED  BY <1>1, <1>2

\* The HMAC a reconcile goes on with is that of the Secret its WAF owns, or a write of the
\* Secret has queued the WAF.
LEMMA SecretRests == ASSUME SInv, ensureManagedChallengeSecret PROVE TaskInv' /\ WafsInv'
<1>. USE DEF slots, memory
<1>0. task = Named(task) /\ TaskInv /\ HeldT /\ SecretsT /\ WafsInv  BY InvParts
<1>1. task.pc = "secret" /\ task.waf \in Wafs  BY <1>0, Zenon DEF ensureManagedChallengeSecret, HeldT
<1>w. PICK w \in Wafs : w = task.waf  BY <1>1
<1>2. PICK n, seen, g : /\ w = task.waf /\ n = ManagedChallengeSecretName(w) /\ seen = task.seen
                        /\ g = generateChallengeHMAC
  BY <1>w
<1>3. UNCHANGED <<waf, slots, memory>>  BY Zenon DEF ensureManagedChallengeSecret
<1>4. n \in SecretNames /\ SecretOf(w) = secrets[n]  BY <1>2, SecretIs DEF SecretOf
<1>5. \A v \in Wafs : v # "none"  BY NamesAssumption
<1>6. ASSUME Fail, UNCHANGED secrets PROVE TaskInv' /\ WafsInv'
  <2>1. Retry /\ markNotReady(task.waf)  BY <1>6 DEF Fail
  <2>. QED  BY <1>1, <1>3, <1>6, <2>1, FailRests, Zenon
<1>7. ASSUME NEW val, Resolved(val), UNCHANGED sts,
             \/ /\ UNCHANGED <<secrets, kq>> /\ val \notin {"", "short"}
                /\ secrets[n].val = val \/ (seen.owner = w /\ seen.val = val)
             \/ /\ secrets' = [secrets EXCEPT ![n] = Owned(w, val)] /\ kq' = kq \cup {w}
                /\ secrets[n].owner \in {"none", w}
      PROVE  TaskInv' /\ WafsInv'
  <2>1. task'.pc = "build" /\ task'.hmac = val /\ task'.waf = w /\ task'.copy = task.copy
    BY <1>0, <1>2, <1>7, Zenon DEF Resolved, Named
  <2>2. TaskInv'
    <3>1. ~task'.copy.del  BY <1>0, <1>1, <2>1, Zenon DEF TaskInv
    <3>. QED  BY <2>1, <3>1 DEF TaskInv, Slotting
  <2>3. waf'[w].live /\ waf'[w].fin  BY <1>0, <1>1, <1>2, <1>3, Zenon DEF HeldT
  <2>4. WafInv(w)'
    <3>1. CASE kq' = kq \cup {w}
      <4>1. ~Attended(w)'  BY <3>1 DEF Attended
      <4>. QED  BY <2>3, <4>1, Unattended, NotGone
    <3>2. CASE /\ UNCHANGED <<secrets, kq>> /\ val \notin {"", "short"}
               /\ secrets[n].val = val \/ (seen.owner = w /\ seen.val = val)
      <4>1. Working(w) /\ Working(w)' /\ (Attended(w)' <=> Attended(w)) /\ SecretOf(w)' = SecretOf(w)
        BY <1>1, <1>2, <1>3, <2>1, <3>2, Zenon DEF Working, Attended, SecretOf
      <4>2. WafInv(w)  BY <1>0 DEF WafsInv
      <4>3. CopyOf(w)'  BY <1>3, <2>1, <4>1, <4>2, Zenon DEF WafInv, CopyOf
      <4>4. RestOf(w)' /\ GoneOf(w)'  BY <2>3, <4>1, NotGone, Zenon DEF RestOf
      <4>5. ASSUME Attended(w), waf[w].spec.challenge = "managed" PROVE Matches(w, task.hmac)'
        <5>1. SecretOf(w).owner = w \/ seen.owner = w => SecretOf(w) = seen
          BY <1>1, <1>2, <4>1, <4>2, <4>5, Zenon DEF WafInv, HMACOf
        <5>2. SecretOf(w).owner = w => SecretOf(w).val = val  BY <1>4, <3>2, <5>1, Zenon
        <5>. QED  BY <2>1, <3>2, <4>1, <5>2, Zenon DEF Matches
      <4>6. HMACOf(w)'  BY <1>3, <2>1, <4>1, <4>5, Zenon DEF HMACOf, Slotting
      <4>. QED  BY <4>3, <4>4, <4>6 DEF WafInv
    <3>. QED  BY <1>7, <3>1, <3>2, Zenon
  <2>5. ASSUME NEW v \in Wafs \ {w}
        PROVE  /\ Kept(v) /\ waf'[v] = waf[v] /\ (v \in kq => v \in kq')
               /\ SecretOf(v).owner = v \/ SecretOf(v)'.owner = v => SecretOf(v)' = SecretOf(v)
               /\ Attended(v) => Shown(v) /\ sts'[v] = sts[v]
    <3>1. Kept(v) /\ Shown(v) /\ waf'[v] = waf[v] /\ sts' = sts  BY <1>3, <1>7, Zenon DEF Kept, Shown
    <3>2. v \in kq => v \in kq'  BY <1>7, Zenon
    <3>3. SecretOf(v).owner = v \/ SecretOf(v)'.owner = v => SecretOf(v)' = SecretOf(v)
      <4>1. PICK m \in SecretNames : m = ManagedChallengeSecretName(v)  BY SecretIs
      <4>2. CASE UNCHANGED secrets  BY <4>2 DEF SecretOf
      <4>3. CASE /\ secrets' = [secrets EXCEPT ![n] = Owned(w, val)] /\ secrets[n].owner \in {"none", w}
        <5>1. secrets'[m] = IF m = n THEN Owned(w, val) ELSE secrets[m]  BY <1>0, <4>3, Zenon DEF SecretsT
        <5>2. Owned(w, val).owner = w  BY DEF Owned
        <5>. QED  BY <1>5, <4>1, <4>3, <5>1, <5>2, Zenon DEF SecretOf
      <4>. QED  BY <1>7, <4>2, <4>3, Zenon
    <3>. QED  BY <3>1, <3>2, <3>3, Zenon
  <2>6. task.waf = w /\ task'.waf = w /\ otel' = otel  BY <1>2, <1>3, <2>1
  <2>7. WafsInv'  BY ONLY <2>4, <2>5, <2>6, SInv, w \in Wafs, Apart, Zenon
  <2>. QED  BY <2>2, <2>7
<1>8. ASSUME NEW val, UpdateSecret(n, val) PROVE TaskInv' /\ WafsInv'
  <2>1. CASE Fail /\ UNCHANGED secrets  BY <1>6, <2>1
  <2>2. CASE /\ MayOwn(seen, w) /\ secrets[n] = seen /\ Resolved(val) /\ UNCHANGED sts
             /\ secrets' = [secrets EXCEPT ![n] = Owned(w, val)] /\ kq' = kq \cup {w}
    BY <1>7, <2>2, Zenon DEF MayOwn
  <2>. QED  BY <1>2, <1>8, <2>1, <2>2, Zenon DEF UpdateSecret, PutSecret
<1>9. ASSUME secretHMACValue(seen) # "", adoptManagedSecretIfNeeded(n) PROVE TaskInv' /\ WafsInv'
  <2>1. seen.val \notin {"", "short"}  BY <1>9, Zenon DEF secretHMACValue
  <2>2. CASE seen = Owned(w, seen.val)
    <3>1. Resolved(seen.val) /\ UNCHANGED <<secrets, kq, sts>>  BY <1>2, <1>9, <2>2, Zenon DEF adoptManagedSecretIfNeeded
    <3>2. seen.owner = w  BY <2>2 DEF Owned
    <3>. QED  BY <1>7, <2>1, <3>1, <3>2, Zenon
  <2>3. CASE seen # Owned(w, seen.val)
    <3>1. UpdateSecret(n, seen.val)  BY <1>2, <1>9, <2>3, Zenon DEF adoptManagedSecretIfNeeded
    <3>. QED  BY <1>8, <3>1
  <2>. QED  BY <2>2, <2>3, Zenon
<1>10. ASSUME CreateSecret(n, g) PROVE TaskInv' /\ WafsInv'
  <2>1. CASE secrets[n] = NoSecret
    <3>1. Resolved(g) /\ UNCHANGED sts /\ secrets' = [secrets EXCEPT ![n] = Owned(w, g)] /\ kq' = kq \cup {w}
      BY <1>2, <1>10, <2>1, Zenon DEF CreateSecret, PutSecret
    <3>0. NoSecret.owner = "none"  BY DEF NoSecret
    <3>2. secrets[n].owner = "none"  BY <2>1, <3>0
    <3>. QED  BY <1>7, <3>1, <3>2, Zenon
  <2>2. CASE Fail /\ UNCHANGED secrets  BY <1>6, <2>2
  <2>3. CASE /\ secretHMACValue(secrets[n]) # "" /\ Resolved(secretHMACValue(secrets[n]))
             /\ UNCHANGED <<secrets, kq, sts>>
    <3>1. PICK val : val = secrets[n].val  OBVIOUS
    <3>2. val \notin {"", "short"} /\ Resolved(val)  BY <2>3, <3>1, Zenon DEF secretHMACValue
    <3>. QED  BY <1>7, <2>3, <3>1, <3>2, Zenon
  <2>. QED  BY <1>10, <2>1, <2>2, <2>3, Zenon DEF CreateSecret
<1>11. \/ secretHMACValue(seen) # "" /\ adoptManagedSecretIfNeeded(n)
       \/ UpdateSecret(n, g) \/ CreateSecret(n, g)
  BY <1>2, Zenon DEF ensureManagedChallengeSecret
<1>. QED  BY <1>8, <1>9, <1>10, <1>11, Zenon

\* A build that is stored and served is published.
LEMMA PublishedIs ==
    ASSUME NEW w \in Wafs, NEW s, NEW rules, rules = RuleLines[w], NEW found, NEW hmac, NEW ld, ld = loaded, loaded' = loaded,
           NEW cfg, cfg = BuildFromWAF(w, s, rules, found, hmac, ld), cfg.ok,
           NEW res, res = Upserted(w, BuildTypedExtensionConfigs(cfg).tecs), resources' = res, snapshot' = res,
           NEW p, p = cfg.provider
    PROVE  Published(w, s, p)'
<1>1. PICK a, b, from : /\ from = FetchedFrom(w, p)
                        /\ a = buildOne(wafFilter(w, s, rules, ld), from)
                        /\ b = buildOne(buildChallengeFilter(w, s, hmac, ld), from)
  OBVIOUS
<1>2. /\ res[ExtensionName(w)] = a
      /\ ChallengeEnabled(s) => res[ChallengeExtensionName(w)] = b
      /\ ~ChallengeEnabled(s) => res[ChallengeExtensionName(w)] = NoTEC
  BY <1>1, PutIs, SMTT(30)
<1>3. /\ a.plugin = buildWAFPluginJSON(s, RuleLines[w]) /\ a.sha = ld["modsecurity"]
      /\ a.fetch = from /\ b.fetch = from
  BY <1>1, Zenon DEF buildOne, wafFilter
<1>4. a # NoTEC /\ b # NoTEC
  <2>1. "sha" \in DOMAIN a /\ "sha" \in DOMAIN b  BY <1>1, Zenon DEF buildOne
  <2>2. "sha" \notin DOMAIN NoTEC  BY Zenon DEF NoTEC
  <2>. QED  BY <2>1, <2>2, Zenon
<1>5. ld["modsecurity"] # ""
  BY Zenon DEF BuildFromWAF
<1>6. ExtensionName(w) # ChallengeExtensionName(w)  BY NamesDiffer, Zenon
<1>7. ASSUME NEW n \in NamesOfWAF(w)
      PROVE  /\ (res[n] # NoTEC) <=> n \in FiltersFor(w, s)
             /\ n \in FiltersFor(w, s) => res[n].fetch = from
  <2>1. CASE n = ExtensionName(w)  BY <1>2, <1>3, <1>4, <1>7, <2>1, Zenon DEF FiltersFor
  <2>2. CASE n = ChallengeExtensionName(w)  BY <1>2, <1>3, <1>4, <1>6, <1>7, <2>2, Zenon DEF FiltersFor
  <2>. QED  BY <1>7, <2>1, <2>2, Zenon DEF NamesOfWAF
<1>. QED  BY <1>1, <1>2, <1>3, <1>5, <1>7, Zenon DEF Published

\* What is stored for a WAF at rest is what is served.
LEMMA Stored ==
    ASSUME SInv, NEW v \in Wafs, Attended(v), ~Working(v) PROVE \A n \in NamesOfWAF(v) : resources[n] = snapshot[n]
BY InvParts, Zenon DEF WafsInv, WafInv, RestOf, Published

\* A build publishes the spec and the HMAC the worker holds, or fails.
LEMMA BuildRests == ASSUME SInv, BuildAndPublish PROVE TaskInv' /\ WafsInv'
<1>. USE DEF slots, memory
<1>0. task = Named(task) /\ TaskInv /\ HeldT /\ ObjectsT /\ WafsInv /\ TaskOK  BY InvParts DEF SInv, TInv
<1>1. task.pc = "build" /\ task.waf \in Wafs /\ task.copy.spec \in WafSpecs  BY <1>0, Zenon DEF BuildAndPublish, TaskOK
<1>2. PICK w \in Wafs : w = task.waf  BY <1>1
<1>3. PICK s \in WafSpecs : s = task.copy.spec  BY <1>1, Zenon
<1>4. UNCHANGED <<waf, secrets, slots, loaded>>  BY Zenon DEF BuildAndPublish
<1>5. PICK lost \in SUBSET DiscoveryCalls(task.copy.spec), ok \in BOOLEAN :
         LET found == IF NeedsProviderDiscovery(task.copy.spec) THEN DiscoverProvider(task.copy.spec, lost)
                      ELSE NotDiscovered
             cfg == BuildFromWAF(task.waf, task.copy.spec, RuleLines[task.waf], found, task.hmac, loaded)
             built == BuildTypedExtensionConfigs(cfg)
         IN IF ~cfg.ok \/ ~built.ok
            THEN Fail /\ UNCHANGED <<resources, snapshot, index>>
            ELSE /\ resources' = Upserted(task.waf, built.tecs)
                 /\ publishLocked(resources', ok)
                 /\ IF ok THEN /\ IndexUpsert(cfg)
                               /\ task' = [task EXCEPT !.pc = "others", !.cfg = cfg,
                                                       !.todo = Providers \ {cfg.provider}]
                               /\ UNCHANGED <<kq, sts>>
                    ELSE Fail /\ UNCHANGED index
  BY Zenon DEF BuildAndPublish
<1>6. PICK found : found = IF NeedsProviderDiscovery(s) THEN DiscoverProvider(s, lost) ELSE NotDiscovered
  OBVIOUS
<1>7. PICK hmac, ld, rules : hmac = task.hmac /\ ld = loaded /\ rules = RuleLines[w]  OBVIOUS
<1>8. PICK cfg : cfg = BuildFromWAF(w, s, rules, found, hmac, ld)  OBVIOUS
<1>9. PICK res : res = Upserted(w, BuildTypedExtensionConfigs(cfg).tecs)  BY Zenon
<1>10. \/ Fail /\ UNCHANGED <<resources, snapshot, index>>
       \/ resources' = res /\ UNCHANGED <<snapshot, index>> /\ Fail
       \/ /\ cfg.ok /\ resources' = res /\ snapshot' = res /\ IndexUpsert(cfg) /\ UNCHANGED <<kq, sts>>
          /\ task' = [task EXCEPT !.pc = "others", !.cfg = cfg, !.todo = Providers \ {cfg.provider}]
  BY <1>2, <1>3, <1>5, <1>6, <1>7, <1>8, <1>9, Zenon DEF publishLocked
<1>11. \A v \in Wafs \ {w} : \A n \in NamesOfWAF(v) : res[n] = resources[n]
  BY ONLY <1>8, <1>9, w \in Wafs, PutIs, SMTT(30)
<1>12. CASE Fail /\ UNCHANGED index /\ UNCHANGED snapshot /\ (UNCHANGED resources \/ resources' = res)
  <2>1. Retry /\ markNotReady(task.waf)  BY <1>12 DEF Fail
  <2>2. \A v \in Wafs \ {task.waf} : \A n \in NamesOfWAF(v) :
           resources'[n] = resources[n] /\ (Attended(v) => snapshot'[n] = snapshot[n])
    BY <1>2, <1>11, <1>12, Zenon
  <2>3. task.pc # "idle" /\ UNCHANGED <<waf, secrets, slots, loaded, index>>  BY <1>1, <1>4, <1>12, Zenon
  <2>. QED  BY ONLY <2>1, <2>2, <2>3, SInv, FailRests, Zenon
<1>13. CASE /\ cfg.ok /\ resources' = res /\ snapshot' = res /\ IndexUpsert(cfg) /\ UNCHANGED <<kq, sts>>
            /\ task' = [task EXCEPT !.pc = "others", !.cfg = cfg, !.todo = Providers \ {cfg.provider}]
  <2>0. PICK p : p = cfg.provider  OBVIOUS
  <2>1. /\ task'.pc = "others" /\ task'.waf = w /\ task'.copy = task.copy /\ task'.cfg = cfg
        /\ task'.todo = Providers \ {p}
    BY <1>0, <1>2, <1>13, <2>0 DEF Named
  <2>2. Compiled(cfg, w, s)
    <3>1. found.provider \in Providers \cup {""}  BY <1>6, FoundIs, Zenon DEF NotDiscovered
    <3>2. s \in WAFSpec  BY SpecsAssumption
    <3>. QED  BY ONLY <1>8, <3>1, <3>2, CompiledIs, Zenon
  <2>3. Published(w, s, p)'
    <3>1. loaded' = loaded /\ cfg.ok /\ resources' = res /\ snapshot' = res  BY <1>4, <1>13
    <3>. QED  BY ONLY <1>7, <1>8, <1>9, <2>0, <3>1, w \in Wafs, PublishedIs, Zenon
  <2>4. TaskInv'
    <3>1. ~task'.copy.del  BY <1>0, <1>1, <2>1, Zenon DEF TaskInv
    <3>2. ~Ensured' /\ task'.pc \notin {"otel", "maybe", "delete", "status", "secret", "build", "idle"}
      BY <2>1, Zenon DEF Ensured
    <3>3. Providers \ (task'.todo \cup {p}) = {} /\ p \notin task'.todo  BY <2>1, Zenon
    <3>4. task'.waf = w /\ task'.copy.spec = s /\ task'.cfg = cfg  BY <1>3, <2>1, Zenon
    <3>5. Attaching'  BY ONLY <2>0, <2>2, <2>3, <3>2, <3>3, <3>4, Zenon DEF Attaching, Published
    <3>. QED  BY <3>1, <3>2, <3>5, Zenon DEF TaskInv
  <2>5. WafInv(w)'
    <3>1. Working(w) /\ Working(w)' /\ (Attended(w)' <=> Attended(w)) /\ SecretOf(w)' = SecretOf(w) /\ waf' = waf
      BY <1>1, <1>2, <1>4, <1>13, <2>1 DEF Working, Attended, SecretOf
    <3>2. WafInv(w)  BY <1>0, Zenon DEF WafsInv
    <3>3. CopyOf(w)'  BY <2>1, <3>1, <3>2, Zenon DEF WafInv, CopyOf
    <3>4. RestOf(w)'  BY <3>1, Zenon DEF RestOf
    <3>5. waf'[w].live /\ waf'[w].fin  BY <1>0, <1>1, <1>2, <1>4, Zenon DEF HeldT
    <3>6. ASSUME Attended(w), waf[w].spec.challenge = "managed"
          PROVE  Matches(w, snapshot[ChallengeExtensionName(w)].plugin.secret)'
      <4>1. Matches(w, hmac)  BY <1>1, <1>7, <3>1, <3>2, <3>6, Zenon DEF WafInv, HMACOf
      <4>2. ChallengeEnabled(s)  BY <1>3, <3>1, <3>2, <3>6, Zenon DEF WafInv, CopyOf, ChallengeEnabled
      <4>3. res[ChallengeExtensionName(w)] = buildOne(buildChallengeFilter(w, s, hmac, ld), FetchedFrom(w, p))
        BY ONLY <1>8, <1>9, <2>0, <4>2, w \in Wafs, PutIs, SMTT(20)
      <4>4. res[ChallengeExtensionName(w)].plugin.secret = hmac
        <5>1. challengeSecret(s, hmac) = hmac  BY <4>1, Zenon DEF challengeSecret, Matches
        <5>2. PICK f, from : f = buildChallengeFilter(w, s, hmac, ld) /\ from = FetchedFrom(w, p)  OBVIOUS
        <5>3. buildOne(f, from).plugin = f.plugin  BY Zenon DEF buildOne
        <5>4. f.plugin.secret = hmac  BY <5>1, <5>2, Zenon DEF buildChallengeFilter
        <5>. QED  BY <4>3, <5>2, <5>3, <5>4, Zenon
      <4>. QED  BY <1>13, <3>1, <4>1, <4>4, Zenon DEF Matches
    <3>7. HMACOf(w)'
      <4>1. resources'[ChallengeExtensionName(w)] = snapshot'[ChallengeExtensionName(w)]  BY <1>13
      <4>. QED  BY <2>1, <3>1, <3>6, <4>1, Zenon DEF HMACOf
    <3>. QED  BY <3>3, <3>4, <3>5, <3>7, NotGone, Zenon DEF WafInv
  <2>6. ASSUME NEW v \in Wafs \ {w}
        PROVE  /\ Kept(v) /\ waf'[v] = waf[v] /\ (v \in kq => v \in kq')
               /\ SecretOf(v).owner = v \/ SecretOf(v)'.owner = v => SecretOf(v)' = SecretOf(v)
               /\ Attended(v) => Shown(v) /\ sts'[v] = sts[v]
    <3>1. index'[v] = index[v]  BY <1>0, <1>13, <2>2, Zenon DEF IndexUpsert, ObjectsT, Compiled
    <3>2. Kept(v)  BY <1>4, <1>11, <1>13, <3>1 DEF Kept
    <3>3. SecretOf(v)' = SecretOf(v) /\ sts' = sts /\ kq' = kq /\ waf' = waf  BY <1>4, <1>13 DEF SecretOf
    <3>4. ~Working(v)  BY <1>2 DEF Working
    <3>5. Attended(v) => Shown(v)  BY <1>11, <1>13, <3>4, Stored DEF Shown
    <3>. QED  BY <3>2, <3>3, <3>5, Zenon
  <2>7. task.waf = w /\ task'.waf = w /\ otel' = otel  BY <1>2, <1>4, <2>1, Zenon
  <2>8. WafsInv'  BY ONLY <2>5, <2>6, <2>7, SInv, w \in Wafs, Apart, Zenon
  <2>. QED  BY <2>4, <2>8
<1>. QED  BY <1>10, <1>12, <1>13

\* Dropping a WAF's resources leaves those of the others.
LEMMA DroppedIs ==
    ASSUME NEW w \in Wafs, NEW res, res = Without(resources, w)
    PROVE  /\ \A n \in NamesOfWAF(w) : res[n] = NoTEC
           /\ \A v \in Wafs \ {w} : \A n \in NamesOfWAF(v) : res[n] = resources[n]
<1>1. ASSUME NEW v \in Wafs, NEW n \in NamesOfWAF(v) PROVE n \in ResourceNames  BY <1>1, NamesAre DEF NamesOfWAF
<1>2. ASSUME NEW v \in Wafs, v # w, NEW n \in NamesOfWAF(v) PROVE n \notin NamesOfWAF(w)
  BY <1>2, NamesDiffer, Zenon DEF NamesOfWAF
<1>. QED  BY <1>1, <1>2, Zenon DEF Without

\* The reconcile of a deleted WAF starts with an empty server for it.
LEMMA DeleteRests == ASSUME SInv, NEW w \in Wafs, reconcileDelete(w) PROVE TaskInv' /\ WafsInv'
<1>. USE DEF slots
<1>0. TaskInv /\ HeldT /\ ObjectsT /\ WafsInv  BY InvParts
<1>1. /\ task.pc = "idle" /\ waf[w].live /\ waf[w].del /\ IndexDelete(w) /\ kq' = kq \ {w}
      /\ task' = [Idle EXCEPT !.pc = "others", !.waf = w, !.copy = waf[w], !.todo = Providers]
      /\ UNCHANGED <<waf, sts, secrets, slots, loaded>>
  BY Zenon DEF reconcileDelete
<1>2. PICK ok \in BOOLEAN : ECDSDelete(w, ok)  BY DEF reconcileDelete
<1>3. PICK res : res = Without(resources, w)  OBVIOUS
<1>4. resources' = res /\ snapshot' \in {snapshot, res}  BY <1>2, <1>3, Zenon DEF ECDSDelete, publishLocked
<1>5. /\ \A n \in NamesOfWAF(w) : res[n] = NoTEC
      /\ \A v \in Wafs \ {w} : \A n \in NamesOfWAF(v) : res[n] = resources[n]
  BY ONLY <1>3, w \in Wafs, DroppedIs, Zenon
<1>6. task'.pc = "others" /\ task'.waf = w /\ task'.copy = waf[w] /\ task'.todo = Providers
  <2>1. PICK i : i = Idle  OBVIOUS
  <2>2. i = Named(i)  BY <2>1, Zenon DEF Idle, Named
  <2>3. task' = [i EXCEPT !.pc = "others", !.waf = w, !.copy = waf[w], !.todo = Providers]  BY <1>1, <2>1
  <2>. QED  BY <2>2, <2>3 DEF Named
<1>7. TaskInv'
  <2>1. task'.copy.del /\ ~Ensured' /\ waf'[w].del  BY <1>1, <1>6 DEF Ensured
  <2>2. "Istio" \in task'.todo  BY <1>6, Zenon DEF Providers
  <2>3. Deleting'  BY <1>4, <1>5, <1>6, <2>1, <2>2, Zenon DEF Deleting
  <2>. QED  BY <1>6, <2>1, <2>3, Zenon DEF TaskInv
<1>8. WafInv(w)'
  <2>1. ~Attended(w)'  BY <1>1 DEF Attended
  <2>2. waf'[w].live /\ waf'[w].fin  BY <1>0, <1>1 DEF HeldT, Finalized
  <2>. QED  BY <2>1, <2>2, Unattended, NotGone, Zenon
<1>9. ASSUME NEW v \in Wafs \ {w}
      PROVE  /\ Kept(v) /\ waf'[v] = waf[v] /\ (v \in kq => v \in kq')
             /\ SecretOf(v).owner = v \/ SecretOf(v)'.owner = v => SecretOf(v)' = SecretOf(v)
             /\ Attended(v) => Shown(v) /\ sts'[v] = sts[v]
  <2>1. index'[v] = index[v]  BY <1>0, <1>1 DEF IndexDelete, ObjectsT
  <2>2. Kept(v)  BY <1>1, <1>4, <1>5, <2>1 DEF Kept
  <2>3. SecretOf(v)' = SecretOf(v) /\ sts' = sts /\ waf' = waf  BY <1>1 DEF SecretOf
  <2>4. ~Working(v)  BY <1>1 DEF Working
  <2>5. Attended(v) => Shown(v)  BY <1>4, <1>5, <2>4, Stored, Zenon DEF Shown
  <2>. QED  BY <1>1, <2>2, <2>3, <2>5
<1>10. task.pc = "idle" /\ task'.waf = w /\ otel' = otel  BY <1>1, <1>6
<1>11. WafsInv'  BY ONLY <1>8, <1>9, <1>10, SInv, w \in Wafs, Apart, Zenon
<1>. QED  BY <1>7, <1>11

\* A reconcile that ends leaves its WAF at rest, unless something has queued it.
LEMMA StatusRests == ASSUME SInv, WriteStatus PROVE TaskInv' /\ WafsInv'
<1>. USE DEF slots, memory
<1>0. TaskInv /\ HeldT /\ StatusT /\ WafsInv  BY InvParts
<1>1. /\ task.pc = "status" /\ task' = Idle /\ UNCHANGED <<waf, secrets, slots, memory, kq>>
      /\ sts' = [sts EXCEPT ![task.waf] =
                    [ready |-> TRUE, provider |-> task.cfg.provider,
                     sink |-> applyTelemetrySink(waf[task.waf].spec, task.cfg.provider)]]
  BY Zenon DEF WriteStatus
<1>2. PICK w \in Wafs : w = task.waf  BY <1>0, <1>1, Zenon DEF HeldT
<1>3. PICK s, c, p : s = task.copy.spec /\ c = task.cfg /\ p = c.provider  OBVIOUS
<1>4. TaskInv' /\ task'.pc = "idle" /\ ~Working(w)'  BY <1>1, Idles, Zenon
<1>5. ~task.copy.del  BY <1>0, <1>1, Zenon DEF TaskInv, Deleting, Ensured
<1>6. Attaching  BY <1>0, <1>1, <1>5, Zenon DEF TaskInv, Slotting
<1>7. /\ Compiled(c, w, s) /\ Published(w, s, p) /\ Attached(w, s, p)
      /\ \A q \in Providers \ {p} : Detached(w, q)
      /\ p = "Istio" /\ c.managed => otel
  BY <1>1, <1>2, <1>3, <1>6, Zenon DEF Attaching, Ensured
<1>8. PICK snk : snk = applyTelemetrySink(waf[w].spec, p)  OBVIOUS
<1>9. /\ sts'[w].provider = p /\ sts'[w].sink = snk
      /\ \A v \in Wafs \ {w} : sts'[v] = sts[v]
  BY <1>0, <1>1, <1>2, <1>3, <1>8, Zenon DEF StatusT
<1>10. (snk = "") <=> (waf[w].spec.telemetry # "Managed")
  BY <1>8, Zenon DEF applyTelemetrySink, evaluateTelemetrySink
<1>11. WafInv(w) /\ Working(w) /\ (Attended(w)' <=> Attended(w))  BY <1>0, <1>1, <1>2, Zenon DEF WafsInv, Working, Attended
<1>12. WafInv(w)'
  <2>1. CopyOf(w)'  BY <1>4, Zenon DEF CopyOf
  <2>2. GoneOf(w)'
    <3>1. waf'[w].live /\ waf'[w].fin  BY <1>0, <1>1, <1>2, Zenon DEF HeldT
    <3>. QED  BY <3>1, NotGone
  <2>3. ASSUME Attended(w) PROVE RestOf(w)'
    <3>1. waf'[w].spec = s  BY <1>1, <1>3, <1>11, <2>3, Zenon DEF WafInv, CopyOf
    <3>2. Suits(p, s) /\ (c.managed <=> s.telemetry = "Managed")  BY <1>3, <1>7, Zenon DEF Compiled
    <3>3. Published(w, s, p)' /\ Attached(w, s, p)'  BY <1>1, <1>7, Zenon DEF Published, Attached
    <3>4. \A q \in Providers \ {p} : Detached(w, q)'  BY <1>1, <1>7, Zenon DEF Detached
    <3>5. (sts'[w].sink = "") <=> (s.telemetry # "Managed")  BY <1>1, <1>9, <1>10, <3>1, Zenon
    <3>6. p = "Istio" /\ s.telemetry = "Managed" => otel'  BY <1>1, <1>7, <3>2, Zenon
    <3>. QED  BY <1>9, <3>1, <3>2, <3>3, <3>4, <3>5, <3>6, Zenon DEF RestOf, Published, Attached, Detached
  <2>4. HMACOf(w)'
    <3>1. Attended(w) /\ waf[w].spec.challenge = "managed" =>
             /\ Matches(w, snapshot[ChallengeExtensionName(w)].plugin.secret)
             /\ resources[ChallengeExtensionName(w)] = snapshot[ChallengeExtensionName(w)]
      BY <1>1, <1>11, Zenon DEF WafInv, HMACOf, Slotting
    <3>2. Matches(w, snapshot[ChallengeExtensionName(w)].plugin.secret)' <=>
             Matches(w, snapshot[ChallengeExtensionName(w)].plugin.secret)
      BY <1>1, Zenon DEF Matches, SecretOf
    <3>. QED  BY <1>1, <1>4, <1>11, <3>1, <3>2, Zenon DEF HMACOf
  <2>5. ~Attended(w) => RestOf(w)'  BY <1>11, Zenon DEF RestOf
  <2>. QED  BY <2>1, <2>2, <2>3, <2>4, <2>5 DEF WafInv
<1>13. ASSUME NEW v \in Wafs \ {w}
       PROVE  /\ Kept(v) /\ waf'[v] = waf[v] /\ (v \in kq => v \in kq')
              /\ SecretOf(v).owner = v \/ SecretOf(v)'.owner = v => SecretOf(v)' = SecretOf(v)
              /\ Attended(v) => Shown(v) /\ sts'[v] = sts[v]
  BY <1>1, <1>9, Zenon DEF Kept, Shown, SecretOf
<1>14. task.waf = w /\ otel' = otel  BY <1>1, <1>2, Zenon
<1>15. WafsInv'  BY ONLY <1>4, <1>12, <1>13, <1>14, SInv, w \in Wafs, Apart, Zenon
<1>. QED  BY <1>4, <1>15

\* The finalizer goes when nothing is left of the WAF; the Secrets it owned are the garbage
\* collector's.
LEMMA ReleaseRests == ASSUME SInv, Release PROVE TaskInv' /\ WafsInv'
<1>. USE DEF slots, memory
<1>0. WafsOK /\ TaskInv /\ HeldT /\ SecretsT /\ StatusT /\ WafsInv  BY InvParts
<1>1. /\ task.pc = "others" /\ task.todo = {} /\ task.copy.del /\ task' = Idle /\ UNCHANGED <<slots, memory, kq>>
      /\ waf' = [waf EXCEPT ![task.waf] = NoWaf] /\ sts' = [sts EXCEPT ![task.waf] = NoStatus]
  BY DEF Release
<1>2. PICK w \in Wafs : w = task.waf  BY <1>0, <1>1, Zenon DEF HeldT
<1>3. TaskInv' /\ task'.pc = "idle"  BY <1>1, Idles, Zenon
<1>4. Deleting  BY <1>0, <1>1, Zenon DEF TaskInv
<1>5. WafInv(w)'
  <2>1. waf'[w] = NoWaf /\ ~NoWaf.live  BY <1>0, <1>1, <1>2, Zenon DEF WafsOK, NoWaf
  <2>2. ~Attended(w)'  BY <2>1, Zenon DEF Attended
  <2>3. \A p \in Providers : Detached(w, p)'  BY <1>1, <1>2, <1>4, Zenon DEF Deleting, Detached
  <2>4. \A n \in NamesOfWAF(w) : resources'[n] = NoTEC  BY <1>1, <1>2, <1>4, Zenon DEF Deleting
  <2>5. GoneOf(w)'  BY <2>3, <2>4, Zenon DEF GoneOf
  <2>. QED  BY <2>2, <2>5, Unattended
<1>6. ASSUME NEW n \in SecretNames
      PROVE  /\ secrets'[n].owner = secrets[n].owner
             /\ secrets[n].owner # w => secrets'[n] = secrets[n]
  <2>1. secrets'[n] = IF secrets[n].owner = w THEN [secrets[n] EXCEPT !.stale = TRUE] ELSE secrets[n]
    BY <1>2 DEF Release
  <2>2. PICK r, v, o, b : r = secrets[n] /\ r = [val |-> v, owner |-> o, stale |-> b]  BY <1>0, Zenon DEF SecretsT
  <2>3. PICK x : x = TRUE  OBVIOUS
  <2>4. [r EXCEPT !.stale = x] = [val |-> v, owner |-> o, stale |-> x]  BY ONLY <2>2, StaleIs
  <2>5. [r EXCEPT !.stale = x].owner = r.owner  BY <2>2, <2>4
  <2>. QED  BY <2>1, <2>2, <2>3, <2>5, Zenon
<1>7. ASSUME NEW v \in Wafs \ {w}
      PROVE  /\ Kept(v) /\ waf'[v] = waf[v] /\ (v \in kq => v \in kq')
             /\ SecretOf(v).owner = v \/ SecretOf(v)'.owner = v => SecretOf(v)' = SecretOf(v)
             /\ Attended(v) => Shown(v) /\ sts'[v] = sts[v]
  <2>1. Kept(v) /\ Shown(v) /\ kq' = kq  BY <1>1, Zenon DEF Kept, Shown
  <2>2. waf'[v] = waf[v] /\ sts'[v] = sts[v]  BY <1>0, <1>1, <1>2, Zenon DEF WafsOK, StatusT
  <2>3. SecretOf(v).owner = v \/ SecretOf(v)'.owner = v => SecretOf(v)' = SecretOf(v)
    <3>1. PICK m \in SecretNames : m = ManagedChallengeSecretName(v)  BY SecretIs
    <3>. QED  BY <1>6, <3>1, Zenon DEF SecretOf
  <2>. QED  BY <2>1, <2>2, <2>3, Zenon
<1>8. task.waf = w /\ otel' = otel  BY <1>1, <1>2, Zenon
<1>9. WafsInv'  BY ONLY <1>3, <1>5, <1>7, <1>8, SInv, w \in Wafs, Apart, Zenon
<1>. QED  BY <1>3, <1>9

\* A process that starts has every WAF to do, and nothing in memory.
LEMMA RestartRests == ASSUME SInv, NEW i, Restart(i) PROVE TaskInv' /\ WafsInv'
<1>. USE DEF slots
<1>1. /\ task' = Idle /\ resources' = NoResources /\ index' = [w \in Wafs |-> NoObject]
      /\ kq' = {w \in Wafs : waf[w].live} /\ UNCHANGED <<waf, slots>>
  BY Zenon DEF Restart
<1>2. TaskInv'  BY <1>1, Idles, Zenon
<1>3. ASSUME NEW w \in Wafs PROVE WafInv(w)'
  <2>1. ~Attended(w)'  BY <1>1, Zenon DEF Attended
  <2>2. GoneOf(w)  BY InvParts, Zenon DEF WafsInv, WafInv
  <2>3. ASSUME NEW p \in Providers, Detached(w, p) PROVE Detached(w, p)'  BY <1>1, <2>3, Zenon DEF Detached
  <2>4. \A n \in NamesOfWAF(w) : resources'[n] = NoTEC  BY <1>1, NamesAre, Zenon DEF NoResources, NamesOfWAF
  <2>5. GoneOf(w)'  BY <1>1, <2>2, <2>3, <2>4, Zenon DEF GoneOf
  <2>. QED  BY <2>1, <2>5, Unattended, Zenon
<1>. QED  BY <1>2, <1>3 DEF WafsInv

-----------------------------------------------------------------------------
(* The invariant, and the properties.                                       *)

\* The operator starts with every WAF to do.
LEMMA SInit == Init => SInv
<1>. SUFFICES ASSUME Init PROVE SInv  OBVIOUS
<1>1. TInv  BY TInit
<1>2. PICK st \in Starts : /\ kq = DOMAIN st.wafs
                          /\ waf = [w \in Wafs |-> IF w \in DOMAIN st.wafs
                                  THEN [live |-> TRUE, del |-> FALSE, fin |-> FALSE, spec |-> st.wafs[w]]
                                  ELSE NoWaf]
  BY Zenon DEF Init
<1>3. /\ ef = [w \in Wafs |-> NoObject] /\ cec = [w \in Wafs |-> NoObject] /\ index = [w \in Wafs |-> NoObject]
      /\ resources = NoResources /\ task = Idle
  BY Zenon DEF Init
<1>4. TaskInv
  <2>1. task.pc = "idle"  BY <1>3, Zenon DEF Idle
  <2>. QED  BY <2>1, Zenon DEF TaskInv, Slotting
<1>5. ASSUME NEW w \in Wafs PROVE WafInv(w)
  <2>1. ~Attended(w)  BY <1>2, Zenon DEF Attended, NoWaf
  <2>2. \A p \in Providers : Detached(w, p)  BY <1>3, Zenon DEF Detached
  <2>3. \A n \in NamesOfWAF(w) : resources[n] = NoTEC  BY <1>3, NamesAre, Zenon DEF NoResources, NamesOfWAF
  <2>. QED  BY <2>1, <2>2, <2>3, Zenon DEF WafInv, CopyOf, HMACOf, RestOf, GoneOf
<1>. QED  BY <1>1, <1>4, <1>5 DEF SInv, WafsInv

\* Every step keeps the invariant.
LEMMA SNext == SInv /\ [Next]_vars => SInv'
<1>. SUFFICES ASSUME SInv, [Next]_vars PROVE SInv'  OBVIOUS
<1>1. TInv'  BY TNext DEF SInv
<1>2. CASE UNCHANGED vars
  <2>1. UNCHANGED <<slots, memory, task, waf, sts, kq, secrets>>  BY <1>2, Zenon DEF vars, slots, memory
  <2>2. TaskInv' /\ WafsInv'  BY <2>1, Waits, Zenon DEF SecretOf
  <2>. QED  BY <1>1, <2>2 DEF SInv
<1>3. CASE Next
  <2>1. \/ \E w \in Wafs : (\E s \in WafSpecs : ApplyWAF(w, s)) \/ DeleteWAF(w) \/ PeerCreates(w)
        \/ \E n \in SecretNames : (\E new : EditSecret(n, new)) \/ GarbageCollect(n)
        \/ \E d \in ObsStates : EditObservability(d)
        \/ \E w \in Wafs : ReconcileBegin(w) \/ reconcileDelete(w)
        \/ \E i \in Images : Restart(i)
        \/ APIError \/ ensureManagedChallengeSecret \/ BuildAndPublish \/ WriteStatus \/ Release
        \/ DeleteEnvoyFilter \/ DeleteCiliumEnvoyConfig \/ egDelete
        \/ MaybeDeleteOTelAccessLogEnvoyFilter \/ deleteAccessLogEnvoyFilter
        \/ EnsureEnvoyFilter \/ EnsureOTelAccessLogEnvoyFilter \/ EnsureCiliumEnvoyConfig \/ egEnsure
    BY <1>3, Zenon DEF Next
  <2>2. CASE \/ \E w \in Wafs : (\E s \in WafSpecs : ApplyWAF(w, s)) \/ DeleteWAF(w) \/ PeerCreates(w)
             \/ \E n \in SecretNames : (\E new : EditSecret(n, new)) \/ GarbageCollect(n)
             \/ \E d \in ObsStates : EditObservability(d)
    <3>1. TaskInv' /\ WafsInv'  BY <2>2, UserRests, Zenon
    <3>. QED  BY <1>1, <3>1 DEF SInv
  <2>3. CASE \E w \in Wafs : ReconcileBegin(w) \/ reconcileDelete(w)
    <3>1. TaskInv' /\ WafsInv'  BY <2>3, BeginRests, DeleteRests
    <3>. QED  BY <1>1, <3>1 DEF SInv
  <2>4. CASE (\E i \in Images : Restart(i)) \/ APIError \/ ensureManagedChallengeSecret
    <3>1. TaskInv' /\ WafsInv'  BY <2>4, RestartRests, ErrorRests, SecretRests, Zenon
    <3>. QED  BY <1>1, <3>1 DEF SInv
  <2>5. CASE BuildAndPublish \/ WriteStatus \/ Release
    <3>1. TaskInv' /\ WafsInv'  BY <2>5, BuildRests, StatusRests, ReleaseRests
    <3>. QED  BY <1>1, <3>1 DEF SInv
  <2>6. CASE DeleteEnvoyFilter \/ DeleteCiliumEnvoyConfig \/ egDelete
    <3>1. TaskInv' /\ WafsInv'  BY <2>6, DetachRests
    <3>. QED  BY <1>1, <3>1 DEF SInv
  <2>7. CASE MaybeDeleteOTelAccessLogEnvoyFilter \/ deleteAccessLogEnvoyFilter
    <3>1. TaskInv' /\ WafsInv'  BY <2>7, AccessLogRests
    <3>. QED  BY <1>1, <3>1 DEF SInv
  <2>8. CASE EnsureEnvoyFilter \/ EnsureOTelAccessLogEnvoyFilter \/ EnsureCiliumEnvoyConfig \/ egEnsure
    <3>1. TaskInv' /\ WafsInv'  BY <2>8, EnsureRests
    <3>. QED  BY <1>1, <3>1 DEF SInv
  <2>. QED  BY <2>1, <2>2, <2>3, <2>4, <2>5, <2>6, <2>7, <2>8, Zenon
<1>. QED  BY <1>2, <1>3

\* The router is not a filter of a WAF.
LEMMA RouterApart == ASSUME NEW w \in Wafs PROVE Router.name \notin NamesOfWAF(w)
<1>1. w # "router"  BY NamesAssumption
<1>. QED  BY <1>1, Zenon DEF Router, NamesOfWAF, ExtensionName, ChallengeExtensionName

\* What Envoy finds at rest is what the provider's slot asks for.
LEMMA NamesFound ==
    ASSUME NEW w \in Wafs, NEW s, NEW p \in Providers, p = sts[w].provider, Attached(w, s, p)
    PROVE  NamesIn(FiltersOf(w)) \ {Router.name} = FiltersFor(w, s) /\ FetchedFrom(w, p) \in ClustersOf(w)
<1>0. Router.name \notin FiltersFor(w, s)  BY RouterApart, Zenon DEF FiltersFor
<1>1. CASE p = "Istio"
  <2>1. PICK f : f = ef[w].filters  BY Zenon
  <2>2. f \in Seq({f[i] : i \in DOMAIN f}) /\ NamesIn(f) = FiltersFor(w, s)  BY <1>1, <2>1, Zenon DEF Attached, Row
  <2>3. PICK h : h = f \o <<Router>>  BY Zenon
  <2>4. FiltersOf(w) = h  BY <1>1, <2>1, <2>3, Zenon DEF FiltersOf, ApplyPatches
  <2>5. NamesIn(h) = NamesIn(f) \cup {Router.name}  BY ONLY <2>2, <2>3, NamesAppended, Zenon
  <2>6. FetchedFrom(w, p) \in ClustersOf(w)  BY <1>1 DEF Attached, FetchedFrom, ClustersOf
  <2>. QED  BY <1>0, <2>2, <2>4, <2>5, <2>6, Zenon
<1>2. CASE p = "Cilium"
  <2>1. FiltersOf(w) = cec[w].resources.listener.filters
        /\ ClustersOf(w) = {CiliumPrefixedCluster(w, c) : c \in cec[w].resources.clusters}
    BY <1>2 DEF FiltersOf, ClustersOf
  <2>2. WasmCodeCluster \in cec[w].resources.clusters
        /\ NamesIn(cec[w].resources.listener.filters) = FiltersFor(w, s) \cup {Router.name}
    BY <1>2, Zenon DEF Attached
  <2>3. FetchedFrom(w, p) = CiliumPrefixedCluster(w, WasmCodeCluster)  BY <1>2, Zenon DEF FetchedFrom
  <2>. QED  BY <1>0, <2>1, <2>2, <2>3, Zenon
<1>3. CASE p = "EnvoyGateway"
  <2>1. FiltersOf(w) = MakeECDSFilterStubs(index[w]) /\ ClustersOf(w) = PostTranslateModify({}, <<index[w]>>)
    BY <1>3 DEF FiltersOf, ClustersOf
  <2>2. NamesIn(index[w].filters) = FiltersFor(w, s)  BY <1>3, Zenon DEF Attached
  <2>3. NamesIn(MakeECDSFilterStubs(index[w])) = NamesIn(index[w].filters)
    BY Zenon DEF NamesIn, MakeECDSFilterStubs, MakeECDSFilterStub
  <2>4. FetchedFrom(w, p) = WasmCodeCluster  BY <1>3, Zenon DEF FetchedFrom
  <2>5. WasmCodeCluster \in PostTranslateModify({}, <<index[w]>>)
    <3>1. <<index[w]>> # <<>>  OBVIOUS
    <3>. QED  BY <3>1, Zenon DEF PostTranslateModify, MakeWasmCodeCluster
  <2>. QED  BY <1>0, <2>1, <2>2, <2>3, <2>4, <2>5, Zenon
<1>. QED  BY <1>1, <1>2, <1>3, Zenon DEF Providers

\* A settled WAF is at rest.
LEMMA SettledRests ==
    ASSUME SInv, NEW w \in Wafs, Settled(w), NEW s, s = waf[w].spec, NEW p, p = sts[w].provider
    PROVE  /\ Suits(p, s) /\ Published(w, s, p) /\ Attached(w, s, p)
           /\ \A q \in Providers \ {p} : Detached(w, q)
           /\ (sts[w].sink = "") <=> (s.telemetry # "Managed")
           /\ p = "Istio" /\ s.telemetry = "Managed" => otel
           /\ Attended(w) /\ ~Working(w)
<1>1. Attended(w) /\ ~Working(w)  BY Zenon DEF Settled, Attended, Working
<1>2. RestOf(w)  BY InvParts, Zenon DEF WafsInv, WafInv
<1>. QED  BY <1>1, <1>2, Zenon DEF RestOf

\* What is at rest serves.
LEMMA RestServes == SInv => AtRestServes
<1>. SUFFICES ASSUME SInv, NEW w \in Wafs
              PROVE  /\ Settled(w) =>
                          LET s == waf[w].spec
                              named == {FiltersOf(w)[i].name : i \in DOMAIN FiltersOf(w)} \ {Router.name}
                              served == {n \in NamesOfWAF(w) : snapshot[n] # NoTEC}
                          IN /\ (ef[w] # NoObject) = (sts[w].provider = "Istio")
                             /\ (cec[w] # NoObject) = (sts[w].provider = "Cilium")
                             /\ (index[w] # NoObject) = (sts[w].provider = "EnvoyGateway")
                             /\ named = served /\ ExtensionName(w) \in served
                             /\ (ChallengeExtensionName(w) \in served) = ChallengeEnabled(s)
                             /\ snapshot[ExtensionName(w)].plugin = buildWAFPluginJSON(s, RuleLines[w])
                             /\ \A n \in served : snapshot[n].fetch \in ClustersOf(w)
                             /\ serveModule("modsecurity") = [code |-> 200, sha |-> snapshot[ExtensionName(w)].sha]
                             /\ (sts[w].sink = "") = (s.telemetry # "Managed")
                     /\ ~waf[w].live =>
                          /\ ef[w] = NoObject /\ cec[w] = NoObject /\ index[w] = NoObject
                          /\ \A n \in NamesOfWAF(w) : resources[n] = NoTEC
  BY Zenon DEF AtRestServes
<1>1. ASSUME Settled(w)
      PROVE  LET s == waf[w].spec
                 named == {FiltersOf(w)[i].name : i \in DOMAIN FiltersOf(w)} \ {Router.name}
                 served == {n \in NamesOfWAF(w) : snapshot[n] # NoTEC}
             IN /\ (ef[w] # NoObject) = (sts[w].provider = "Istio")
                /\ (cec[w] # NoObject) = (sts[w].provider = "Cilium")
                /\ (index[w] # NoObject) = (sts[w].provider = "EnvoyGateway")
                /\ named = served /\ ExtensionName(w) \in served
                /\ (ChallengeExtensionName(w) \in served) = ChallengeEnabled(s)
                /\ snapshot[ExtensionName(w)].plugin = buildWAFPluginJSON(s, RuleLines[w])
                /\ \A n \in served : snapshot[n].fetch \in ClustersOf(w)
                /\ serveModule("modsecurity") = [code |-> 200, sha |-> snapshot[ExtensionName(w)].sha]
                /\ (sts[w].sink = "") = (s.telemetry # "Managed")
  <2>1. PICK s, p : s = waf[w].spec /\ p = sts[w].provider  OBVIOUS
  <2>2. /\ Suits(p, s) /\ Published(w, s, p) /\ Attached(w, s, p)
        /\ \A q \in Providers \ {p} : Detached(w, q)
        /\ (sts[w].sink = "") <=> (s.telemetry # "Managed")
    BY ONLY <1>1, <2>1, SInv, w \in Wafs, SettledRests, Zenon
  <2>3. p \in Providers  BY <2>2, Zenon DEF Suits
  <2>4. NamesIn(FiltersOf(w)) \ {Router.name} = FiltersFor(w, s) /\ FetchedFrom(w, p) \in ClustersOf(w)
    BY ONLY <2>1, <2>2, <2>3, w \in Wafs, NamesFound, Zenon
  <2>5. PICK served : served = {n \in NamesOfWAF(w) : snapshot[n] # NoTEC}  BY Zenon
  <2>6. served = FiltersFor(w, s)  BY <2>2, <2>5, Zenon DEF Published, FiltersFor
  <2>7. /\ (ef[w] # NoObject) = (p = "Istio")
        /\ (cec[w] # NoObject) = (p = "Cilium")
        /\ (index[w] # NoObject) = (p = "EnvoyGateway")
    <3>1. /\ p = "Istio" => ef[w] # NoObject
          /\ p = "Cilium" => cec[w] # NoObject
          /\ p = "EnvoyGateway" => index[w] # NoObject
      BY <2>2, Zenon DEF Attached
    <3>2. /\ p # "Istio" => ef[w] = NoObject
          /\ p # "Cilium" => cec[w] = NoObject
          /\ p # "EnvoyGateway" => index[w] = NoObject
      BY <2>2, Zenon DEF Detached, Providers
    <3>. QED  BY <3>1, <3>2, Zenon
  <2>8. ExtensionName(w) \in FiltersFor(w, s)  BY Zenon DEF FiltersFor, NamesOfWAF
  <2>9. (ChallengeExtensionName(w) \in FiltersFor(w, s)) <=> ChallengeEnabled(s)
    BY NamesDiffer, Zenon DEF FiltersFor, NamesOfWAF
  <2>10. snapshot[ExtensionName(w)].plugin = buildWAFPluginJSON(s, RuleLines[w])  BY <2>2, Zenon DEF Published
  <2>11. \A n \in served : snapshot[n].fetch \in ClustersOf(w)
    BY <2>2, <2>4, <2>6, Zenon DEF Published, FiltersFor
  <2>12. serveModule("modsecurity") = [code |-> 200, sha |-> snapshot[ExtensionName(w)].sha]
    BY <2>2, Zenon DEF Published, serveModule
  <2>13. (ChallengeEnabled(s) \in BOOLEAN) /\ {FiltersOf(w)[i].name : i \in DOMAIN FiltersOf(w)} \ {Router.name} = served
    BY <2>4, <2>6, Zenon DEF NamesIn, ChallengeEnabled
  <2>14. (sts[w].sink = "") = (s.telemetry # "Managed")  BY <2>2, Zenon
  <2>15. (ChallengeExtensionName(w) \in served) = ChallengeEnabled(s)  BY <2>6, <2>9, <2>13
  <2>16. ExtensionName(w) \in served  BY <2>6, <2>8, Zenon
  <2>. QED  BY ONLY <2>1, <2>5, <2>7, <2>10, <2>11, <2>12, <2>13, <2>14, <2>15, <2>16, Zenon
<1>2. ASSUME ~waf[w].live
      PROVE  /\ ef[w] = NoObject /\ cec[w] = NoObject /\ index[w] = NoObject
             /\ \A n \in NamesOfWAF(w) : resources[n] = NoTEC
  <2>1. GoneOf(w)  BY InvParts, Zenon DEF WafsInv, WafInv
  <2>. QED  BY <1>2, <2>1, Zenon DEF GoneOf, Detached, Providers
<1>. QED  BY <1>1, <1>2, Zenon

\* A ready WAF at rest is attached exactly once, by the provider its status names, with the
\* resources of its current spec, and a WAF that is gone leaves nothing (Reconcile, Publish,
\* EnsureDesired, reconcileDelete): for any WAFs, specs, user edits, failures and restarts.
THEOREM ServingAtRest == Spec => []AtRestServes
<1>. QED  BY SInit, SNext, RestServes, PTL DEF Spec

\* The HMAC served at rest is the one of the WAF's Secret.
LEMMA RestAgrees == SInv => HMACAgrees
<1>. SUFFICES ASSUME SInv, NEW w \in Wafs, Settled(w), waf[w].spec.challenge = "managed",
                     secrets[ManagedChallengeSecretName(w)].owner = w
              PROVE  /\ snapshot[ChallengeExtensionName(w)].plugin.secret = secrets[ManagedChallengeSecretName(w)].val
                     /\ secrets[ManagedChallengeSecretName(w)].val \notin {"", "short"}
  BY Zenon DEF HMACAgrees
<1>1. Attended(w) /\ ~Working(w)  BY Zenon DEF Settled, Attended, Working
<1>2. HMACOf(w)  BY InvParts, Zenon DEF WafsInv, WafInv
<1>3. Matches(w, snapshot[ChallengeExtensionName(w)].plugin.secret)  BY <1>1, <1>2, Zenon DEF HMACOf
<1>. QED  BY <1>3, Zenon DEF Matches, SecretOf

\* The HMAC served for a managed challenge at rest is the one of the Secret the WAF owns, and
\* is usable (ensureManagedChallengeSecret), whoever wrote or removed the Secret meanwhile.
THEOREM ServingHMAC == Spec => []HMACAgrees
<1>. QED  BY SInit, SNext, RestAgrees, PTL DEF Spec

\* The access log is there for the settled WAFs that need it.
LEMMA RestCovered ==
    SInv => ((\E w \in Wafs : Settled(w) /\ sts[w].provider = "Istio" /\ waf[w].spec.telemetry = "Managed") => otel)
BY SettledRests, Zenon

\* Only the end of a deletion takes a WAF with a finalizer away, and it has seen who needs
\* the access log.
LEMMA ReleaseCovered ==
    SInv /\ [Next]_vars =>
       [\A w \in Wafs : waf[w].fin /\ ~waf'[w].live /\ otel'
            => \E v \in Wafs \ {w} : wafNeedsIstioAccessLog(v) \/ v \in kq]_vars
<1>. SUFFICES ASSUME SInv, [Next]_vars, NEW w \in Wafs, waf[w].fin, ~waf'[w].live, otel'
              PROVE  \E v \in Wafs \ {w} : wafNeedsIstioAccessLog(v) \/ v \in kq
  BY Zenon
<1>. USE DEF slots, memory
<1>0. WafsOK /\ TaskInv /\ HeldT  BY InvParts, Zenon
<1>1. waf[w].live  BY <1>0, Zenon DEF HeldT, Finalized
<1>2. ~(\E u \in Wafs, s \in WafSpecs : ApplyWAF(u, s))
  <2>. SUFFICES ASSUME NEW u \in Wafs, NEW s \in WafSpecs, ApplyWAF(u, s) PROVE FALSE  OBVIOUS
  <2>1. waf' = [waf EXCEPT ![u].live = TRUE, ![u].spec = s]  BY DEF ApplyWAF
  <2>. QED  BY <1>0, <1>1, <2>1 DEF WafsOK, WAFObject
<1>3. ~(\E u \in Wafs : DeleteWAF(u))
  BY <1>0, <1>1, Zenon DEF DeleteWAF, WafsOK, WAFObject
<1>4. ~(\E u \in Wafs : ReconcileBegin(u))
  <2>1. \A u \in Wafs : ReconcileBegin(u) => UNCHANGED waf \/ waf' = [waf EXCEPT ![u].fin = TRUE]
    BY Zenon DEF ReconcileBegin
  <2>. QED  BY <1>0, <1>1, <2>1 DEF WafsOK, WAFObject
<1>5. waf' # waf  BY <1>1, Zenon
<1>6. Release
  <2>1. \/ \E u \in Wafs : (\E s \in WafSpecs : ApplyWAF(u, s)) \/ DeleteWAF(u) \/ ReconcileBegin(u)
        \/ Release \/ UNCHANGED waf
    BY Zenon DEF Next, vars, PeerCreates, reconcileDelete, EditSecret, GarbageCollect, EditObservability, Restart, APIError,
           ensureManagedChallengeSecret, BuildAndPublish, DeleteEnvoyFilter, DeleteCiliumEnvoyConfig, egDelete,
           MaybeDeleteOTelAccessLogEnvoyFilter, deleteAccessLogEnvoyFilter, EnsureEnvoyFilter,
           EnsureOTelAccessLogEnvoyFilter, EnsureCiliumEnvoyConfig, egEnsure, WriteStatus
  <2>. QED  BY <1>2, <1>3, <1>4, <1>5, <2>1, Zenon
<1>7. task.pc = "others" /\ task.todo = {} /\ task.copy.del /\ otel' = otel /\ waf' = [waf EXCEPT ![task.waf] = NoWaf]
  BY <1>6, Zenon DEF Release
<1>8. w = task.waf  BY <1>0, <1>1, <1>7, Zenon DEF WafsOK
<1>9. Deleting  BY <1>0, <1>7, Zenon DEF TaskInv
<1>. QED  BY <1>7, <1>8, <1>9, Zenon DEF Deleting

\* The access-log EnvoyFilter exists while a settled managed WAF is attached by Istio, and a
\* WAF that goes through its finalizer leaves it only to another one that needs it or that
\* has changed since (EnsureEnvoyFilter, MaybeDeleteOTelAccessLogEnvoyFilter).
THEOREM ServingAccessLog == Spec => SingletonCovers
<1>1. Spec => []SInv  BY SInit, SNext, PTL DEF Spec
<1>. QED  BY <1>1, RestCovered, ReleaseCovered, PTL DEF Spec, SingletonCovers
=============================================================================
