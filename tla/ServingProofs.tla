--------------------------- MODULE ServingProofs ---------------------------
(***************************************************************************)
(* The ECDS server driven by the reconciler of Serving implements the       *)
(* registers of ConfigRegistry, for every value of the constants.  The      *)
(* argument: only Restart, reconcileDelete and BuildAndPublish touch the    *)
(* server's map; reconcileDelete empties the register of one WAF and        *)
(* BuildAndPublish, for the WAF and the spec the worker holds, fills one.   *)
(* That the worker holds a WAF of Wafs with a spec users wrote is RInv.     *)
(***************************************************************************)
EXTENDS Serving, TLAPS

-----------------------------------------------------------------------------
(* Resources and registers.                                                 *)

\* No two of the names ExtensionName and ChallengeExtensionName give coincide.
LEMMA NamesDiffer ==
    ASSUME NEW v \in Wafs, NEW w \in Wafs
    PROVE  /\ ExtensionName(v) # ChallengeExtensionName(w)
           /\ v # w => /\ ExtensionName(v) # ExtensionName(w)
                       /\ ChallengeExtensionName(v) # ChallengeExtensionName(w)
BY DEF ExtensionName, ChallengeExtensionName

\* A server without resources holds no WAF's configuration (NewServer).
LEMMA NothingIsEmpty == ConfigOf(NoResources) = Registry!Empty
BY DEF Registry!Empty, ConfigOf, NoConfig, NoResources, ResourceNames

\* The operator starts with every register empty.
LEMMA InitRefines == Init => Registry!Init
<1>1. ASSUME Init PROVE resources = NoResources /\ snapshot = NoResources
  BY <1>1, Zenon DEF Init
<1>. QED  BY <1>1, NothingIsEmpty DEF Registry!Init

\* A restarted operator has every register empty: the ECDS server is rebuilt from nothing.
LEMMA RestartRefines == ASSUME NEW i \in Images, Restart(i) PROVE Registry!Restart
<1>1. resources' = NoResources /\ snapshot' = NoResources  BY DEF Restart
<1>. QED  BY <1>1, NothingIsEmpty DEF Registry!Restart

\* The names of a WAF's resources are names the server's map may hold.
LEMMA NamesAre ==
    ASSUME NEW w \in Wafs
    PROVE  ExtensionName(w) \in ResourceNames /\ ChallengeExtensionName(w) \in ResourceNames
BY DEF ResourceNames

\* Dropping a WAF's resources empties its register and no other (the loop of Delete).
LEMMA WithoutConfig ==
    ASSUME NEW w \in Wafs, NEW res
    PROVE  ConfigOf(Without(res, w)) = [ConfigOf(res) EXCEPT ![w] = NoConfig]
<1>1. ASSUME NEW v \in Wafs
      PROVE  /\ Without(res, w)[ExtensionName(v)] = IF v = w THEN NoTEC ELSE res[ExtensionName(v)]
             /\ Without(res, w)[ChallengeExtensionName(v)] = IF v = w THEN NoTEC ELSE res[ChallengeExtensionName(v)]
  BY NamesDiffer, NamesAre DEF Without, NamesOfWAF
<1>. QED  BY <1>1, Zenon DEF ConfigOf, NoConfig

\* Without a challenge, BuildTypedExtensionConfigs gives one resource, the WAF's own.
LEMMA TecsOne ==
    ASSUME NEW w, NEW s, NEW rules, NEW found, NEW hmac, NEW ld, ~ChallengeEnabled(s),
           NEW cfg, cfg = BuildFromWAF(w, s, rules, found, hmac, ld),
           NEW t, t = BuildTypedExtensionConfigs(cfg).tecs
    PROVE  /\ Len(t) = 1
           /\ t[1].name = ExtensionName(w) /\ t[1].plugin = buildWAFPluginJSON(s, rules)
<1>1. cfg.filters = (IF ChallengeEnabled(s) THEN <<buildChallengeFilter(w, s, hmac, ld)>> ELSE <<>>)
                    \o <<wafFilter(w, s, rules, ld)>>
  BY Zenon DEF BuildFromWAF
<1>2. cfg.filters = <<>> \o <<wafFilter(w, s, rules, ld)>>
  BY <1>1
<1>3. cfg.filters = <<wafFilter(w, s, rules, ld)>>  BY <1>2
<1>. QED  BY <1>3 DEF BuildTypedExtensionConfigs, buildOne, wafFilter

\* A sequence of two elements.
LEMMA PairOf ==
    ASSUME NEW a, NEW b, NEW c, c = <<a>> \o <<b>>
    PROVE  DOMAIN c = 1..2 /\ c[1] = a /\ c[2] = b
<1>1. <<a>> \in Seq({a, b}) /\ <<b>> \in Seq({a, b}) /\ Len(<<a>>) = 1 /\ Len(<<b>>) = 1  OBVIOUS
<1>. QED  BY <1>1

\* With a challenge it gives two, the challenge first, that fetch their code from the same
\* cluster.
LEMMA TecsTwo ==
    ASSUME NEW w, NEW s, NEW rules, NEW found, NEW hmac, NEW ld, ChallengeEnabled(s),
           NEW cfg, cfg = BuildFromWAF(w, s, rules, found, hmac, ld),
           NEW t, t = BuildTypedExtensionConfigs(cfg).tecs
    PROVE  /\ Len(t) = 2 /\ t[1].fetch = t[2].fetch
           /\ t[1].name = ChallengeExtensionName(w)
           /\ t[2].name = ExtensionName(w) /\ t[2].plugin = buildWAFPluginJSON(s, rules)
<1>1. cfg.filters = (IF ChallengeEnabled(s) THEN <<buildChallengeFilter(w, s, hmac, ld)>> ELSE <<>>)
                    \o <<wafFilter(w, s, rules, ld)>>
  BY Zenon DEF BuildFromWAF
<1>2. cfg.filters = <<buildChallengeFilter(w, s, hmac, ld)>> \o <<wafFilter(w, s, rules, ld)>>
  BY <1>1
<1>3. PICK f : f = cfg.filters  OBVIOUS
<1>4. /\ DOMAIN f = 1..2 /\ f[1] = buildChallengeFilter(w, s, hmac, ld)
      /\ f[2] = wafFilter(w, s, rules, ld)
  BY <1>2, <1>3, PairOf
<1>5. PICK from : from = wasmFetchCluster(cfg)  OBVIOUS
<1>6. t = [i \in 1..2 |-> buildOne(f[i], from)]  BY <1>3, <1>4, <1>5 DEF BuildTypedExtensionConfigs
<1>7. Len(t) = 2 /\ t[1] = buildOne(f[1], from) /\ t[2] = buildOne(f[2], from)  BY <1>6
<1>. QED  BY ONLY <1>4, <1>7 DEF buildOne, wafFilter, buildChallengeFilter

\* Upsert leaves a name no new resource has as it was once the WAF's own are dropped.
LEMMA UpsertedElsewhere ==
    ASSUME NEW w, NEW t, Len(t) \in Nat, NEW n \in ResourceNames, \A i \in 1..Len(t) : t[i].name # n
    PROVE  Upserted(w, t)[n] = Without(resources, w)[n]
BY DEF Upserted

\* Upsert stores a new resource under its name.
LEMMA UpsertedAt ==
    ASSUME NEW w, NEW t, Len(t) \in Nat, NEW n \in ResourceNames
    PROVE  \A j \in 1..Len(t) :
              t[j].name = n /\ (\A i \in 1..Len(t) \ {j} : t[i].name # n) => Upserted(w, t)[n] = t[j]
<1>. SUFFICES ASSUME NEW j \in 1..Len(t), t[j].name = n, \A i \in 1..Len(t) \ {j} : t[i].name # n
              PROVE  Upserted(w, t)[n] = t[j]
  OBVIOUS
<1>1. {i \in 1..Len(t) : t[i].name = n} = {j}  OBVIOUS
<1>2. Max({j}) = j  BY DEF Max
<1>3. Upserted(w, t)[n] = LET I == {i \in 1..Len(t) : t[i].name = n}
                          IN  IF I # {} THEN t[Max(I)] ELSE Without(resources, w)[n]
  BY DEF Upserted
<1>. QED  BY <1>1, <1>2, <1>3, Zenon

\* Upsert of one resource replaces the WAF's register: its old challenge goes.
LEMMA PutOne ==
    ASSUME NEW w \in Wafs, NEW t, Len(t) = 1, t[1].name = ExtensionName(w)
    PROVE  ConfigOf(Upserted(w, t)) = [ConfigOf(resources) EXCEPT ![w] = [waf |-> t[1], challenge |-> NoTEC]]
<1>1. ASSUME NEW v \in Wafs
      PROVE  /\ Upserted(w, t)[ExtensionName(v)] = IF v = w THEN t[1] ELSE Without(resources, w)[ExtensionName(v)]
             /\ Upserted(w, t)[ChallengeExtensionName(v)] = Without(resources, w)[ChallengeExtensionName(v)]
  <2>1. ASSUME NEW n \in ResourceNames, n # ExtensionName(w)
        PROVE  Upserted(w, t)[n] = Without(resources, w)[n]
    <3>1. Len(t) \in Nat /\ \A i \in 1..Len(t) : t[i].name # n  BY <2>1
    <3>. QED  BY <3>1, UpsertedElsewhere, Zenon
  <2>2. Upserted(w, t)[ExtensionName(w)] = t[1]
    <3>1. Len(t) \in Nat /\ 1 \in 1..Len(t) /\ \A i \in 1..Len(t) \ {1} : t[i].name # ExtensionName(w)  OBVIOUS
    <3>. QED  BY <3>1, NamesAre, UpsertedAt
  <2>. QED  BY <2>1, <2>2, NamesDiffer, NamesAre
<1>2. ASSUME NEW v \in Wafs
      PROVE  /\ v # w => Without(resources, w)[ExtensionName(v)] = resources[ExtensionName(v)]
             /\ Without(resources, w)[ChallengeExtensionName(v)] =
                    IF v = w THEN NoTEC ELSE resources[ChallengeExtensionName(v)]
  BY NamesDiffer, NamesAre DEF Without, NamesOfWAF
<1>. QED  BY <1>1, <1>2, Zenon DEF ConfigOf

\* Upsert of two resources replaces the WAF's register, and no other.
LEMMA PutTwo ==
    ASSUME NEW w \in Wafs, NEW t, Len(t) = 2, t[1].name = ChallengeExtensionName(w), t[2].name = ExtensionName(w)
    PROVE  ConfigOf(Upserted(w, t)) = [ConfigOf(resources) EXCEPT ![w] = [waf |-> t[2], challenge |-> t[1]]]
<1>1. ASSUME NEW v \in Wafs
      PROVE  /\ Upserted(w, t)[ExtensionName(v)] = IF v = w THEN t[2] ELSE Without(resources, w)[ExtensionName(v)]
             /\ Upserted(w, t)[ChallengeExtensionName(v)] =
                    IF v = w THEN t[1] ELSE Without(resources, w)[ChallengeExtensionName(v)]
  <2>1. ASSUME NEW n \in ResourceNames, n # ExtensionName(w), n # ChallengeExtensionName(w)
        PROVE  Upserted(w, t)[n] = Without(resources, w)[n]
    <3>1. Len(t) \in Nat /\ \A i \in 1..Len(t) : t[i].name # n  BY <2>1
    <3>. QED  BY <3>1, UpsertedElsewhere, Zenon
  <2>2. Upserted(w, t)[ExtensionName(w)] = t[2]
    <3>1. Len(t) \in Nat /\ 2 \in 1..Len(t) /\ \A i \in 1..Len(t) \ {2} : t[i].name # ExtensionName(w)
      BY NamesDiffer
    <3>2. \A j \in 1..Len(t) :
              t[j].name = ExtensionName(w) /\ (\A i \in 1..Len(t) \ {j} : t[i].name # ExtensionName(w))
                  => Upserted(w, t)[ExtensionName(w)] = t[j]
      BY <3>1, NamesAre, UpsertedAt
    <3>. QED  BY <3>1, <3>2
  <2>3. Upserted(w, t)[ChallengeExtensionName(w)] = t[1]
    <3>1. /\ Len(t) \in Nat /\ 1 \in 1..Len(t)
          /\ \A i \in 1..Len(t) \ {1} : t[i].name # ChallengeExtensionName(w)
      BY NamesDiffer
    <3>. QED  BY <3>1, NamesAre, UpsertedAt
  <2>. QED  BY <2>1, <2>2, <2>3, NamesDiffer, NamesAre
<1>2. ASSUME NEW v \in Wafs, v # w
      PROVE  /\ Without(resources, w)[ExtensionName(v)] = resources[ExtensionName(v)]
             /\ Without(resources, w)[ChallengeExtensionName(v)] = resources[ChallengeExtensionName(v)]
  BY <1>2, NamesDiffer, NamesAre DEF Without, NamesOfWAF
<1>. QED  BY <1>1, <1>2, Zenon DEF ConfigOf

-----------------------------------------------------------------------------
(* What holds of WAFs and the worker.                                       *)

WAFObject == [live : BOOLEAN, del : BOOLEAN, fin : BOOLEAN, spec : WafSpecs \cup {NoSpec}]
\* A task with exactly the fields of the worker.
Named(t) == [pc |-> t.pc, waf |-> t.waf, copy |-> t.copy, hmac |-> t.hmac, seen |-> t.seen,
             cfg |-> t.cfg, todo |-> t.todo, ret |-> t.ret]

\* A live WAF has a spec users write.
WafsOK == waf \in [Wafs -> WAFObject] /\ \A w \in Wafs : waf[w].live => waf[w].spec \in WafSpecs

\* The worker that is about to compile holds a WAF and its spec.
TaskOK ==
    /\ task = Named(task)
    /\ task.ret \in {"", "others", "status"}
    /\ task.pc \in {"secret", "build"} => task.waf \in Wafs /\ task.copy.spec \in WafSpecs

RInv == WafsOK /\ TaskOK

\* An idle worker satisfies TaskOK.
LEMMA IdleOK == ASSUME task = Idle PROVE TaskOK
BY Zenon DEF Idle, TaskOK, Named

\* A worker that becomes idle satisfies TaskOK.
LEMMA IdleOKPrime == ASSUME task' = Idle PROVE TaskOK'
BY Zenon DEF Idle, TaskOK, Named

\* The fields of the worker that has read a WAF (Reconcile).
LEMMA BegunOK ==
    ASSUME NEW w, NEW b, b = Begun(w)
    PROVE  b = Named(b) /\ b.pc = "build" /\ b.waf = w /\ b.copy = waf[w] /\ b.ret = ""
<1>1. PICK i : i = Idle  OBVIOUS
<1>2. i = Named(i) /\ i.ret = ""  BY <1>1, Zenon DEF Idle, Named
<1>3. b = [i EXCEPT !.pc = "build", !.waf = w, !.copy = waf[w]]  BY <1>1 DEF Begun
<1>. QED  BY <1>2, <1>3, Zenon DEF Named

\* Writing one WAF keeps WafsOK.
LEMMA WafPut ==
    ASSUME WafsOK, NEW w \in Wafs, NEW o \in WAFObject, o.live => o.spec \in WafSpecs, waf' = [waf EXCEPT ![w] = o]
    PROVE  WafsOK'
BY DEF WafsOK

\* RInv holds when the operator starts.
LEMMA RInit == Init => RInv
<1>. SUFFICES ASSUME Init PROVE RInv  OBVIOUS
<1>1. PICK st \in Starts : waf = [w \in Wafs |-> IF w \in DOMAIN st.wafs
                                  THEN [live |-> TRUE, del |-> FALSE, fin |-> FALSE, spec |-> st.wafs[w]]
                                  ELSE NoWaf]
  BY Zenon DEF Init
<1>2. \A w \in DOMAIN st.wafs : st.wafs[w] \in WafSpecs  BY SpecsAssumption
<1>3. WafsOK  BY <1>1, <1>2 DEF WafsOK, WAFObject, NoWaf
<1>4. TaskOK  BY IdleOK, Zenon DEF Init
<1>. QED  BY <1>3, <1>4 DEF RInv

\* Every step keeps RInv: the worker compiles the copy of a live WAF, whatever users do to
\* the WAF meanwhile (Reconcile of waf_controller.go).
LEMMA RNext == RInv /\ [Next]_vars => RInv'
<1>. SUFFICES ASSUME WafsOK, TaskOK, [Next]_vars PROVE WafsOK' /\ TaskOK'
  BY DEF RInv
<1>. USE DEF memory, slots
<1>1. ASSUME NEW w \in Wafs, NEW s \in WafSpecs, ApplyWAF(w, s) PROVE WafsOK' /\ TaskOK'
  <2>1. UNCHANGED task /\ waf' = [waf EXCEPT ![w].live = TRUE, ![w].spec = s]  BY <1>1 DEF ApplyWAF
  <2>2. TaskOK'  BY <2>1, Zenon DEF TaskOK
  <2>3. PICK o : o = [waf[w] EXCEPT !.live = TRUE, !.spec = s]  OBVIOUS
  <2>4. o \in WAFObject /\ o.spec \in WafSpecs  BY <2>3, Zenon DEF WafsOK, WAFObject
  <2>5. waf' = [waf EXCEPT ![w] = o]  BY <2>1, <2>3, Zenon
  <2>. QED  BY <2>2, <2>4, <2>5, WafPut, Zenon
<1>2. ASSUME NEW w \in Wafs, DeleteWAF(w) PROVE WafsOK' /\ TaskOK'
  <2>1. UNCHANGED task
        /\ waf' = [waf EXCEPT ![w] = IF waf[w].fin THEN [waf[w] EXCEPT !.del = TRUE] ELSE NoWaf]
    BY <1>2 DEF DeleteWAF
  <2>2. TaskOK'  BY <2>1, Zenon DEF TaskOK
  <2>3. PICK o : o = IF waf[w].fin THEN [waf[w] EXCEPT !.del = TRUE] ELSE NoWaf  BY Zenon
  <2>4. o \in WAFObject /\ (o.live => o.spec \in WafSpecs)  BY <2>3, Zenon DEF WafsOK, WAFObject, NoWaf
  <2>. QED  BY <2>1, <2>2, <2>3, <2>4, WafPut, Zenon
<1>3. ASSUME NEW w \in Wafs, PeerCreates(w) PROVE WafsOK' /\ TaskOK'
  BY <1>3, Zenon DEF PeerCreates, WafsOK, TaskOK, Named
<1>4. ASSUME NEW w \in Wafs, ReconcileBegin(w) PROVE WafsOK' /\ TaskOK'
  <2>1. CASE waf' = [waf EXCEPT ![w].fin = TRUE] /\ UNCHANGED task
    <3>1. PICK o : o = [waf[w] EXCEPT !.fin = TRUE]  BY Zenon
    <3>2. o \in WAFObject /\ (o.live => o.spec \in WafSpecs)  BY <3>1, Zenon DEF WafsOK, WAFObject
    <3>3. waf' = [waf EXCEPT ![w] = o]  BY <2>1, <3>1
    <3>4. WafsOK'  BY <3>2, <3>3, WafPut, Zenon
    <3>. QED  BY <2>1, <3>4, Zenon DEF TaskOK
  <2>2. CASE UNCHANGED <<waf, task>>  BY <2>2, Zenon DEF WafsOK, TaskOK
  <2>3. ASSUME UNCHANGED waf, waf[w].live,
               NEW x, task' = [Begun(w) EXCEPT !.pc = "secret", !.seen = x]
        PROVE  WafsOK' /\ TaskOK'
    <3>1. PICK b : b = Begun(w)  OBVIOUS
    <3>2. b = Named(b) /\ b.waf = w /\ b.copy = waf[w] /\ b.ret = ""
      BY ONLY <3>1, BegunOK, Zenon
    <3>3. b = Named(b) /\ b.waf = w /\ b.copy.spec \in WafSpecs /\ b.ret = ""
      BY <2>3, <3>2, Zenon DEF WafsOK
    <3>4. TaskOK'  BY <2>3, <3>1, <3>3, Zenon DEF TaskOK, Named
    <3>. QED  BY <2>3, <3>4 DEF WafsOK
  <2>4. ASSUME UNCHANGED waf, waf[w].live, NEW h, task' = [Begun(w) EXCEPT !.hmac = h]
        PROVE  WafsOK' /\ TaskOK'
    <3>1. PICK b : b = Begun(w)  OBVIOUS
    <3>2. b = Named(b) /\ b.waf = w /\ b.copy = waf[w] /\ b.ret = ""
      BY ONLY <3>1, BegunOK, Zenon
    <3>3. b = Named(b) /\ b.waf = w /\ b.copy.spec \in WafSpecs /\ b.ret = ""
      BY <2>4, <3>2, Zenon DEF WafsOK
    <3>4. TaskOK'  BY <2>4, <3>1, <3>3, Zenon DEF TaskOK, Named
    <3>. QED  BY <2>4, <3>4 DEF WafsOK
  <2>. QED  BY <1>4, <2>1, <2>2, <2>3, <2>4, Zenon DEF ReconcileBegin
<1>5. ASSUME NEW w \in Wafs, reconcileDelete(w) PROVE WafsOK' /\ TaskOK'
  BY <1>5, Zenon DEF reconcileDelete, WafsOK, TaskOK, Named, Idle
<1>6. ASSUME NEW n, NEW new, EditSecret(n, new) PROVE WafsOK' /\ TaskOK'
  BY <1>6, Zenon DEF EditSecret, WafsOK, TaskOK, Named
<1>7. ASSUME NEW n, GarbageCollect(n) PROVE WafsOK' /\ TaskOK'
  BY <1>7, Zenon DEF GarbageCollect, WafsOK, TaskOK, Named
<1>8. ASSUME NEW d, EditObservability(d) PROVE WafsOK' /\ TaskOK'
  BY <1>8, Zenon DEF EditObservability, WafsOK, TaskOK, Named
<1>9. ASSUME NEW i, Restart(i) PROVE WafsOK' /\ TaskOK'
  BY <1>9, IdleOKPrime DEF Restart, WafsOK
<1>10. CASE APIError
  BY <1>10, IdleOKPrime DEF APIError, Retry, WafsOK
<1>11. CASE ensureManagedChallengeSecret
  <2>1. WafsOK'  BY <1>11, Zenon DEF ensureManagedChallengeSecret, WafsOK
  <2>2. task' = Idle \/ \E v : task' = [task EXCEPT !.pc = "build", !.hmac = v, !.seen = NoSecret]
    BY <1>11, Zenon DEF ensureManagedChallengeSecret, adoptManagedSecretIfNeeded, UpdateSecret, CreateSecret,
                 Resolved, Fail, Retry
  <2>3. task.pc = "secret"  BY <1>11, Zenon DEF ensureManagedChallengeSecret
  <2>4. CASE task' = Idle  BY <2>1, <2>4, IdleOKPrime
  <2>5. ASSUME NEW v, task' = [task EXCEPT !.pc = "build", !.hmac = v, !.seen = NoSecret] PROVE TaskOK'
    BY <2>3, <2>5, Zenon DEF TaskOK, Named
  <2>. QED  BY <2>1, <2>2, <2>4, <2>5, Zenon
<1>12. CASE BuildAndPublish
  <2>1. WafsOK'  BY <1>12, Zenon DEF BuildAndPublish, WafsOK
  <2>2. task' = Idle \/ \E c, td : task' = [task EXCEPT !.pc = "others", !.cfg = c, !.todo = td]
    BY <1>12, Zenon DEF BuildAndPublish, Fail, Retry
  <2>3. CASE task' = Idle  BY <2>1, <2>3, IdleOKPrime
  <2>4. ASSUME NEW c, NEW td, task' = [task EXCEPT !.pc = "others", !.cfg = c, !.todo = td] PROVE TaskOK'
    BY <2>4, Zenon DEF TaskOK, Named
  <2>. QED  BY <2>1, <2>2, <2>3, <2>4, Zenon
<1>13. CASE DeleteEnvoyFilter \/ DeleteCiliumEnvoyConfig \/ egDelete
  BY <1>13, Zenon DEF DeleteEnvoyFilter, DeleteCiliumEnvoyConfig, egDelete, WafsOK, TaskOK, Named
<1>14. CASE MaybeDeleteOTelAccessLogEnvoyFilter \/ deleteAccessLogEnvoyFilter
  <2>1. UNCHANGED waf /\ \E pc \in {task.ret, "delete"} : task' = [task EXCEPT !.pc = pc]
    BY <1>14 DEF MaybeDeleteOTelAccessLogEnvoyFilter, deleteAccessLogEnvoyFilter, Goto
  <2>2. TaskOK'  BY <2>1, Zenon DEF TaskOK, Named
  <2>. QED  BY <2>1, <2>2 DEF WafsOK
<1>15. CASE EnsureEnvoyFilter \/ EnsureOTelAccessLogEnvoyFilter \/ EnsureCiliumEnvoyConfig \/ egEnsure
  BY <1>15, Zenon DEF EnsureEnvoyFilter, EnsureOTelAccessLogEnvoyFilter, EnsureCiliumEnvoyConfig, egEnsure, Goto,
               WafsOK, TaskOK, Named
<1>16. CASE WriteStatus  BY <1>16, IdleOKPrime DEF WriteStatus, WafsOK
<1>17. CASE Release
  <2>1. waf' = [v \in Wafs |-> IF v = task.waf THEN NoWaf ELSE waf[v]] /\ task' = Idle
    BY <1>17, Zenon DEF Release, WafsOK
  <2>2. NoWaf \in WAFObject /\ ~NoWaf.live  BY DEF NoWaf, WAFObject
  <2>3. WafsOK'  BY <2>1, <2>2 DEF WafsOK
  <2>. QED  BY <2>1, <2>3, IdleOKPrime
<1>18. CASE UNCHANGED vars  BY <1>18, Zenon DEF vars, WafsOK, TaskOK, Named
<1>. QED
  BY <1>1, <1>2, <1>3, <1>4, <1>5, <1>6, <1>7, <1>8, <1>9, <1>10, <1>11, <1>12, <1>13, <1>14, <1>15,
     <1>16, <1>17, <1>18, Zenon DEF Next

-----------------------------------------------------------------------------
(* Refinement.                                                              *)

\* Publishing what BuildFromWAF compiled, whether or not the snapshot is set, replaces the
\* whole configuration of one WAF by one of a single build (Publish, Upsert).
LEMMA PublishRefines ==
    ASSUME NEW w \in Wafs, NEW s \in WafSpecs, NEW found, NEW hmac, NEW ld, NEW ok \in BOOLEAN,
           NEW cfg, cfg = BuildFromWAF(w, s, RuleLines[w], found, hmac, ld),
           resources' = Upserted(w, BuildTypedExtensionConfigs(cfg).tecs),
           publishLocked(resources', ok)
    PROVE  Registry!Put(w)
<1>1. PICK t : t = BuildTypedExtensionConfigs(cfg).tecs  OBVIOUS
<1>2. ASSUME NEW c, OfOneBuild(w, c), ConfigOf(resources') = [ConfigOf(resources) EXCEPT ![w] = c]
      PROVE  Registry!Put(w)
  <2>1. ConfigOf(resources')[w] = c  BY <1>2, Zenon DEF ConfigOf
  <2>2. c # NoConfig  BY <1>2 DEF OfOneBuild, NoConfig
  <2>3. ConfigOf(snapshot') \in {ConfigOf(snapshot), ConfigOf(resources')}  BY DEF publishLocked
  <2>. QED  BY <1>2, <2>1, <2>2, <2>3, Zenon DEF Registry!Put, Registry!Reach
<1>3. CASE ~ChallengeEnabled(s)
  <2>1. Len(t) = 1 /\ t[1].name = ExtensionName(w) /\ t[1].plugin = buildWAFPluginJSON(s, RuleLines[w])
    BY ONLY <1>1, <1>3, TecsOne, cfg = BuildFromWAF(w, s, RuleLines[w], found, hmac, ld)
  <2>2. PICK c : c = [waf |-> t[1], challenge |-> NoTEC]  BY Zenon
  <2>3. ConfigOf(resources') = [ConfigOf(resources) EXCEPT ![w] = c]  BY <1>1, <2>1, <2>2, PutOne, Zenon
  <2>4. t[1] # NoTEC  BY <2>1 DEF NoTEC, ExtensionName
  <2>5. OfOneBuild(w, c)  BY <1>3, <2>1, <2>2, <2>4 DEF OfOneBuild, ChallengeEnabled
  <2>. QED  BY <1>2, <2>3, <2>5
<1>4. CASE ChallengeEnabled(s)
  <2>1. /\ Len(t) = 2 /\ t[1].fetch = t[2].fetch /\ t[1].name = ChallengeExtensionName(w)
        /\ t[2].name = ExtensionName(w) /\ t[2].plugin = buildWAFPluginJSON(s, RuleLines[w])
    BY ONLY <1>1, <1>4, TecsTwo, cfg = BuildFromWAF(w, s, RuleLines[w], found, hmac, ld), SMTT(30)
  <2>2. PICK c : c = [waf |-> t[2], challenge |-> t[1]]  BY Zenon
  <2>3. ConfigOf(resources') = [ConfigOf(resources) EXCEPT ![w] = c]  BY <1>1, <2>1, <2>2, PutTwo, SMTT(30)
  <2>4. t[1] # NoTEC /\ t[2] # NoTEC  BY <2>1, SMTT(30) DEF NoTEC, ExtensionName, ChallengeExtensionName
  <2>5. OfOneBuild(w, c)  BY <1>4, <2>1, <2>2, <2>4 DEF OfOneBuild, ChallengeEnabled
  <2>. QED  BY <1>2, <2>3, <2>5
<1>. QED  BY <1>3, <1>4

\* reconcileDelete empties the WAF's register, whether or not its publish succeeds
\* (DropLocal, Delete).
LEMMA DropRefines == ASSUME NEW w \in Wafs, reconcileDelete(w) PROVE Registry!Drop(w)
<1>1. PICK ok \in BOOLEAN : ECDSDelete(w, ok)  BY DEF reconcileDelete
<1>2. ConfigOf(resources') = [ConfigOf(resources) EXCEPT ![w] = NoConfig]
  BY <1>1, WithoutConfig DEF ECDSDelete
<1>3. ConfigOf(snapshot') \in {ConfigOf(snapshot), ConfigOf(resources')}
  BY <1>1 DEF ECDSDelete, publishLocked
<1>. QED  BY <1>2, <1>3 DEF Registry!Drop, Registry!Reach

\* Every step of the reconciler is a step of the registry or leaves it alone.
LEMMA NextRefines ==
    RInv /\ [Next]_vars => [Registry!Next]_<<ConfigOf(resources), ConfigOf(snapshot)>>
<1>. SUFFICES ASSUME TaskOK, [Next]_vars
              PROVE  Registry!Next \/ UNCHANGED <<resources, snapshot>>
  BY DEF RInv
<1>1. CASE \E i \in Images : Restart(i)  BY <1>1, RestartRefines DEF Registry!Next
<1>2. CASE \E w \in Wafs : reconcileDelete(w)  BY <1>2, DropRefines DEF Registry!Next
<1>3. CASE BuildAndPublish
  <2>1. task.waf \in Wafs /\ task.copy.spec \in WafSpecs  BY <1>3, Zenon DEF BuildAndPublish, TaskOK
  <2>2. \/ UNCHANGED <<resources, snapshot>>
        \/ \E found, cfg : \E ok \in BOOLEAN :
              /\ cfg = BuildFromWAF(task.waf, task.copy.spec, RuleLines[task.waf], found, task.hmac, loaded)
              /\ resources' = Upserted(task.waf, BuildTypedExtensionConfigs(cfg).tecs)
              /\ publishLocked(resources', ok)
    BY <1>3, Zenon DEF BuildAndPublish
  <2>. QED  BY <2>1, <2>2, PublishRefines, Zenon DEF Registry!Next
<1>4. CASE UNCHANGED memory \/ UNCHANGED vars  BY <1>4 DEF memory, vars
<1>5. CASE DeleteEnvoyFilter \/ DeleteCiliumEnvoyConfig \/ egDelete
           \/ MaybeDeleteOTelAccessLogEnvoyFilter \/ deleteAccessLogEnvoyFilter
           \/ EnsureEnvoyFilter \/ EnsureOTelAccessLogEnvoyFilter \/ EnsureCiliumEnvoyConfig \/ egEnsure
           \/ WriteStatus \/ Release \/ APIError \/ ensureManagedChallengeSecret
  BY <1>5, Zenon DEF DeleteEnvoyFilter, DeleteCiliumEnvoyConfig, egDelete, MaybeDeleteOTelAccessLogEnvoyFilter,
     deleteAccessLogEnvoyFilter, EnsureEnvoyFilter, EnsureOTelAccessLogEnvoyFilter, EnsureCiliumEnvoyConfig,
     egEnsure, WriteStatus, Release, APIError, ensureManagedChallengeSecret, memory
<1>6. ASSUME NEW w \in Wafs, NEW s, ApplyWAF(w, s) \/ DeleteWAF(w) \/ PeerCreates(w) \/ ReconcileBegin(w)
      PROVE  UNCHANGED <<resources, snapshot>>
  BY <1>6, Zenon DEF ApplyWAF, DeleteWAF, PeerCreates, ReconcileBegin, memory
<1>7. ASSUME NEW n, NEW x, EditSecret(n, x) \/ GarbageCollect(n) \/ EditObservability(x)
      PROVE  UNCHANGED <<resources, snapshot>>
  BY <1>7 DEF EditSecret, GarbageCollect, EditObservability, memory
<1>. QED  BY <1>1, <1>2, <1>3, <1>4, <1>5, <1>6, <1>7, Zenon DEF Next

\* For every set of WAFs, specs, Secrets and images: the ECDS server under the reconciler
\* implements a register per WAF.  Each step replaces or drops one WAF's configuration as
\* a whole, and Envoy is served the state after some such step, never the WAF filter of
\* one build with the challenge of another (Upsert, Delete, publishLocked).
THEOREM ServingImplementsRegistry == Spec => ImplementsRegistry
<1>1. Spec => []RInv  BY RInit, RNext, PTL DEF Spec
<1>. QED  BY <1>1, InitRefines, NextRefines, PTL DEF Spec, ImplementsRegistry, Registry!Spec
-----------------------------------------------------------------------------
(* Type correctness, by the variables the parts are about.                  *)

Pcs == {"idle", "secret", "build", "others", "maybe", "delete", "otel", "status"}
Sinks == {"", "Absent", "Ready", "Degraded", "OTelClusterMissing"}

\* The slot is set; the access log may be still to do.
Ensured == task.pc \in {"otel", "status"} \/ (task.pc \in {"maybe", "delete"} /\ task.ret = "status")

\* A deleted WAF carries the finalizer and one that carries it exists; the worker holds one
\* that does, and a slot was set for a provider.
Finalized == \A w \in Wafs : (waf[w].del => waf[w].fin) /\ (waf[w].fin => waf[w].live)
HeldT ==
    /\ Finalized
    /\ task.pc \in Pcs
    /\ task.pc # "idle" => task.waf \in Wafs /\ waf[task.waf].live /\ waf[task.waf].fin
    /\ task.pc \in {"maybe", "delete"} => task.ret \in {"others", "status"}
    /\ Ensured => task.cfg.provider \in Providers
SecretsT ==
    /\ secrets = [n \in SecretNames |-> secrets[n]]
    /\ \A n \in SecretNames :
          /\ secrets[n] = [val |-> secrets[n].val, owner |-> secrets[n].owner, stale |-> secrets[n].stale]
          /\ secrets[n].owner \in Wafs \cup {"none"}
NamedT(res) == \A n \in ResourceNames : res[n].name \in {<<>>, n}
StatusT == sts \in [Wafs -> [ready : BOOLEAN, provider : Providers \cup {""}, sink : Sinks]]
QueueT == kq \subseteq Wafs /\ otel \in BOOLEAN
ObjectsT == ef = [w \in Wafs |-> ef[w]] /\ cec = [w \in Wafs |-> cec[w]] /\ index = [w \in Wafs |-> index[w]]
PartsT == HeldT /\ SecretsT /\ NamedT(resources) /\ NamedT(snapshot) /\ StatusT /\ QueueT /\ ObjectsT
TInv == WafsOK /\ TaskOK /\ PartsT

\* The parts make TypeOK.
LEMMA TypesHold == TInv => TypeOK
BY Zenon DEF TInv, PartsT, HeldT, SecretsT, NamedT, StatusT, QueueT, Pcs, Sinks, TypeOK, WafsOK, WAFObject

\* A variable that does not change keeps its type.
LEMMA SameT ==
    ASSUME PartsT
    PROVE  /\ UNCHANGED secrets => SecretsT'
           /\ UNCHANGED <<resources, snapshot>> => NamedT(resources)' /\ NamedT(snapshot)'
           /\ UNCHANGED sts => StatusT'
           /\ UNCHANGED <<kq, otel>> => QueueT'
           /\ UNCHANGED <<ef, cec, index>> => ObjectsT'
           /\ UNCHANGED <<waf, task>> => HeldT'
           /\ UNCHANGED waf /\ task' = Idle => HeldT'
<1>1. ASSUME UNCHANGED waf, task' = Idle PROVE HeldT'
  <2>1. task'.pc = "idle"  BY <1>1, Zenon DEF Idle
  <2>. QED  BY <1>1, <2>1, Zenon DEF PartsT, HeldT, Finalized, Ensured, Pcs
<1>2. ASSUME UNCHANGED <<waf, task>> PROVE HeldT'
  <2>1. Ensured' <=> Ensured  BY <1>2 DEF Ensured
  <2>. QED  BY <1>2, <2>1, Zenon DEF PartsT, HeldT, Finalized
<1>. QED  BY <1>1, <1>2, Zenon DEF PartsT, SecretsT, NamedT, StatusT, QueueT, ObjectsT

\* A worker that goes on with its WAF.
LEMMA OnT ==
    ASSUME PartsT, task.pc # "idle", UNCHANGED waf, task'.pc \in Pcs, task'.waf = task.waf,
           task'.pc \in {"maybe", "delete"} => task'.ret \in {"others", "status"},
           Ensured' => task'.cfg.provider \in Providers
    PROVE  HeldT'
BY Zenon DEF PartsT, HeldT, Finalized

\* Writing one Secret.
LEMMA SecretPut ==
    ASSUME PartsT, NEW n \in SecretNames, NEW v, NEW o \in Wafs \cup {"none"}, NEW b, NEW sec,
           sec = [val |-> v, owner |-> o, stale |-> b], secrets' = [secrets EXCEPT ![n] = sec]
    PROVE  SecretsT'
BY DEF PartsT, SecretsT

\* Writing one status.
LEMMA StatusPut ==
    ASSUME PartsT, NEW w \in Wafs, NEW o \in [ready : BOOLEAN, provider : Providers \cup {""}, sink : Sinks],
           sts' = [sts EXCEPT ![w] = o]
    PROVE  StatusT'
BY Zenon DEF PartsT, StatusT

\* A WAF that is not ready (markNotReady).
LEMMA NotReadyT == ASSUME PartsT, NEW w \in Wafs, markNotReady(w) PROVE StatusT'
BY Zenon DEF PartsT, StatusT, markNotReady

\* Types after the steps of users, of the garbage collector and of another leader.
LEMMA UserTypes ==
    ASSUME WafsOK, PartsT,
           \/ \E w \in Wafs : (\E s \in WafSpecs : ApplyWAF(w, s)) \/ DeleteWAF(w) \/ PeerCreates(w)
           \/ \E n \in SecretNames : (\E new : EditSecret(n, new)) \/ GarbageCollect(n)
           \/ \E d \in ObsStates : EditObservability(d)
    PROVE  PartsT'
<1>. USE DEF memory, slots
<1>u. /\ UNCHANGED secrets => SecretsT'
      /\ UNCHANGED <<resources, snapshot>> => NamedT(resources)' /\ NamedT(snapshot)'
      /\ UNCHANGED sts => StatusT'
      /\ UNCHANGED <<ef, cec, index>> => ObjectsT'
      /\ UNCHANGED <<waf, task>> => HeldT'
  BY SameT
<1>1. ASSUME NEW w \in Wafs, NEW s \in WafSpecs, ApplyWAF(w, s) PROVE PartsT'
  <2>1. /\ waf' = [waf EXCEPT ![w].live = TRUE, ![w].spec = s] /\ kq' = kq \cup {w}
        /\ UNCHANGED <<sts, secrets, ef, otel, cec, index, resources, snapshot, task>>
    BY <1>1 DEF ApplyWAF
  <2>2. \A v \in Wafs : waf'[v].del = waf[v].del /\ waf'[v].fin = waf[v].fin /\ (waf[v].live => waf'[v].live)
    BY <2>1 DEF WafsOK, WAFObject
  <2>3. HeldT' /\ QueueT'  BY <2>1, <2>2, Zenon DEF PartsT, HeldT, Finalized, QueueT, Ensured
  <2>. QED  BY <1>u, <2>1, <2>3 DEF PartsT
<1>2. ASSUME NEW w \in Wafs, DeleteWAF(w) PROVE PartsT'
  <2>1. /\ waf' = [waf EXCEPT ![w] = IF waf[w].fin THEN [waf[w] EXCEPT !.del = TRUE] ELSE NoWaf] /\ kq' = kq \cup {w}
        /\ UNCHANGED <<sts, secrets, ef, otel, cec, index, resources, snapshot, task>>
    BY <1>2 DEF DeleteWAF
  <2>2. \A v \in Wafs : /\ waf[v].fin /\ waf[v].live => waf'[v].live /\ waf'[v].fin
                        /\ (waf'[v].fin => waf'[v].live) /\ (waf'[v].del => waf'[v].fin)
    BY <2>1 DEF WafsOK, WAFObject, NoWaf, PartsT, HeldT, Finalized
  <2>3. HeldT' /\ QueueT'  BY <2>1, <2>2, Zenon DEF PartsT, HeldT, Finalized, QueueT, Ensured
  <2>. QED  BY <1>u, <2>1, <2>3 DEF PartsT
<1>3. ASSUME NEW w \in Wafs, PeerCreates(w) PROVE PartsT'
  <2>0. PICK n, g : n = ManagedChallengeSecretName(w) /\ g = generateChallengeHMAC  OBVIOUS
  <2>1. /\ secrets' = [secrets EXCEPT ![n] = Owned(w, g)] /\ kq' = kq \cup {w}
        /\ UNCHANGED <<waf, sts, ef, otel, cec, index, resources, snapshot, task>>
    BY <1>3, <2>0, Zenon DEF PeerCreates
  <2>2. n \in SecretNames  BY <2>0 DEF ManagedChallengeSecretName, SecretNames
  <2>3. SecretsT'  BY <2>1, <2>2, SecretPut, Zenon DEF Owned
  <2>. QED  BY <1>u, <2>1, <2>3, Zenon DEF PartsT, QueueT
<1>4. ASSUME NEW n \in SecretNames, NEW new, EditSecret(n, new) PROVE PartsT'
  <2>1. /\ secrets' = [secrets EXCEPT ![n] = new] /\ kq' = kq \cup OwnerOf(n)
        /\ new \in {NoSecret, [secrets[n] EXCEPT !.val = "short"], [NoSecret EXCEPT !.val = "user-hmac"]}
        /\ UNCHANGED <<waf, sts, ef, otel, cec, index, resources, snapshot, task>>
    BY <1>4 DEF EditSecret
  <2>2. /\ secrets[n] = [val |-> secrets[n].val, owner |-> secrets[n].owner, stale |-> secrets[n].stale]
        /\ secrets[n].owner \in Wafs \cup {"none"}
    BY Zenon DEF PartsT, SecretsT
  <2>3. \E v, o, b : new = [val |-> v, owner |-> o, stale |-> b] /\ o \in Wafs \cup {"none"}
    <3>1. CASE new = NoSecret  BY <3>1, Zenon DEF NoSecret
    <3>2. CASE new = [secrets[n] EXCEPT !.val = "short"]
      <4>1. new = [val |-> "short", owner |-> secrets[n].owner, stale |-> secrets[n].stale]  BY <2>2, <3>2
      <4>. QED  BY <2>2, <4>1, Zenon
    <3>3. CASE new = [NoSecret EXCEPT !.val = "user-hmac"]
      <4>1. new = [val |-> "user-hmac", owner |-> "none", stale |-> FALSE]  BY <3>3, Zenon DEF NoSecret
      <4>. QED  BY <4>1, Zenon
    <3>. QED  BY <2>1, <3>1, <3>2, <3>3
  <2>4. SecretsT'  BY <2>1, <2>3, SecretPut, Zenon
  <2>. QED  BY <1>u, <2>1, <2>4 DEF PartsT, QueueT, OwnerOf
<1>5. ASSUME NEW n \in SecretNames, GarbageCollect(n) PROVE PartsT'
  <2>1. /\ secrets' = [secrets EXCEPT ![n] = NoSecret] /\ kq' = kq \cup OwnerOf(n)
        /\ UNCHANGED <<waf, sts, ef, otel, cec, index, resources, snapshot, task>>
    BY <1>5, Zenon DEF GarbageCollect
  <2>4. SecretsT'  BY <2>1, SecretPut, Zenon DEF NoSecret
  <2>. QED  BY <1>u, <2>1, <2>4, Zenon DEF PartsT, QueueT, OwnerOf
<1>6. ASSUME NEW d, EditObservability(d) PROVE PartsT'
  <2>1. /\ kq' = kq \cup requestsForManagedWAFs
        /\ UNCHANGED <<waf, sts, secrets, ef, otel, cec, index, resources, snapshot, task>>
    BY <1>6 DEF EditObservability
  <2>. QED  BY <1>u, <2>1, Zenon DEF PartsT, QueueT, requestsForManagedWAFs
<1>. QED  BY <1>1, <1>2, <1>3, <1>4, <1>5, <1>6

\* The fields of a Secret that has become stale.
LEMMA StaleIs ==
    ASSUME NEW v, NEW o, NEW b, NEW x, NEW r, r = [val |-> v, owner |-> o, stale |-> b]
    PROVE  [r EXCEPT !.stale = x] = [val |-> v, owner |-> o, stale |-> x]
OBVIOUS

\* Types after the steps of the worker that leave what it deploys alone.
LEMMA WorkerTypes ==
    ASSUME WafsOK, TaskOK, PartsT,
           \/ \E w \in Wafs : ReconcileBegin(w) \/ reconcileDelete(w)
           \/ \E i \in Images : Restart(i)
           \/ APIError \/ ensureManagedChallengeSecret \/ WriteStatus \/ Release
    PROVE  PartsT'
<1>. USE DEF memory, slots
<1>u. /\ UNCHANGED secrets => SecretsT'
      /\ UNCHANGED <<resources, snapshot>> => NamedT(resources)' /\ NamedT(snapshot)'
      /\ UNCHANGED sts => StatusT'
      /\ UNCHANGED <<kq, otel>> => QueueT'
      /\ UNCHANGED <<ef, cec, index>> => ObjectsT'
      /\ UNCHANGED <<waf, task>> => HeldT'
      /\ UNCHANGED waf /\ task' = Idle => HeldT'
  BY SameT, Zenon
<1>w. task.pc # "idle" => task.waf \in Wafs  BY Zenon DEF PartsT, HeldT
<1>1. ASSUME NEW w \in Wafs, ReconcileBegin(w) PROVE PartsT'
  <2>1. UNCHANGED <<secrets, ef, cec, otel, index, resources, snapshot>> /\ kq' \in {kq \cup {w}, kq \ {w}}
    BY <1>1, Zenon DEF ReconcileBegin
  <2>2. QueueT'  BY <2>1 DEF PartsT, QueueT
  <2>3. \/ waf' = [waf EXCEPT ![w].fin = TRUE] /\ waf[w].live /\ UNCHANGED <<task, sts>>
        \/ /\ waf[w].live /\ waf[w].fin /\ UNCHANGED <<waf, sts>>
           /\ \/ \E sec : task' = [Begun(w) EXCEPT !.pc = "secret", !.seen = sec]
              \/ \E h : task' = [Begun(w) EXCEPT !.hmac = h]
        \/ markNotReady(w) /\ UNCHANGED <<waf, task>>
    BY <1>1, Zenon DEF ReconcileBegin
  <2>4. CASE waf' = [waf EXCEPT ![w].fin = TRUE] /\ waf[w].live /\ UNCHANGED <<task, sts>>
    <3>1. \A v \in Wafs : /\ waf'[v].del = waf[v].del /\ waf'[v].live = waf[v].live
                          /\ waf'[v].fin = IF v = w THEN TRUE ELSE waf[v].fin
      BY <2>4 DEF WafsOK, WAFObject
    <3>2. HeldT'  BY <2>4, <3>1 DEF PartsT, HeldT, Finalized, Ensured
    <3>. QED  BY <1>u, <2>1, <2>2, <2>4, <3>2 DEF PartsT
  <2>5. CASE /\ waf[w].live /\ waf[w].fin /\ UNCHANGED <<waf, sts>>
             /\ \/ \E sec : task' = [Begun(w) EXCEPT !.pc = "secret", !.seen = sec]
                \/ \E h : task' = [Begun(w) EXCEPT !.hmac = h]
    <3>0. PICK b : b = Begun(w)  OBVIOUS
    <3>1. b = Named(b) /\ b.pc = "build" /\ b.waf = w  BY <3>0, BegunOK, ZenonT(60)
    <3>2. \/ \E sec : task' = [b EXCEPT !.pc = "secret", !.seen = sec]
          \/ \E h : task' = [b EXCEPT !.hmac = h]
      BY <2>5, <3>0, Zenon
    <3>3. task'.pc \in {"secret", "build"} /\ task'.waf = w  BY <3>1, <3>2, Zenon DEF Named
    <3>4. HeldT'  BY <2>5, <3>3, Zenon DEF PartsT, HeldT, Finalized, Ensured, Pcs
    <3>. QED  BY <1>u, <2>1, <2>2, <2>5, <3>4, Zenon DEF PartsT
  <2>6. CASE markNotReady(w) /\ UNCHANGED <<waf, task>>
    BY <1>u, <2>1, <2>2, <2>6, NotReadyT, Zenon DEF PartsT
  <2>. QED  BY <2>3, <2>4, <2>5, <2>6, Zenon
<1>2. ASSUME NEW w \in Wafs, reconcileDelete(w) PROVE PartsT'
  <2>1. /\ UNCHANGED <<waf, sts, secrets, ef, otel, cec>> /\ kq' = kq \ {w} /\ waf[w].live /\ waf[w].del
        /\ index' = [index EXCEPT ![w] = NoObject]
        /\ task' = [Idle EXCEPT !.pc = "others", !.waf = w, !.copy = waf[w], !.todo = Providers]
        /\ resources' = Without(resources, w) /\ snapshot' \in {snapshot, resources'}
    BY <1>2, Zenon DEF reconcileDelete, ECDSDelete, publishLocked, IndexDelete
  <2>2. QueueT' /\ ObjectsT'  BY <2>1, Zenon DEF PartsT, QueueT, ObjectsT
  <2>3. task'.pc = "others" /\ task'.waf = w  BY <2>1 DEF Idle
  <2>4. HeldT'  BY <2>1, <2>3 DEF PartsT, HeldT, Finalized, Ensured, Pcs
  <2>5. NamedT(resources)'  BY <2>1 DEF PartsT, NamedT, Without, NoTEC
  <2>6. NamedT(snapshot)'  BY <2>1, <2>5 DEF PartsT, NamedT
  <2>. QED  BY <1>u, <2>1, <2>2, <2>4, <2>5, <2>6 DEF PartsT
<1>3. ASSUME NEW i \in Images, Restart(i) PROVE PartsT'
  <2>1. /\ UNCHANGED <<waf, sts, secrets, ef, otel, cec>> /\ kq' = {w \in Wafs : waf[w].live}
        /\ index' = [w \in Wafs |-> NoObject] /\ task' = Idle /\ resources' = NoResources /\ snapshot' = NoResources
    BY <1>3, Zenon DEF Restart
  <2>2. QueueT' /\ ObjectsT'  BY <2>1, Zenon DEF PartsT, QueueT, ObjectsT
  <2>3. NamedT(resources)' /\ NamedT(snapshot)'  BY <2>1, Zenon DEF NamedT, NoResources, NoTEC
  <2>. QED  BY <1>u, <2>1, <2>2, <2>3, Zenon DEF PartsT
<1>4. ASSUME APIError PROVE PartsT'
  <2>1. /\ UNCHANGED <<waf, secrets, ef, otel, cec, index, resources, snapshot>> /\ task.pc # "idle"
        /\ task' = Idle /\ kq' = kq \cup {task.waf} /\ (UNCHANGED sts \/ markNotReady(task.waf))
    BY <1>4, Zenon DEF APIError, Retry
  <2>2. QueueT' /\ StatusT'  BY <1>u, <1>w, <2>1, NotReadyT, Zenon DEF PartsT, QueueT
  <2>. QED  BY <1>u, <2>1, <2>2, Zenon DEF PartsT
<1>5. ASSUME ensureManagedChallengeSecret PROVE PartsT'
  <2>0. PICK n : n = ManagedChallengeSecretName(task.waf)  OBVIOUS
  <2>1. task.pc = "secret" /\ UNCHANGED <<waf, ef, otel, cec, index, resources, snapshot>>
    BY <1>5, Zenon DEF ensureManagedChallengeSecret
  <2>2. /\ UNCHANGED secrets \/ \E v : secrets' = [secrets EXCEPT ![n] = Owned(task.waf, v)]
        /\ UNCHANGED sts \/ markNotReady(task.waf)
        /\ UNCHANGED kq \/ kq' = kq \cup {task.waf}
        /\ task' = Idle \/ \E v : task' = [task EXCEPT !.pc = "build", !.hmac = v, !.seen = NoSecret]
    BY <1>5, <2>0, Zenon DEF ensureManagedChallengeSecret, adoptManagedSecretIfNeeded, UpdateSecret, CreateSecret, PutSecret,
                      Resolved, Fail, Retry
  <2>3. n \in SecretNames  BY <1>w, <2>0, <2>1, Zenon DEF ManagedChallengeSecretName, SecretNames
  <2>4. SecretsT'
    <3>1. CASE UNCHANGED secrets  BY <1>u, <3>1
    <3>2. ASSUME NEW v, secrets' = [secrets EXCEPT ![n] = Owned(task.waf, v)] PROVE SecretsT'
      BY <1>w, <2>1, <2>3, <3>2, SecretPut, Zenon DEF Owned
    <3>. QED  BY <2>2, <3>1, <3>2, Zenon
  <2>5. QueueT' /\ StatusT'  BY <1>u, <1>w, <2>1, <2>2, NotReadyT, Zenon DEF PartsT, QueueT
  <2>6. HeldT'
    <3>1. CASE task' = Idle  BY <1>u, <2>1, <3>1
    <3>2. CASE \E v : task' = [task EXCEPT !.pc = "build", !.hmac = v, !.seen = NoSecret]
      <4>1. task'.pc = "build" /\ task'.waf = task.waf  BY <3>2, Zenon DEF TaskOK, Named
      <4>. QED  BY <2>1, <4>1, Zenon DEF PartsT, HeldT, Finalized, Ensured, Pcs
    <3>. QED  BY <2>2, <3>1, <3>2, Zenon
  <2>. QED  BY <1>u, <2>1, <2>4, <2>5, <2>6, Zenon DEF PartsT
<1>6. ASSUME WriteStatus PROVE PartsT'
  <2>0. PICK o : o = [ready |-> TRUE, provider |-> task.cfg.provider,
                      sink |-> applyTelemetrySink(waf[task.waf].spec, task.cfg.provider)]
    BY Zenon
  <2>1. /\ UNCHANGED <<waf, secrets, ef, otel, cec, index, resources, snapshot, kq>> /\ task' = Idle
        /\ task.pc = "status" /\ sts' = [sts EXCEPT ![task.waf] = o]
    BY <1>6, <2>0, Zenon DEF WriteStatus
  <2>2. task.cfg.provider \in Providers  BY <2>1, Zenon DEF PartsT, HeldT, Ensured
  <2>3. o \in [ready : BOOLEAN, provider : Providers \cup {""}, sink : Sinks]
    BY <2>0, <2>2, Zenon DEF applyTelemetrySink, evaluateTelemetrySink, Sinks
  <2>4. StatusT'  BY <1>w, <2>1, <2>3, StatusPut, Zenon
  <2>. QED  BY <1>u, <2>1, <2>4, Zenon DEF PartsT
<1>7. ASSUME Release PROVE PartsT'
  <2>1. /\ UNCHANGED <<ef, otel, cec, index, resources, snapshot, kq>> /\ task' = Idle /\ task.pc = "others"
        /\ waf' = [waf EXCEPT ![task.waf] = NoWaf] /\ sts' = [sts EXCEPT ![task.waf] = NoStatus]
        /\ secrets' = [n \in SecretNames |->
                          IF secrets[n].owner = task.waf THEN [secrets[n] EXCEPT !.stale = TRUE] ELSE secrets[n]]
    BY <1>7, Zenon DEF Release
  <2>2. SecretsT'
    <3>1. ASSUME NEW n \in SecretNames
          PROVE  /\ secrets'[n] = [val |-> secrets'[n].val, owner |-> secrets'[n].owner, stale |-> secrets'[n].stale]
                 /\ secrets'[n].owner \in Wafs \cup {"none"}
      <4>1. PICK v, o, b : secrets[n] = [val |-> v, owner |-> o, stale |-> b] /\ o \in Wafs \cup {"none"}
        BY Zenon DEF PartsT, SecretsT
      <4>2. secrets'[n] \in {[val |-> v, owner |-> o, stale |-> TRUE], [val |-> v, owner |-> o, stale |-> b]}
        <5>0. secrets'[n] = IF secrets[n].owner = task.waf THEN [secrets[n] EXCEPT !.stale = TRUE] ELSE secrets[n]
          BY <2>1, Zenon
        <5>1. CASE o = task.waf
          <6>1. secrets[n].owner = task.waf  BY <4>1, <5>1
          <6>2. secrets'[n] = [secrets[n] EXCEPT !.stale = TRUE]  BY <5>0, <6>1, Zenon
          <6>3. PICK r, yes : r = secrets[n] /\ yes = TRUE  OBVIOUS
          <6>4. r = [val |-> v, owner |-> o, stale |-> b]  BY <4>1, <6>3, Zenon
          <6>5. [r EXCEPT !.stale = yes] = [val |-> v, owner |-> o, stale |-> yes]  BY ONLY <6>4, StaleIs
          <6>6. secrets'[n] = [r EXCEPT !.stale = yes]  BY <6>2, <6>3, Zenon
          <6>. QED  BY ONLY <6>3, <6>5, <6>6, Zenon
        <5>2. CASE o # task.waf  BY <4>1, <5>0, <5>2
        <5>. QED  BY <5>1, <5>2, Zenon
      <4>. QED  BY <4>1, <4>2, SMTT(30)
    <3>. QED  BY <2>1, <3>1, Zenon DEF SecretsT
  <2>3. NoStatus \in [ready : BOOLEAN, provider : Providers \cup {""}, sink : Sinks]  BY DEF NoStatus, Sinks
  <2>4. StatusT'  BY <1>w, <2>1, <2>3, StatusPut, Zenon
  <2>5. HeldT'
    <3>1. \A v \in Wafs : waf'[v] = IF v = task.waf THEN NoWaf ELSE waf[v]  BY <2>1 DEF WafsOK
    <3>2. task'.pc = "idle"  BY <2>1, Zenon DEF Idle
    <3>. QED  BY <3>1, <3>2, SMTT(30) DEF PartsT, HeldT, Finalized, Ensured, Pcs, NoWaf
  <2>. QED  BY <1>u, <2>1, <2>2, <2>4, <2>5 DEF PartsT
<1>. QED  BY <1>1, <1>2, <1>3, <1>4, <1>5, <1>6, <1>7

\* Upsert stores the resources of a build under their names.
LEMMA UpsertedNamed ==
    ASSUME NamedT(resources), NEW w \in Wafs, NEW s, NEW rules, NEW found, NEW hmac, NEW ld,
           NEW cfg, cfg = BuildFromWAF(w, s, rules, found, hmac, ld),
           NEW t, t = BuildTypedExtensionConfigs(cfg).tecs, NEW res, res = Upserted(w, t)
    PROVE  NamedT(res)
<1>1. ASSUME NEW a, NEW c, a.name = ExtensionName(w), c.name \in {<<>>, ChallengeExtensionName(w)},
             ConfigOf(res) = [ConfigOf(resources) EXCEPT ![w] = [waf |-> a, challenge |-> c]]
      PROVE  NamedT(res)
  <2>1. \A v \in Wafs : /\ res[ExtensionName(v)] = IF v = w THEN a ELSE resources[ExtensionName(v)]
                        /\ res[ChallengeExtensionName(v)] = IF v = w THEN c ELSE resources[ChallengeExtensionName(v)]
    BY <1>1, Zenon DEF ConfigOf
  <2>2. \A v \in Wafs : /\ res[ExtensionName(v)].name \in {<<>>, ExtensionName(v)}
                        /\ res[ChallengeExtensionName(v)].name \in {<<>>, ChallengeExtensionName(v)}
    <3>. SUFFICES ASSUME NEW v \in Wafs
                  PROVE  /\ res[ExtensionName(v)].name \in {<<>>, ExtensionName(v)}
                         /\ res[ChallengeExtensionName(v)].name \in {<<>>, ChallengeExtensionName(v)}
      BY Zenon
    <3>1. CASE v = w  BY <1>1, <2>1, <3>1, Zenon
    <3>2. CASE v # w  BY <2>1, <3>2, NamesAre, Zenon DEF NamedT
    <3>. QED  BY <3>1, <3>2, Zenon
  <2>. QED  BY <2>2, Zenon DEF NamedT, ResourceNames
<1>2. CASE ~ChallengeEnabled(s)
  <2>1. Len(t) = 1 /\ t[1].name = ExtensionName(w)  BY <1>2, TecsOne, SMTT(30)
  <2>2. ConfigOf(res) = [ConfigOf(resources) EXCEPT ![w] = [waf |-> t[1], challenge |-> NoTEC]]  BY <2>1, PutOne, Zenon
  <2>3. NoTEC.name = <<>>  BY DEF NoTEC
  <2>. QED  BY <1>1, <2>1, <2>2, <2>3, Zenon
<1>3. CASE ChallengeEnabled(s)
  <2>1. Len(t) = 2 /\ t[1].name = ChallengeExtensionName(w) /\ t[2].name = ExtensionName(w)  BY <1>3, TecsTwo, SMTT(30)
  <2>2. ConfigOf(res) = [ConfigOf(resources) EXCEPT ![w] = [waf |-> t[2], challenge |-> t[1]]]  BY <2>1, PutTwo, Zenon
  <2>. QED  BY <1>1, <2>1, <2>2, Zenon
<1>. QED  BY <1>2, <1>3

\* Types after the steps that publish a WAF and set its slots.
LEMMA SlotTypes ==
    ASSUME WafsOK, TaskOK, PartsT,
           \/ BuildAndPublish
           \/ DeleteEnvoyFilter \/ DeleteCiliumEnvoyConfig \/ egDelete
           \/ MaybeDeleteOTelAccessLogEnvoyFilter \/ deleteAccessLogEnvoyFilter
           \/ EnsureEnvoyFilter \/ EnsureOTelAccessLogEnvoyFilter \/ EnsureCiliumEnvoyConfig \/ egEnsure
    PROVE  PartsT'
<1>. USE DEF memory, slots
<1>u. /\ UNCHANGED secrets => SecretsT'
      /\ UNCHANGED <<resources, snapshot>> => NamedT(resources)' /\ NamedT(snapshot)'
      /\ UNCHANGED sts => StatusT'
      /\ UNCHANGED <<kq, otel>> => QueueT'
      /\ UNCHANGED <<ef, cec, index>> => ObjectsT'
      /\ UNCHANGED waf /\ task' = Idle => HeldT'
  BY SameT, Zenon
<1>w. task.pc # "idle" => task.waf \in Wafs  BY Zenon DEF PartsT, HeldT
<1>1. ASSUME BuildAndPublish PROVE PartsT'
  <2>1. task.pc = "build" /\ UNCHANGED <<waf, secrets, ef, otel, cec>>  BY <1>1, Zenon DEF BuildAndPublish
  <2>2. PICK found, cfg, t : /\ cfg = BuildFromWAF(task.waf, task.copy.spec, RuleLines[task.waf], found, task.hmac, loaded)
                             /\ t = BuildTypedExtensionConfigs(cfg).tecs
                             /\ \/ UNCHANGED <<resources, snapshot>>
                                \/ resources' = Upserted(task.waf, t) /\ snapshot' \in {snapshot, resources'}
                             /\ \/ Fail /\ UNCHANGED index
                                \/ /\ IndexUpsert(cfg) /\ UNCHANGED <<kq, sts>>
                                   /\ task' = [task EXCEPT !.pc = "others", !.cfg = cfg,
                                                           !.todo = Providers \ {cfg.provider}]
    BY <1>1, ZenonT(60) DEF BuildAndPublish, publishLocked
  <2>3. NamedT(resources)' /\ NamedT(snapshot)'
    <3>1. CASE UNCHANGED <<resources, snapshot>>  BY <1>u, <3>1
    <3>2. CASE resources' = Upserted(task.waf, t) /\ snapshot' \in {snapshot, resources'}
      <4>1. NamedT(Upserted(task.waf, t))  BY <1>w, <2>1, <2>2, UpsertedNamed, Zenon DEF PartsT
      <4>. QED  BY <3>2, <4>1, Zenon DEF PartsT, NamedT
    <3>. QED  BY <2>2, <3>1, <3>2
  <2>4. CASE Fail /\ UNCHANGED index
    <3>1. task' = Idle /\ kq' = kq \cup {task.waf} /\ markNotReady(task.waf)  BY <2>4 DEF Fail, Retry
    <3>2. QueueT' /\ StatusT'  BY <1>w, <2>1, <3>1, NotReadyT DEF PartsT, QueueT
    <3>. QED  BY <1>u, <2>1, <2>3, <2>4, <3>1, <3>2, Zenon DEF PartsT
  <2>5. CASE /\ IndexUpsert(cfg) /\ UNCHANGED <<kq, sts>>
             /\ task' = [task EXCEPT !.pc = "others", !.cfg = cfg, !.todo = Providers \ {cfg.provider}]
    <3>1. task'.pc = "others" /\ task'.waf = task.waf  BY <2>5, Zenon DEF TaskOK, Named
    <3>2. HeldT'  BY <2>1, <3>1, OnT, Zenon DEF Ensured, Pcs
    <3>3. ObjectsT'  BY <2>1, <2>5 DEF PartsT, ObjectsT, IndexUpsert
    <3>. QED  BY <1>u, <2>1, <2>3, <2>5, <3>2, <3>3 DEF PartsT
  <2>. QED  BY <2>2, <2>4, <2>5
<1>2. ASSUME /\ UNCHANGED <<waf, secrets, resources, snapshot, sts, kq>>
             /\ task.pc # "idle" /\ task'.pc \in Pcs /\ task'.waf = task.waf /\ otel' \in BOOLEAN
             /\ \/ UNCHANGED ef \/ \E x, y : ef' = [ef EXCEPT ![x] = y]
             /\ \/ UNCHANGED cec \/ \E x, y : cec' = [cec EXCEPT ![x] = y]
             /\ \/ UNCHANGED index \/ \E x, y : index' = [index EXCEPT ![x] = y]
             /\ task'.pc \in {"maybe", "delete"} => task'.ret \in {"others", "status"}
             /\ Ensured' => task'.cfg.provider \in Providers
      PROVE  PartsT'
  <2>1. HeldT'  BY <1>2, OnT, Zenon
  <2>2. ObjectsT' /\ QueueT'  BY <1>2, Zenon DEF PartsT, ObjectsT, QueueT
  <2>. QED  BY <1>u, <1>2, <2>1, <2>2, Zenon DEF PartsT
<1>3. task = Named(task) /\ task.ret \in {"", "others", "status"} /\ otel \in BOOLEAN
      /\ (Ensured => task.cfg.provider \in Providers)
  BY Zenon DEF TaskOK, PartsT, QueueT, HeldT
<1>4. CASE DeleteEnvoyFilter
  <2>1. task'.pc = "maybe" /\ task'.ret = "others" /\ task'.waf = task.waf  BY <1>3, <1>4, Zenon DEF DeleteEnvoyFilter, Named
  <2>. QED  BY <1>2, <1>3, <1>4, <2>1, Zenon DEF DeleteEnvoyFilter, Ensured, Pcs
<1>5. CASE DeleteCiliumEnvoyConfig
  <2>1. task'.pc = "others" /\ task'.waf = task.waf  BY <1>3, <1>5, Zenon DEF DeleteCiliumEnvoyConfig, Named
  <2>. QED  BY <1>2, <1>3, <1>5, <2>1, Zenon DEF DeleteCiliumEnvoyConfig, Ensured, Pcs
<1>6. CASE egDelete
  <2>1. task'.pc = "others" /\ task'.waf = task.waf  BY <1>3, <1>6, Zenon DEF egDelete, Named
  <2>. QED  BY <1>2, <1>3, <1>6, <2>1, Zenon DEF egDelete, IndexDelete, Ensured, Pcs
<1>7. CASE MaybeDeleteOTelAccessLogEnvoyFilter
  <2>1. /\ task.pc = "maybe" /\ task'.pc \in {task.ret, "delete"} /\ task'.ret = task.ret /\ task'.waf = task.waf
        /\ task'.cfg = task.cfg
    BY <1>3, <1>7, Zenon DEF MaybeDeleteOTelAccessLogEnvoyFilter, Goto, Named
  <2>2. task.ret \in {"others", "status"}  BY <2>1, Zenon DEF PartsT, HeldT
  <2>. QED  BY <1>2, <1>3, <1>7, <2>1, <2>2, Zenon DEF MaybeDeleteOTelAccessLogEnvoyFilter, Ensured, Pcs
<1>8. CASE deleteAccessLogEnvoyFilter
  <2>1. task.pc = "delete" /\ task'.pc = task.ret /\ task'.ret = task.ret /\ task'.waf = task.waf /\ task'.cfg = task.cfg
    BY <1>3, <1>8, Zenon DEF deleteAccessLogEnvoyFilter, Goto, Named
  <2>2. task.ret \in {"others", "status"}  BY <2>1, Zenon DEF PartsT, HeldT
  <2>. QED  BY <1>2, <1>3, <1>8, <2>1, <2>2, Zenon DEF deleteAccessLogEnvoyFilter, Ensured, Pcs
<1>9. CASE EnsureEnvoyFilter
  <2>1. task.pc = "others" /\ task'.pc \in {"otel", "maybe"} /\ task'.ret = "status" /\ task'.waf = task.waf /\ task'.cfg.provider = "Istio"
    BY <1>3, <1>9, Zenon DEF EnsureEnvoyFilter, Named
  <2>. QED  BY <1>2, <1>3, <1>9, <2>1, Zenon DEF EnsureEnvoyFilter, Pcs, Providers
<1>10. CASE EnsureOTelAccessLogEnvoyFilter
  <2>1. task.pc = "otel" /\ task'.pc = "status" /\ task'.waf = task.waf /\ task'.cfg = task.cfg
    BY <1>3, <1>10, Zenon DEF EnsureOTelAccessLogEnvoyFilter, Goto, Named
  <2>. QED  BY <1>2, <1>3, <1>10, <2>1, Zenon DEF EnsureOTelAccessLogEnvoyFilter, Ensured, Pcs
<1>11. CASE EnsureCiliumEnvoyConfig
  <2>1. task.pc = "others" /\ task'.pc = "status" /\ task'.waf = task.waf /\ task'.cfg.provider = "Cilium"
    BY <1>3, <1>11, Zenon DEF EnsureCiliumEnvoyConfig, Goto, Named
  <2>. QED  BY <1>2, <1>3, <1>11, <2>1, Zenon DEF EnsureCiliumEnvoyConfig, Pcs, Providers
<1>12. CASE egEnsure
  <2>1. task.pc = "others" /\ task'.pc = "status" /\ task'.waf = task.waf /\ task'.cfg.provider = "EnvoyGateway"
    BY <1>3, <1>12, Zenon DEF egEnsure, Goto, Named
  <2>. QED  BY <1>2, <1>3, <1>12, <2>1, Zenon DEF egEnsure, IndexUpsert, Pcs, Providers
<1>. QED  BY <1>1, <1>4, <1>5, <1>6, <1>7, <1>8, <1>9, <1>10, <1>11, <1>12

\* The operator starts with every variable in its type.
LEMMA TInit == Init => TInv
<1>. SUFFICES ASSUME Init PROVE TInv  OBVIOUS
<1>1. WafsOK /\ TaskOK  BY RInit DEF RInv
<1>2. PICK st \in Starts : /\ kq = DOMAIN st.wafs
                          /\ waf = [w \in Wafs |-> IF w \in DOMAIN st.wafs
                                  THEN [live |-> TRUE, del |-> FALSE, fin |-> FALSE, spec |-> st.wafs[w]]
                                  ELSE NoWaf]
  BY Zenon DEF Init
<1>3. HeldT
  <2>1. \A w \in Wafs : waf[w].del = FALSE /\ waf[w].fin = FALSE  BY <1>2, Zenon DEF NoWaf
  <2>2. task.pc = "idle"  BY Zenon DEF Init, Idle
  <2>. QED  BY <2>1, <2>2, Zenon DEF HeldT, Finalized, Ensured, Pcs
<1>4. SecretsT  BY Zenon DEF Init, SecretsT, NoSecret
<1>5. NamedT(resources) /\ NamedT(snapshot)  BY Zenon DEF Init, NamedT, NoResources, NoTEC
<1>6. StatusT  BY Zenon DEF Init, StatusT, NoStatus, Sinks
<1>7. QueueT /\ ObjectsT  BY <1>2, SpecsAssumption, Zenon DEF Init, QueueT, ObjectsT
<1>. QED  BY <1>1, <1>3, <1>4, <1>5, <1>6, <1>7 DEF TInv, PartsT

\* Every step keeps the types.
LEMMA TNext == TInv /\ [Next]_vars => TInv'
<1>. SUFFICES ASSUME TInv, [Next]_vars PROVE TInv'  OBVIOUS
<1>1. WafsOK /\ TaskOK /\ PartsT  BY DEF TInv
<1>2. WafsOK' /\ TaskOK'  BY <1>1, RNext DEF RInv
<1>3. PartsT'
  <2>1. CASE Next  BY <1>1, <2>1, UserTypes, WorkerTypes, SlotTypes, Zenon DEF Next
  <2>2. CASE UNCHANGED vars  BY <1>1, <2>2, SameT, Zenon DEF vars, PartsT
  <2>. QED  BY <2>1, <2>2
<1>. QED  BY <1>2, <1>3 DEF TInv

\* Every variable keeps its type, whatever users, failures and restarts do: a worker only
\* holds a WAF that its finalizer keeps, and a status names a provider (Reconcile,
\* ensureFinalizer, updateStatus).
THEOREM ServingTypes == Spec => []TypeOK
<1>. QED  BY TInit, TNext, TypesHold, PTL DEF Spec
=============================================================================
