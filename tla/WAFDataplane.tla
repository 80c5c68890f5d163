---------------------------- MODULE WAFDataplane ----------------------------
(***************************************************************************)
(* The life of one WAF object: from the API server to the ECDS snapshot    *)
(* and the Envoy Gateway index of every operator replica, and to the       *)
(* Istio and Cilium filter slots.                                          *)
(*                                                                         *)
(* Two controllers reconcile the WAF: the leader-elected one               *)
(* (internal/controller/waf), which owns the finalizer, the status and the *)
(* slots, and one on every replica (internal/dataplane/sync), which only   *)
(* fills that replica's memory.  Both run internal/dataplane/pipeline.     *)
(* The WAF refers to one RuleSet and the RuleSet to one SecRule.  The WAF  *)
(* is read from the replica's informer cache; the resolver's reads of      *)
(* RuleSet and SecRule go to the API server.                               *)
(*                                                                         *)
(* A write of the WAF makes every other copy out of date; fresh and lfresh *)
(* say which copies still carry the current resourceVersion.  A WAF copy   *)
(* with the current resourceVersion equals the WAF, so the leader's worker *)
(* keeps lfresh and what it needs of its copy, lcfg and lrefs.             *)
(***************************************************************************)
EXTENDS Integers, FiniteSets

CONSTANTS
    Replicas,     \* operator pods
    Providers,    \* provider types a WAF may ask for
    Edits,        \* the kinds of environment steps that happen
    MaxEdits      \* bound on environment steps

ASSUME ProvidersAssumption == Providers \subseteq {"EnvoyGateway", "Istio", "Cilium"} /\ Providers # {}
ASSUME EditsAssumption == MaxEdits \in Nat
ASSUME ReplicasAssumption == Replicas # {}

VARIABLES
    waf, rs, rule,  \* API server: the WAF, its RuleSet, the RuleSet's SecRule
    slots,          \* API server: the slot object of each provider, by owner uid
    seen, fresh,    \* each replica's cached WAF; whether it is current
    pend,           \* each replica's undelivered RuleSet and SecRule events
    leader,         \* the replica that holds the lease
    lq, lpc,        \* the leader's WAF controller: key queued, step
    lfresh, lrefs, lcfg,  \* its copy of the WAF: current, condition; what it builds
    sq, spc, scfg,  \* each replica's sync controller: key queued, step, what it builds
    ecds, eg,       \* each replica's ECDS snapshot and Envoy Gateway index, for this WAF
    edits           \* environment steps left

api == <<waf, rs, rule, slots>>
informers == <<seen, fresh, pend>>
leading == <<leader, lq, lpc, lfresh, lrefs, lcfg>>
syncing == <<sq, spc, scfg>>
memory == <<ecds, eg>>
vars == <<api, informers, leading, syncing, memory, edits>>

-----------------------------------------------------------------------------
(* Objects.  gen stands for the content of a spec, uid for the object.      *)

Stamps == 0..(MaxEdits + 1)
Stamp == MaxEdits + 2 - edits

\* The status of the condition Ready, "" when it is missing or when its
\* observedGeneration is not the object's generation.
Condition == {"", "True", "False"}

\* The condition ReferencesResolved: its message when it is False.  What is at fault is
\* the RuleSet or the SecRule, and it is missing or terminating, or the call failed.
CallFailed == {"RuleSet failed", "SecRule failed"}
RefsCondition == {"", "True", "RuleSet missing", "RuleSet terminating", "SecRule missing", "SecRule terminating"}
                 \cup CallFailed

\* refs and ready are the conditions ReferencesResolved and Ready; fin stands
\* for waf.kubewaf.io/ecds and finalizer.kubewaf.io, which come and go together.
WAF == [live: BOOLEAN, uid: Stamps, gen: Stamps, prov: Providers \cup {""}, fin: BOOLEAN,
        del: BOOLEAN, refs: RefsCondition, ready: Condition]
NoWAF == [live |-> FALSE, uid |-> 0, gen |-> 0, prov |-> "", fin |-> FALSE, del |-> FALSE,
          refs |-> "", ready |-> ""]

\* A RuleSet or SecRule: ref is the finalizer ruleSetRef.kubewaf.io, back tells
\* that status.ruleSetRefs names an owner.
RuleObject == [live: BOOLEAN, gen: Stamps, ref: BOOLEAN, del: BOOLEAN, back: BOOLEAN]
NoObject == [live |-> FALSE, gen |-> 0, ref |-> FALSE, del |-> FALSE, back |-> FALSE]
NewObject(g) == [NoObject EXCEPT !.live = TRUE, !.gen = g]

\* What Build makes of a WAF and its rules, as ECDS serves it.
Config == [uid: Stamps, gen: Stamps, prov: Providers \cup {""}, rs: Stamps, rule: Stamps]
NoConfig == [uid |-> 0, gen |-> 0, prov |-> "", rs |-> 0, rule |-> 0]
ConfigOf(w) == [uid |-> w.uid, gen |-> w.gen, prov |-> w.prov, rs |-> 0, rule |-> 0]
Complete(c) == c.rs # 0 /\ c.rule # 0

\* The slot objects that exist in the cluster (the Envoy Gateway slot is eg).
SlotProviders == Providers \ {"EnvoyGateway"}
RuleKinds == {"RuleSet", "SecRule"}

-----------------------------------------------------------------------------
\* A WAF that an earlier run of the operator has served.
ServedWAF(p) ==
    [live |-> TRUE, uid |-> 1, gen |-> 1, prov |-> p, fin |-> TRUE, del |-> FALSE,
     refs |-> "True", ready |-> "True"]

\* The operator starts: caches are filled and every key is queued; the memory of
\* the replicas is empty, the cluster may hold what an earlier run left there.
\* What users edit in the instance may be missing.
Init ==
    /\ waf \in {ServedWAF(p) : p \in Providers} \cup {NoWAF : e \in Edits \cap {"waf"}}
    /\ rs \in {NewObject(1)} \cup {NoObject : e \in Edits \cap {"ruleset"}}
    /\ rule \in {NewObject(1)} \cup {NoObject : e \in Edits \cap {"secrule"}}
    /\ slots = [p \in SlotProviders |-> IF p = waf.prov THEN waf.uid ELSE 0]
    /\ seen = [r \in Replicas |-> waf] /\ fresh = [r \in Replicas |-> TRUE]
    /\ pend = [r \in Replicas |-> {}]
    /\ leader \in Replicas /\ lq = waf.live /\ lpc = "idle"
    /\ lfresh = FALSE /\ lrefs = "" /\ lcfg = NoConfig
    /\ sq = [r \in Replicas |-> waf.live] /\ spc = [r \in Replicas |-> "idle"]
    /\ scfg = [r \in Replicas |-> NoConfig]
    /\ ecds = [r \in Replicas |-> NoConfig] /\ eg = [r \in Replicas |-> NoConfig]
    /\ edits = MaxEdits

Edit(kind) == kind \in Edits /\ edits > 0 /\ edits' = edits - 1

\* The WAF becomes w; own tells whether the leader's worker has the result.
Write(w, own) ==
    /\ waf' = w
    /\ fresh' = [r \in Replicas |-> FALSE]
    /\ lfresh' = own
NoWrite == UNCHANGED <<waf, fresh>> /\ lfresh' = FALSE

\* Every replica will be told of a change of a RuleSet or SecRule.  The event of
\* a SecRule without back-references maps to no WAF (MapSecLangToWAFs).
Notify(kind) ==
    IF kind = "SecRule" /\ ~rule.back /\ ~rule'.back THEN UNCHANGED pend
    ELSE pend' = [r \in Replicas |-> pend[r] \cup {kind}]

-----------------------------------------------------------------------------
(* Users.                                                                   *)

CreateWAF(p) ==
    /\ Edit("waf")
    /\ ~waf.live
    /\ Write([NoWAF EXCEPT !.live = TRUE, !.uid = Stamp, !.gen = Stamp, !.prov = p], FALSE)
    /\ UNCHANGED <<rs, rule, slots, seen, pend, leader, lq, lpc, lrefs, lcfg, syncing, memory>>

\* A new generation, which no condition has observed yet.
EditWAF(p) ==
    /\ Edit(IF p = waf.prov THEN "waf" ELSE "provider")
    /\ waf.live
    /\ Write([waf EXCEPT !.gen = Stamp, !.prov = p, !.refs = "", !.ready = ""], FALSE)
    /\ UNCHANGED <<rs, rule, slots, seen, pend, leader, lq, lpc, lrefs, lcfg, syncing, memory>>

DeleteWAF ==
    /\ Edit("delete")
    /\ waf.live /\ ~waf.del
    /\ Write(IF waf.fin THEN [waf EXCEPT !.del = TRUE] ELSE NoWAF, FALSE)
    /\ UNCHANGED <<rs, rule, slots, seen, pend, leader, lq, lpc, lrefs, lcfg, syncing, memory>>

\* A RuleSet, or a SecRule, is created or edited ...
Apply(o) == IF o.live THEN [o EXCEPT !.gen = Stamp] ELSE NewObject(Stamp)

ApplyRuleSet ==
    /\ Edit("ruleset")
    /\ rs' = Apply(rs) /\ Notify("RuleSet")
    /\ UNCHANGED <<waf, rule, slots, seen, fresh, leading, syncing, memory>>

ApplySecRule ==
    /\ Edit("secrule")
    /\ rule' = Apply(rule) /\ Notify("SecRule")
    /\ UNCHANGED <<waf, rs, slots, seen, fresh, leading, syncing, memory>>

\* ... or deleted: it has a finalizer, so it is terminating first.
DeleteRuleSet ==
    /\ Edit("ruleset")
    /\ rs.live /\ ~rs.del
    /\ rs' = [rs EXCEPT !.del = TRUE] /\ Notify("RuleSet")
    /\ UNCHANGED <<waf, rule, slots, seen, fresh, leading, syncing, memory>>

DeleteSecRule ==
    /\ Edit("secrule")
    /\ rule.live /\ ~rule.del
    /\ rule' = [rule EXCEPT !.del = TRUE] /\ Notify("SecRule")
    /\ UNCHANGED <<waf, rs, slots, seen, fresh, leading, syncing, memory>>

-----------------------------------------------------------------------------
(* The controllers of a deleted RuleSet and SecRule.                        *)

\* RuleSetReconciler drops finalizer.kubewaf.io only: a RuleSet that carries
\* ruleSetRef.kubewaf.io stays.
FinalizeRuleSet ==
    /\ rs.del /\ ~rs.ref
    /\ rs' = NoObject /\ Notify("RuleSet")
    /\ UNCHANGED <<waf, rule, slots, seen, fresh, leading, syncing, memory, edits>>

\* SecRuleReconciler drops both finalizers.
FinalizeSecRule ==
    /\ rule.del
    /\ rule' = NoObject /\ Notify("SecRule")
    /\ UNCHANGED <<waf, rs, slots, seen, fresh, leading, syncing, memory, edits>>

-----------------------------------------------------------------------------
(* Informers and the garbage collector.                                     *)

\* A WAF event: both controllers of the replica queue the key.
SyncWAF(r) ==
    /\ ~fresh[r]
    /\ seen' = [seen EXCEPT ![r] = waf] /\ fresh' = [fresh EXCEPT ![r] = TRUE]
    /\ sq' = [sq EXCEPT ![r] = TRUE]
    /\ lq' = (lq \/ r = leader)
    /\ UNCHANGED <<api, pend, leader, lpc, lfresh, lrefs, lcfg, spc, scfg, memory, edits>>

\* Fault: the controllers do not watch the objects a WAF refers to.
RuleEventIgnored(r, kind) ==
    /\ kind \in pend[r]
    /\ pend' = [pend EXCEPT ![r] = @ \ {kind}]
    /\ UNCHANGED <<api, seen, fresh, leading, syncing, memory, edits>>

\* A RuleSet or SecRule event: the WAF is found by the cache's index.
RuleEvent(r, kind) ==
    /\ kind \in pend[r]
    /\ pend' = [pend EXCEPT ![r] = @ \ {kind}]
    /\ sq' = [sq EXCEPT ![r] = @ \/ seen[r].live]
    /\ lq' = (lq \/ (seen[r].live /\ r = leader))
    /\ UNCHANGED <<api, seen, fresh, leader, lpc, lfresh, lrefs, lcfg, spc, scfg, memory, edits>>

\* Slots whose owner is gone are collected.
CollectSlot(p) ==
    /\ slots[p] # 0 /\ ~(waf.live /\ waf.uid = slots[p])
    /\ slots' = [slots EXCEPT ![p] = 0]
    /\ UNCHANGED <<waf, rs, rule, informers, leading, syncing, memory, edits>>

-----------------------------------------------------------------------------
(* The resolver.  A step reads one object from the API server.              *)

\* lockObject's Update adds the finalizer; it is sent to the main resource, so
\* the back-reference, a status field, is not stored.  Its conflict is tolerated.
lockObject(o, locked) ==
    \/ locked = [o EXCEPT !.ref = TRUE] /\ UNCHANGED edits
    \/ locked = o /\ ~o.ref /\ Edit("fail")

\* The reference resolves; a terminating object takes no new finalizer.
Resolves(o, lock) == o.live /\ (lock /\ o.del => o.ref)

\* ReferenceErrors: an object that does not resolve, and a lookup, the read of a
\* namespace or an Update other than a conflict that fails, are recorded alike.
ReferenceError(o, missing, terminating, failed, message) ==
    \/ ~Resolves(o, TRUE) /\ message = (IF o.live THEN terminating ELSE missing) /\ UNCHANGED edits
    \/ message = failed /\ Edit("fail")

-----------------------------------------------------------------------------
(* The leader's WAF controller.                                             *)

Goto(step) == lpc' = step /\ UNCHANGED <<lq, lrefs, lcfg>>
Done(again) == lpc' = "idle" /\ lrefs' = "" /\ lcfg' = NoConfig /\ lq' = (lq \/ again)

\* Reconcile starts from the cached WAF.  A missing WAF is retried until it is
\* there; a terminating one is taken down.
BeginDelete ==
    LET o == seen[leader]
    IN  /\ lpc = "idle" /\ lq
        /\ o.live /\ o.del
        /\ lpc' = "drop" /\ lq' = FALSE
        /\ lfresh' = fresh[leader] /\ lcfg' = ConfigOf(o)
        /\ UNCHANGED <<api, informers, leader, lrefs, syncing, memory, edits>>

\* The finalizer is persisted first, and the key queued again.
AddFinalizer ==
    LET o == seen[leader]
    IN  /\ lpc = "idle" /\ lq
        /\ o.live /\ ~o.fin /\ ~o.del
        /\ fresh[leader]
        /\ Write([o EXCEPT !.fin = TRUE], FALSE)
        /\ UNCHANGED <<rs, rule, slots, seen, pend, leader, lq, lpc, lrefs, lcfg, syncing, memory, edits>>

\* The condition ReferencesResolved is written when it changes; refs is its value in
\* the worker's copy and current tells whether that copy is up to date.
\* Reference errors, those of failed calls too, end the reconcile without an error:
\* nothing is published and nothing is retried.
SetReferencesResolved(message, refs, current) ==
    LET ok == message = "True"
        changed == refs # message
        goes == ok /\ (changed => current)
    IN  /\ IF changed /\ current THEN Write([waf EXCEPT !.refs = message], goes)
           ELSE UNCHANGED <<waf, fresh>> /\ lfresh' = (current /\ goes)
        /\ lpc' = (IF goes THEN "publish" ELSE "idle")
        /\ lq' = (IF lpc = "idle" THEN FALSE ELSE lq \/ (ok /\ changed /\ ~current))

\* Build, AddUpdateReconcile: the RuleSet ...
Begin ==
    LET o == seen[leader]
    IN  /\ lpc = "idle" /\ lq
        /\ o.live /\ o.fin /\ ~o.del
        /\ \/ /\ Resolves(rs, TRUE)
              /\ lockObject(rs, rs')
              /\ IF rs' # rs THEN Notify("RuleSet") ELSE UNCHANGED pend
              /\ lcfg' = [ConfigOf(o) EXCEPT !.rs = rs.gen]
              /\ lpc' = "secrule" /\ lq' = FALSE
              /\ lfresh' = fresh[leader] /\ lrefs' = o.refs
              /\ UNCHANGED <<waf, fresh>>
           \/ /\ \E m \in RefsCondition \ {"True"} :
                    /\ ReferenceError(rs, "RuleSet missing", "RuleSet terminating", "RuleSet failed", m)
                    /\ SetReferencesResolved(m, o.refs, fresh[leader])
              /\ UNCHANGED <<rs, pend, lcfg, lrefs>>
        /\ UNCHANGED <<rule, slots, seen, leader, syncing, memory>>

\* ... and its SecRule.
ReadSecRule ==
    /\ lpc = "secrule"
    /\ \/ /\ Resolves(rule, TRUE)
          /\ lockObject(rule, rule')
          /\ IF rule' # rule THEN Notify("SecRule") ELSE UNCHANGED pend
          /\ SetReferencesResolved("True", lrefs, lfresh)
          /\ lcfg' = (IF lpc' = "publish" THEN [lcfg EXCEPT !.rule = rule.gen] ELSE NoConfig)
       \/ /\ \E m \in RefsCondition \ {"True"} :
                /\ ReferenceError(rule, "SecRule missing", "SecRule terminating", "SecRule failed", m)
                /\ SetReferencesResolved(m, lrefs, lfresh)
          /\ lcfg' = NoConfig
          /\ UNCHANGED <<rule, pend>>
    /\ lrefs' = ""
    /\ UNCHANGED <<rs, slots, seen, leader, syncing, memory>>

\* Fault: a resource that is there already is not replaced.
PublishOnce(r, c) ==
    /\ ecds' = (IF ecds[r] = NoConfig THEN [ecds EXCEPT ![r] = c] ELSE ecds)
    /\ eg' = (IF c.prov = "EnvoyGateway" THEN [eg EXCEPT ![r] = c] ELSE eg)

\* Publish: ECDS.Upsert, then EGExtension.Upsert, which ignores other providers.
Publish(r, c) ==
    /\ ecds' = [ecds EXCEPT ![r] = c]
    /\ eg' = (IF c.prov = "EnvoyGateway" THEN [eg EXCEPT ![r] = c] ELSE eg)

\* Fault: the ECDS resource is forgotten.
DropLocalIndexOnly(r) == eg' = [eg EXCEPT ![r] = NoConfig] /\ UNCHANGED ecds

\* ECDS.Delete and EGExtension.Delete.
DropLocal(r) ==
    /\ ecds' = [ecds EXCEPT ![r] = NoConfig]
    /\ eg' = [eg EXCEPT ![r] = NoConfig]

LeaderPublish ==
    /\ lpc = "publish"
    /\ Publish(leader, lcfg)
    /\ Goto("slot")
    /\ UNCHANGED <<api, informers, leader, lfresh, syncing, edits>>

\* Fault: the other providers' slots stay.
DeleteNone == slots

\* DeleteOthers takes down the other providers' slots ...
DeleteOthers ==
    [p \in SlotProviders |-> IF p = lcfg.prov THEN slots[p] ELSE 0]

\* Fault: the slot of the Envoy Gateway provider is taken for a cluster object.
EnsureAnySlot ==
    /\ lpc = "slot"
    /\ slots' = [p \in SlotProviders \cup {lcfg.prov} |-> IF p = lcfg.prov THEN lcfg.uid ELSE 0]
    /\ Goto("status")
    /\ UNCHANGED <<waf, rs, rule, informers, leader, lfresh, syncing, memory, edits>>

\* ... and the desired provider's Ensure sets its own.
Ensure ==
    [p \in SlotProviders |-> IF p = lcfg.prov THEN lcfg.uid ELSE DeleteOthers[p]]

EnsureDesired ==
    /\ lpc = "slot"
    /\ slots' = Ensure
    /\ eg' = [eg EXCEPT ![leader] = IF lcfg.prov = "EnvoyGateway" THEN lcfg ELSE NoConfig]
    /\ Goto("status")
    /\ UNCHANGED <<waf, rs, rule, informers, leader, lfresh, syncing, ecds, edits>>

\* The final status goes to the WAF as the cache has it now.  It holds the
\* version counter that Upsert just advanced, so it always changes the WAF.
WriteStatus ==
    LET current == seen[leader].live /\ fresh[leader]
    IN  /\ lpc = "status"
        /\ IF current THEN Write([waf EXCEPT !.ready = "True"], FALSE) ELSE NoWrite
        /\ Done(~current)
        /\ UNCHANGED <<rs, rule, slots, seen, pend, leader, syncing, memory, edits>>

\* Build fails for another reason than its references (challenge secret, provider
\* discovery, data files), or the publication does, or EnsureDesired at any point:
\* markNotReady reads the WAF again and writes its status as well
\* as it can; the key is retried.
markNotReady ==
    /\ \/ lpc \in {"secrule", "publish", "slot"}
       \/ lpc = "idle" /\ lq /\ seen[leader].live /\ seen[leader].fin /\ ~seen[leader].del
    /\ Edit("fail")
    /\ \/ UNCHANGED <<slots, eg>>
       \/ /\ lpc = "slot" /\ slots' \in {slots, DeleteOthers, Ensure}
          /\ eg' = [eg EXCEPT ![leader] = IF lcfg.prov = "EnvoyGateway" THEN @ ELSE NoConfig]
    /\ IF seen[leader].live /\ fresh[leader] /\ waf.ready # "False"
       THEN Write([waf EXCEPT !.ready = "False"], FALSE)
       ELSE NoWrite
    /\ Done(TRUE)
    /\ UNCHANGED <<rs, rule, seen, pend, leader, syncing, ecds>>

\* Faults: the slots are left to the garbage collector; a failure is not retried.
DeleteSlotsNever ==
    /\ lpc = "drop"
    /\ DropLocal(leader)
    /\ Goto("unfinalize")
    /\ UNCHANGED <<api, informers, leader, lfresh, syncing, edits>>

DeleteSlotsNoRetry ==
    /\ lpc = "drop"
    /\ DropLocal(leader)
    /\ \/ slots' = [p \in SlotProviders |-> 0] /\ Goto("unfinalize") /\ UNCHANGED <<lfresh, edits>>
       \/ Edit("fail") /\ UNCHANGED slots /\ Done(FALSE) /\ lfresh' = FALSE
    /\ UNCHANGED <<waf, rs, rule, informers, leader, syncing>>

\* reconcileDelete: DropLocal, DeleteAll, then both finalizers go.  DeleteAll
\* fails half-way: the key is retried.
DeleteSlots ==
    /\ lpc = "drop"
    /\ DropLocal(leader)
    /\ \/ slots' = [p \in SlotProviders |-> 0] /\ Goto("unfinalize") /\ UNCHANGED <<lfresh, edits>>
       \/ /\ Edit("fail")
          /\ \E p \in SlotProviders : slots' = [slots EXCEPT ![p] = 0]
          /\ Done(TRUE) /\ lfresh' = FALSE
    /\ UNCHANGED <<waf, rs, rule, informers, leader, syncing>>

RemoveFinalizer ==
    /\ lpc = "unfinalize"
    /\ IF lfresh THEN Write(NoWAF, FALSE) ELSE NoWrite
    /\ Done(~lfresh)
    /\ UNCHANGED <<rs, rule, slots, seen, pend, leader, syncing, memory, edits>>

-----------------------------------------------------------------------------
(* The sync controller of every replica.                                    *)

SyncDone(r, again) ==
    /\ spc' = [spc EXCEPT ![r] = "idle"]
    /\ scfg' = [scfg EXCEPT ![r] = NoConfig]
    /\ sq' = [sq EXCEPT ![r] = @ \/ again]

\* A WAF that is missing or terminating in the cache is dropped.
SyncDelete(r) ==
    /\ spc[r] = "idle" /\ sq[r]
    /\ ~(seen[r].live /\ ~seen[r].del)
    /\ sq' = [sq EXCEPT ![r] = FALSE]
    /\ spc' = [spc EXCEPT ![r] = "drop"]
    /\ UNCHANGED <<api, informers, leading, scfg, memory, edits>>

\* Fault: a missing RuleSet is left out.
SyncBeginPartial(r) ==
    /\ spc[r] = "idle" /\ sq[r]
    /\ seen[r].live /\ ~seen[r].del
    /\ sq' = [sq EXCEPT ![r] = FALSE]
    /\ spc' = [spc EXCEPT ![r] = "secrule"]
    /\ scfg' = [scfg EXCEPT ![r] = [ConfigOf(seen[r]) EXCEPT !.rs = rs.gen]]
    /\ UNCHANGED <<api, informers, leading, memory, edits>>

\* Build with RequireRefsOK: an unresolved reference is an error, retried.
SyncBegin(r) ==
    /\ spc[r] = "idle" /\ sq[r]
    /\ seen[r].live /\ ~seen[r].del
    /\ Resolves(rs, FALSE)
    /\ sq' = [sq EXCEPT ![r] = FALSE]
    /\ spc' = [spc EXCEPT ![r] = "secrule"]
    /\ scfg' = [scfg EXCEPT ![r] = [ConfigOf(seen[r]) EXCEPT !.rs = rs.gen]]
    /\ UNCHANGED <<api, informers, leading, memory, edits>>

\* Fault: a missing SecRule is left out.
SyncReadPartial(r) ==
    /\ spc[r] = "secrule"
    /\ spc' = [spc EXCEPT ![r] = "publish"]
    /\ scfg' = [scfg EXCEPT ![r].rule = rule.gen]
    /\ UNCHANGED <<api, informers, leading, sq, memory, edits>>

SyncReadSecRule(r) ==
    /\ spc[r] = "secrule"
    /\ IF Resolves(rule, FALSE)
       THEN /\ spc' = [spc EXCEPT ![r] = "publish"]
            /\ scfg' = [scfg EXCEPT ![r].rule = rule.gen] /\ UNCHANGED sq
       ELSE SyncDone(r, TRUE)
    /\ UNCHANGED <<api, informers, leading, memory, edits>>

SyncPublish(r) ==
    /\ spc[r] = "publish"
    /\ Publish(r, scfg[r])
    /\ SyncDone(r, FALSE)
    /\ UNCHANGED <<api, informers, leading, edits>>

\* Fault: the error is logged, and not retried.
SyncFailNoRetry(r) ==
    /\ spc[r] = "publish"
    /\ Edit("fail")
    /\ SyncDone(r, FALSE)
    /\ UNCHANGED <<api, informers, leading, memory>>

\* Build fails after its references, or ECDS.Upsert does: an error, retried.
SyncFail(r) ==
    /\ spc[r] = "publish"
    /\ Edit("fail")
    /\ SyncDone(r, TRUE)
    /\ UNCHANGED <<api, informers, leading, memory>>

SyncDrop(r) ==
    /\ spc[r] = "drop"
    /\ DropLocal(r)
    /\ SyncDone(r, FALSE)
    /\ UNCHANGED <<api, informers, leading, edits>>

-----------------------------------------------------------------------------
\* Fault: a replica that starts waits for the next event of each WAF.
FailoverNoList(n) ==
    /\ Edit("lease")
    /\ n # leader
    /\ leader' = n /\ lq' = seen[n].live
    /\ lpc' = "idle" /\ lfresh' = FALSE /\ lrefs' = "" /\ lcfg' = NoConfig
    /\ seen' = [seen EXCEPT ![leader] = waf] /\ fresh' = [fresh EXCEPT ![leader] = TRUE]
    /\ pend' = [pend EXCEPT ![leader] = {}]
    /\ sq' = [sq EXCEPT ![leader] = FALSE] /\ spc' = [spc EXCEPT ![leader] = "idle"]
    /\ scfg' = [scfg EXCEPT ![leader] = NoConfig]
    /\ ecds' = [ecds EXCEPT ![leader] = NoConfig] /\ eg' = [eg EXCEPT ![leader] = NoConfig]
    /\ UNCHANGED api

\* The leader's process ends; its pod starts again with current caches and an
\* empty memory, and another replica, with the caches it has, takes the lease.
Failover(n) ==
    /\ Edit("lease")
    /\ n # leader
    /\ leader' = n /\ lq' = seen[n].live
    /\ lpc' = "idle" /\ lfresh' = FALSE /\ lrefs' = "" /\ lcfg' = NoConfig
    /\ seen' = [seen EXCEPT ![leader] = waf] /\ fresh' = [fresh EXCEPT ![leader] = TRUE]
    /\ pend' = [pend EXCEPT ![leader] = {}]
    /\ sq' = [sq EXCEPT ![leader] = waf.live] /\ spc' = [spc EXCEPT ![leader] = "idle"]
    /\ scfg' = [scfg EXCEPT ![leader] = NoConfig]
    /\ ecds' = [ecds EXCEPT ![leader] = NoConfig] /\ eg' = [eg EXCEPT ![leader] = NoConfig]
    /\ UNCHANGED api

Users ==
    \/ \E p \in Providers : CreateWAF(p) \/ EditWAF(p)
    \/ DeleteWAF \/ ApplyRuleSet \/ DeleteRuleSet \/ ApplySecRule \/ DeleteSecRule

Cluster ==
    \/ \E r \in Replicas : SyncWAF(r) \/ \E kind \in RuleKinds : RuleEvent(r, kind)
    \/ \E p \in SlotProviders : CollectSlot(p)
    \/ FinalizeRuleSet \/ FinalizeSecRule

Lead ==
    \/ AddFinalizer \/ Begin \/ ReadSecRule \/ LeaderPublish \/ EnsureDesired \/ WriteStatus
    \/ markNotReady \/ BeginDelete \/ DeleteSlots \/ RemoveFinalizer

Sync(r) ==
    \/ SyncBegin(r) \/ SyncReadSecRule(r) \/ SyncPublish(r) \/ SyncFail(r)
    \/ SyncDelete(r) \/ SyncDrop(r)

Next ==
    \/ Users \/ Cluster \/ Lead
    \/ \E r \in Replicas : Sync(r) \/ Failover(r)

Spec == Init /\ [][Next]_vars

\* Watches deliver, the other controllers and the garbage collector run, and a
\* queued key is reconciled.
Fairness ==
    /\ \A r \in Replicas : /\ WF_vars(SyncWAF(r))
                           /\ \A kind \in RuleKinds : WF_vars(RuleEvent(r, kind))
                           /\ WF_vars(Sync(r))
    /\ \A p \in SlotProviders : WF_vars(CollectSlot(p))
    /\ WF_vars(FinalizeRuleSet) /\ WF_vars(FinalizeSecRule)
    /\ WF_vars(Lead)

FairSpec == Spec /\ Fairness

-----------------------------------------------------------------------------
(* Properties.                                                              *)

\* Every variable has its type.
TypeOK ==
    /\ waf \in WAF /\ rs \in RuleObject /\ rule \in RuleObject
    /\ slots \in [SlotProviders -> Stamps]
    /\ seen \in [Replicas -> WAF] /\ fresh \in [Replicas -> BOOLEAN]
    /\ pend \in [Replicas -> SUBSET RuleKinds]
    /\ leader \in Replicas /\ lq \in BOOLEAN /\ lfresh \in BOOLEAN
    /\ lpc \in {"idle", "secrule", "publish", "slot", "status", "drop", "unfinalize"}
    /\ lrefs \in RefsCondition /\ lcfg \in Config
    /\ sq \in [Replicas -> BOOLEAN] /\ scfg \in [Replicas -> Config]
    /\ spc \in [Replicas -> {"idle", "secrule", "publish", "drop"}]
    /\ ecds \in [Replicas -> Config] /\ eg \in [Replicas -> Config]
    /\ edits \in 0..MaxEdits

\* The WAF will be reconciled on this replica.
Queued(r) == sq[r] \/ (r = leader /\ lq)

\* A snapshot that Envoy already has is only replaced by a complete one, and
\* only taken away when its WAF is being deleted or is gone, or when the
\* replica restarts: unresolved rules and failed builds keep the last good
\* configuration.  A late DropLocal of an earlier WAF of the same name can take
\* it away too, but then the key is queued and the snapshot comes back.
FailClosed ==
    [][\A r \in Replicas :
          ecds'[r] # ecds[r] =>
             \/ Complete(ecds'[r])
             \/ ecds'[r] = NoConfig /\ (~waf.live \/ waf.del \/ waf.uid # ecds[r].uid \/ Queued(r))
             \/ r = leader /\ leader' # leader]_vars

\* A slot object never outlives the finalizer that reconcileDelete relies on to
\* take it down.
SlotGuarded ==
    \A p \in SlotProviders : slots[p] # 0 => waf.live /\ waf.fin /\ waf.uid = slots[p]

\* Nothing of the WAF is left to do on a replica.  (The leader's retries of a WAF
\* that is gone do nothing.)
Idle(r) ==
    /\ fresh[r] /\ ~sq[r] /\ spc[r] = "idle"
    /\ r = leader => lpc = "idle" /\ (lq => ~seen[r].live)

\* A replica with nothing left to do serves the WAF as it is (BuildAndPublish of
\* the sync controller; no failure, restart or deleted namesake leaves it behind).
IdleServes ==
    \A r \in Replicas : Idle(r) /\ waf.live /\ ~waf.del =>
        Complete(ecds[r]) /\ ecds[r].uid = waf.uid /\ ecds[r].gen = waf.gen

\* A replica with nothing left to do has dropped a WAF that is gone (DropLocal
\* "removes in-memory state for a deleted WAF (every replica)").
IdleDropped ==
    \A r \in Replicas : Idle(r) /\ ~waf.live => ecds[r] = NoConfig /\ eg[r] = NoConfig

\* A replica with nothing left to do has the WAF in its Envoy Gateway index only
\* if that is its provider (EnsureDesired deletes the others "so provider switches
\* do not leave orphans"; "every pod must serve the same").
IdleIndexed ==
    \A r \in Replicas : Idle(r) /\ waf.live /\ ~waf.del =>
        eg[r] = IF waf.prov = "EnvoyGateway" THEN ecds[r] ELSE NoConfig

\* What every replica serves once the WAF and its rules stay as they are.
Desired == [ConfigOf(waf) EXCEPT !.rs = rs.gen, !.rule = rule.gen]
Resolvable == rs.live /\ rule.live /\ (rs.del => rs.ref) /\ (rule.del => rule.ref)

\* A WAF that stays, with rules that stay, is eventually served by every
\* replica's ECDS with its current content.
EventuallyServed ==
    <>[](waf.live /\ ~waf.del /\ Resolvable) =>
       <>[](\A r \in Replicas : ecds[r] = Desired)

\* The slot object of the provider of such a WAF is there, and no other provider's
\* is left (EnsureDesired, whatever fails in between and wherever the provider
\* switches), or its condition reports a failed read or lock of its rules: the
\* reconcile ended there without an error, and nothing retries it.
EventuallySlotted ==
    <>[](waf.live /\ ~waf.del /\ Resolvable) =>
       <>[](waf.refs \in CallFailed \/ \A p \in SlotProviders : (slots[p] # 0) = (p = waf.prov))

\* Such a WAF ends up Ready with its references resolved, or with the condition that
\* reports a failed read or lock of its rules: no refused status write, no missing or
\* terminating rule that came back and no failure that markNotReady recorded has the
\* last word.
EventuallyReady ==
    <>[](waf.live /\ ~waf.del /\ Resolvable) =>
       <>[](waf.refs \in CallFailed \/ (waf.ready = "True" /\ waf.refs = "True"))

\* A deleted WAF leaves nothing behind: reconcileDelete and DropLocal ("removes
\* in-memory state for a deleted WAF (every replica)").
EventuallyGone ==
    /\ [](waf.del => <>~waf.del)
    /\ <>[]~waf.live => <>[](/\ \A r \in Replicas : ecds[r] = NoConfig /\ eg[r] = NoConfig
                             /\ \A p \in SlotProviders : slots[p] = 0)
=============================================================================
