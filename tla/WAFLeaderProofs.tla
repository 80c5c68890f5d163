--------------------------- MODULE WAFLeaderProofs ---------------------------
(***************************************************************************)
(* Proofs about the leader's work on a WAF while the lease stays: slots    *)
(* never outlive the finalizer, and a replica with nothing left to do      *)
(* serves the WAF as it is or, when it is gone, has forgotten it.          *)
(*                                                                         *)
(* A new leader acts on caches that may be older than what its predecessor *)
(* wrote; all three properties rest on the one leader's copy being the one *)
(* its own writes started from, and without that they do not hold.         *)
(***************************************************************************)
EXTENDS WAFDataplaneProofs

\* The lease does not move.
NoFailover == "lease" \notin Edits

\* The leader is the one who writes finalizer and status.  Hence, if its cache has
\* the WAF with its finalizer, the WAF still has it; a WAF with a finalizer is in
\* its cache; and a generation that is not there yet has no Ready condition.
LeaderSees ==
    /\ Wanted(seen[leader]) /\ seen[leader].fin => waf.live /\ waf.fin /\ waf.uid = seen[leader].uid
    /\ waf.fin => seen[leader].uid = waf.uid
    /\ waf.live /\ seen[leader].uid = waf.uid /\ seen[leader].gen # waf.gen => waf.ready = ""

\* What the leader builds it builds of the WAF, with its finalizer on; a build of
\* an older generation will have a status to write.
LeaderBuilds ==
    lpc \in {"secrule", "publish", "slot"} =>
       waf.live /\ waf.fin /\ waf.uid = lcfg.uid /\ (waf.gen = lcfg.gen \/ waf.ready = "")

\* The finalizer goes when the slots have, and only with a copy that is current.  A
\* WAF of the same name that is there meanwhile has no finalizer yet.
LeaderDrops ==
    /\ lpc = "unfinalize" => \A p \in SlotProviders : slots[p] = 0
    /\ lpc \in {"drop", "unfinalize"} =>
          /\ lfresh => fresh[leader] /\ waf.del
          /\ Wanted(waf) => ~waf.fin
          /\ Wanted(seen[leader]) => lq /\ ~seen[leader].fin

\* A sync controller builds what its cache has, unless the key is queued again.
Building ==
    \A r \in Replicas : spc[r] \in {"secrule", "publish"} =>
       sq[r] \/ (Wanted(seen[r]) /\ scfg[r].uid = seen[r].uid /\ scfg[r].gen = seen[r].gen)

\* The sync controller of the replica has nothing left to do.
Synced(r) == fresh[r] /\ ~sq[r] /\ spc[r] = "idle"

Dropped ==
    \A r \in Replicas : Synced(r) /\ ~waf.live => ecds[r] = NoConfig /\ eg[r] = NoConfig

Serves(c, o) == Complete(c) /\ c.uid = o.uid /\ c.gen = o.gen

\* The leader's own publication and its DropLocal may undo what the sync controller
\* of its replica did, but then it is about to write the WAF: the status that ends
\* the reconcile, or the finalizer.  The event of that write queues the key again.
Served ==
    \A r \in Replicas : Synced(r) /\ Wanted(waf) =>
       \/ Serves(ecds[r], waf)
       \/ r = leader /\ \/ lpc = "status"
                        \/ lpc = "slot" /\ waf.ready = ""
                        \/ lpc \in {"idle", "unfinalize"} /\ lq /\ ~waf.fin

LeaderInv == /\ SnapshotInv /\ SlotGuarded /\ LeaderSees /\ LeaderBuilds /\ LeaderDrops
        /\ Building /\ Dropped /\ Served

\* Without a change of leader, every step keeps the invariant.
LEMMA LeaderInvStep == LeaderInv /\ SnapshotInv' /\ [Next]_vars /\ NoFailover => LeaderInv'
<1>. SUFFICES ASSUME LeaderInv, SnapshotInv', [Next]_vars, NoFailover
              PROVE  (SlotGuarded /\ LeaderSees /\ LeaderBuilds /\ LeaderDrops /\ Building /\ Dropped /\ Served)'
  BY DEF LeaderInv
<1>. DEFINE Goal == SlotGuarded /\ LeaderSees /\ LeaderBuilds /\ LeaderDrops /\ Building /\ Dropped /\ Served
<1>0. SlotGuarded /\ LeaderSees /\ LeaderBuilds /\ LeaderDrops /\ Building /\ Dropped /\ Served
  BY DEF LeaderInv
<1>i. /\ TypeOK /\ Resolved /\ Dropping
      /\ Identified(waf) /\ (lfresh => waf.live)
      /\ \A r \in Replicas : /\ fresh[r] => seen[r] = waf
                             /\ Identified(seen[r])
                             /\ waf.live /\ seen[r].uid = waf.uid /\ seen[r].del => waf.del
  BY DEF LeaderInv, SnapshotInv, Cached
<1>t. waf \in WAF /\ leader \in Replicas /\ lcfg \in Config /\ \A r \in Replicas : seen[r] \in WAF
  BY <1>i DEF TypeOK
<1>f. seen \in [Replicas -> WAF] /\ fresh \in [Replicas -> BOOLEAN] /\ scfg \in [Replicas -> Config] /\ ecds \in [Replicas -> Config]
      /\ eg \in [Replicas -> Config] /\ slots \in [SlotProviders -> Stamps]
      /\ sq \in [Replicas -> BOOLEAN] /\ spc \in [Replicas -> {"idle", "secrule", "publish", "drop"}] /\ lcfg \in Config
  BY <1>i DEF TypeOK
<1>. USE DEF api, informers, leading, syncing, memory
<1>s. ASSUME NEW m \in RefsCondition, NEW refs, NEW current \in BOOLEAN, SetReferencesResolved(m, refs, current), current => waf.live
      PROVE  \/ waf' = waf /\ fresh' = fresh
             \/ /\ waf.live /\ waf'.live /\ waf'.uid = waf.uid /\ waf'.gen = waf.gen /\ waf'.del = waf.del
                /\ waf'.fin = waf.fin /\ waf'.ready = waf.ready /\ (\A r \in Replicas : ~fresh'[r])
  <2>1. CASE UNCHANGED <<waf, fresh>>  BY <2>1, <1>s
  <2>2. ASSUME NEW status, NEW own, current, Write([waf EXCEPT !.refs = status], own)
        PROVE  /\ waf.live /\ waf'.live /\ waf'.uid = waf.uid /\ waf'.gen = waf.gen /\ waf'.del = waf.del
               /\ waf'.fin = waf.fin /\ waf'.ready = waf.ready /\ (\A r \in Replicas : ~fresh'[r])
    BY <2>2, <1>s, <1>t DEF Write, WAF
  <2>. QED  BY <2>1, <2>2, <1>s DEF SetReferencesResolved
<1>1. ASSUME NEW p \in Providers, CreateWAF(p) PROVE Goal'
  <2>0. Stamp # 0  BY <1>i, <1>1, StampType DEF CreateWAF, Edit
  <2>a. /\ waf'.live /\ waf'.uid = Stamp /\ ~waf'.fin /\ ~waf'.del /\ waf'.ready = "" /\ ~waf.live /\ ~lfresh' /\ (\A r \in Replicas : ~fresh'[r])
        /\ UNCHANGED <<slots, seen, leader, lq, lpc, lcfg, sq, spc, scfg, ecds, eg>>
    BY <1>1 DEF CreateWAF, Write, NoWAF
  <2>1. Building'  BY <1>0, <1>1 DEF CreateWAF, Building, Wanted
  <2>2. SlotGuarded'  BY <2>a, <1>0, <1>i, <1>t DEF SlotGuarded
  <2>3. LeaderSees'  BY <2>a, <1>0, <1>i, <1>t DEF LeaderSees, Wanted
  <2>4. LeaderBuilds'  BY <2>a, <1>0, <1>i, <1>t DEF LeaderBuilds
  <2>5. LeaderDrops'  BY <2>a, <1>0, <1>i, <1>t DEF LeaderDrops, Wanted
  <2>6. Dropped'  BY <2>a, <1>0, <1>i, <1>t DEF Dropped, Synced
  <2>7. Served'  BY <2>a, <1>0, <1>i, <1>t DEF Served, Synced, Serves, Wanted
  <2>. QED  BY <2>1, <2>2, <2>3, <2>4, <2>5, <2>6, <2>7
<1>2. ASSUME NEW p \in Providers, EditWAF(p) PROVE Goal'
  <2>a. /\ waf.live /\ waf'.live /\ waf'.uid = waf.uid /\ waf.del = waf'.del /\ waf.fin = waf'.fin /\ waf'.ready = ""
        /\ ~lfresh' /\ (\A r \in Replicas : ~fresh'[r])
        /\ UNCHANGED <<slots, seen, leader, lq, lpc, lcfg, sq, spc, scfg, ecds, eg>>
    BY <1>2, <1>t DEF EditWAF, Write, WAF
  <2>1. Building'  BY <1>0, <1>2 DEF EditWAF, Building, Wanted
  <2>2. SlotGuarded'  BY <2>a, <1>0, <1>i, <1>t DEF SlotGuarded
  <2>3. LeaderSees'  BY <2>a, <1>0, <1>i, <1>t DEF LeaderSees, Wanted
  <2>4. LeaderBuilds'  BY <2>a, <1>0, <1>i, <1>t DEF LeaderBuilds
  <2>5. LeaderDrops'  BY <2>a, <1>0, <1>i, <1>t DEF LeaderDrops, Wanted
  <2>6. Dropped'  BY <2>a, <1>0, <1>i, <1>t DEF Dropped, Synced
  <2>7. Served'  BY <2>a, <1>0, <1>i, <1>t DEF Served, Synced, Serves, Wanted
  <2>. QED  BY <2>1, <2>2, <2>3, <2>4, <2>5, <2>6, <2>7
<1>3. CASE DeleteWAF
  <2>a. /\ \/ waf' = NoWAF /\ ~waf.fin
           \/ /\ waf.fin /\ waf'.fin /\ waf.live /\ waf'.live /\ waf'.uid = waf.uid /\ waf'.gen = waf.gen /\ waf'.del
              /\ waf'.ready = waf.ready
        /\ ~lfresh' /\ (\A r \in Replicas : ~fresh'[r])
        /\ UNCHANGED <<slots, seen, leader, lq, lpc, lcfg, sq, spc, scfg, ecds, eg>>
    BY <1>3, <1>t DEF DeleteWAF, Write, WAF
  <2>b. ~NoWAF.live /\ ~NoWAF.fin /\ NoWAF.uid = 0  BY DEF NoWAF
  <2>1. Building'  BY <1>0, <1>3 DEF DeleteWAF, Building, Wanted
  <2>2. SlotGuarded'  BY <2>a, <2>b, <1>0, <1>i, <1>t DEF SlotGuarded
  <2>3. LeaderSees'  BY <2>a, <2>b, <1>0, <1>i, <1>t DEF LeaderSees, Wanted
  <2>4. LeaderBuilds'  BY <2>a, <2>b, <1>0, <1>i, <1>t DEF LeaderBuilds
  <2>5. LeaderDrops'  BY <2>a, <2>b, <1>0, <1>i, <1>t DEF LeaderDrops, Wanted
  <2>6. Dropped'  BY <2>a, <2>b, <1>0, <1>i, <1>t DEF Dropped, Synced
  <2>7. Served'  BY <2>a, <2>b, <1>0, <1>i, <1>t DEF Served, Synced, Serves, Wanted
  <2>. QED  BY <2>1, <2>2, <2>3, <2>4, <2>5, <2>6, <2>7
<1>4. CASE ApplyRuleSet
  BY <1>0, <1>4, ZenonT(60) DEF ApplyRuleSet, SlotGuarded, LeaderSees, Wanted, LeaderBuilds, LeaderDrops, Building,
      Dropped, Synced, Served, Serves
<1>5. CASE ApplySecRule
  BY <1>0, <1>5, ZenonT(60) DEF ApplySecRule, SlotGuarded, LeaderSees, Wanted, LeaderBuilds, LeaderDrops, Building,
      Dropped, Synced, Served, Serves
<1>6. CASE DeleteRuleSet
  BY <1>0, <1>6, ZenonT(60) DEF DeleteRuleSet, SlotGuarded, LeaderSees, Wanted, LeaderBuilds, LeaderDrops, Building,
      Dropped, Synced, Served, Serves
<1>7. CASE DeleteSecRule
  BY <1>0, <1>7, ZenonT(60) DEF DeleteSecRule, SlotGuarded, LeaderSees, Wanted, LeaderBuilds, LeaderDrops, Building,
      Dropped, Synced, Served, Serves
<1>8. CASE FinalizeRuleSet
  BY <1>0, <1>8, ZenonT(60) DEF FinalizeRuleSet, SlotGuarded, LeaderSees, Wanted, LeaderBuilds, LeaderDrops, Building,
      Dropped, Synced, Served, Serves
<1>9. CASE FinalizeSecRule
  BY <1>0, <1>9, ZenonT(60) DEF FinalizeSecRule, SlotGuarded, LeaderSees, Wanted, LeaderBuilds, LeaderDrops, Building,
      Dropped, Synced, Served, Serves
<1>10. ASSUME NEW r \in Replicas, SyncWAF(r) PROVE Goal'
  <2>1. (SlotGuarded /\ LeaderBuilds)'  BY <1>0, <1>10 DEF SyncWAF, SlotGuarded, LeaderBuilds
  <2>2. LeaderSees'  BY <1>0, <1>i, <1>t, <1>f, <1>10 DEF SyncWAF, LeaderSees, Wanted, Identified, NoWAF
  <2>3. LeaderDrops'  BY <1>0, <1>i, <1>t, <1>f, <1>10 DEF SyncWAF, LeaderDrops, Wanted
  <2>4. Building'  BY <1>0, <1>t, <1>f, <1>10 DEF SyncWAF, Building, Wanted
  <2>5. Dropped'  BY <1>0, <1>t, <1>f, <1>10 DEF SyncWAF, Dropped, Synced
  <2>6. Served'  BY <1>0, <1>t, <1>f, <1>10 DEF SyncWAF, Served, Synced, Serves, Wanted
  <2>. QED  BY <2>1, <2>2, <2>3, <2>4, <2>5, <2>6
<1>11. ASSUME NEW r \in Replicas, NEW kind \in RuleKinds, RuleEvent(r, kind) PROVE Goal'
  <2>1. (SlotGuarded /\ LeaderSees /\ LeaderBuilds)'
    BY <1>0, <1>11 DEF RuleEvent, SlotGuarded, LeaderSees, Wanted, LeaderBuilds
  <2>2. LeaderDrops'  BY <1>0, <1>i, <1>t, <1>f, <1>11 DEF RuleEvent, LeaderDrops, Wanted
  <2>3. Building'  BY <1>0, <1>t, <1>f, <1>11 DEF RuleEvent, Building, Wanted
  <2>4. Dropped'  BY <1>0, <1>t, <1>f, <1>11 DEF RuleEvent, Dropped, Synced
  <2>5. Served'  BY <1>0, <1>t, <1>f, <1>11 DEF RuleEvent, Served, Synced, Serves, Wanted
  <2>. QED  BY <2>1, <2>2, <2>3, <2>4, <2>5
<1>12. ASSUME NEW p \in SlotProviders, CollectSlot(p) PROVE Goal'
  <2>1. (LeaderSees /\ LeaderBuilds /\ Building /\ Dropped /\ Served)'
    BY <1>0, <1>12 DEF CollectSlot, LeaderSees, Wanted, LeaderBuilds, Building, Dropped, Synced, Served, Serves
  <2>2. SlotGuarded'  BY <1>0, <1>t, <1>f, <1>12 DEF CollectSlot, SlotGuarded
  <2>3. LeaderDrops'  BY <1>0, <1>i, <1>t, <1>f, <1>12 DEF CollectSlot, LeaderDrops, Wanted
  <2>. QED  BY <2>1, <2>2, <2>3
<1>13. CASE BeginDelete
  <2>1. (SlotGuarded /\ LeaderSees /\ Building /\ Dropped)'
    BY <1>0, <1>13 DEF BeginDelete, SlotGuarded, LeaderSees, Wanted, Building, Dropped, Synced
  <2>2. LeaderBuilds'  BY <1>0, <1>t, <1>f, <1>13 DEF BeginDelete, LeaderBuilds
  <2>3. LeaderDrops'  BY <1>0, <1>i, <1>t, <1>13 DEF BeginDelete, LeaderDrops, LeaderSees, Wanted
  <2>4. Served'  BY <1>0, <1>i, <1>t, <1>f, <1>13 DEF BeginDelete, Served, Synced, Wanted
  <2>. QED  BY <2>1, <2>2, <2>3, <2>4
<1>14. CASE AddFinalizer
  <2>b. seen[leader] = waf /\ lpc = "idle"  BY <1>14, <1>i, <1>t DEF AddFinalizer
  <2>a. /\ waf.live /\ waf'.live /\ waf'.uid = waf.uid /\ waf'.gen = waf.gen /\ waf.del = waf'.del /\ waf'.fin /\ waf'.ready = waf.ready
        /\ ~lfresh' /\ (\A r \in Replicas : ~fresh'[r])
        /\ UNCHANGED <<slots, seen, leader, lq, lpc, lcfg, sq, spc, scfg, ecds, eg>>
    BY <1>14, <2>b, <1>t DEF AddFinalizer, Write, WAF
  <2>1. Building'  BY <1>0, <1>14 DEF AddFinalizer, Building, Wanted
  <2>2. SlotGuarded'  BY <2>a, <2>b, <1>0, <1>i, <1>t DEF SlotGuarded
  <2>3. LeaderSees'  BY <2>a, <2>b, <1>0, <1>i, <1>t DEF LeaderSees, Wanted
  <2>4. LeaderBuilds'  BY <2>a, <2>b, <1>0, <1>i, <1>t DEF LeaderBuilds
  <2>5. LeaderDrops'  BY <2>a, <2>b, <1>0, <1>i, <1>t DEF LeaderDrops, Wanted
  <2>6. Dropped'  BY <2>a, <2>b, <1>0, <1>i, <1>t DEF Dropped, Synced
  <2>7. Served'  BY <2>a, <2>b, <1>0, <1>i, <1>t DEF Served, Synced, Serves, Wanted
  <2>. QED  BY <2>1, <2>2, <2>3, <2>4, <2>5, <2>6, <2>7
<1>15. CASE Begin
  <2>a. /\ UNCHANGED <<slots, seen, leader, sq, spc, scfg, ecds, eg>> /\ seen[leader].live /\ ~seen[leader].del /\ seen[leader].fin
        /\ lpc = "idle" /\ lpc' \in {"idle", "secrule"}
    BY <1>15 DEF Begin, SetReferencesResolved
  <2>b. lpc' = "secrule" => lcfg'.uid = seen[leader].uid /\ lcfg'.gen = seen[leader].gen
    BY <1>15 DEF Begin, ConfigOf, SetReferencesResolved
  <2>c. fresh[leader] => waf.live  BY <2>a, <1>i, <1>t
  <2>d. \/ waf' = waf /\ fresh' = fresh
        \/ /\ waf.live /\ waf'.live /\ waf'.uid = waf.uid /\ waf'.gen = waf.gen /\ waf'.del = waf.del
           /\ waf'.fin = waf.fin /\ waf'.ready = waf.ready /\ (\A r \in Replicas : ~fresh'[r])
    <3>1. ASSUME NEW m \in RefsCondition, SetReferencesResolved(m, seen[leader].refs, fresh[leader])
          PROVE  <2>d!1 \/ <2>d!2
      BY <3>1, <2>c, <1>f, <1>t, <1>s
    <3>. QED  BY <1>15, <3>1 DEF Begin
  <2>1. Building'  BY <1>0, <1>15 DEF Begin, Building, Wanted
  <2>2. SlotGuarded'  BY <2>a, <2>b, <2>d, <1>0, <1>i, <1>t DEF SlotGuarded
  <2>3. LeaderSees'  BY <2>a, <2>b, <2>d, <1>0, <1>i, <1>t DEF LeaderSees, Wanted
  <2>4. LeaderBuilds'  BY <2>a, <2>b, <2>d, <1>0, <1>t DEF LeaderBuilds, LeaderSees, Wanted
  <2>5. LeaderDrops'  BY <2>a, <2>b, <2>d, <1>0, <1>i, <1>t DEF LeaderDrops, Wanted
  <2>6. Dropped'  BY <2>a, <2>b, <2>d, <1>0, <1>i, <1>t DEF Dropped, Synced
  <2>7. Served'  BY <2>a, <2>b, <2>d, <1>0, <1>i, <1>t, ZenonT(60) DEF Served, Synced, Serves, Wanted
  <2>. QED  BY <2>1, <2>2, <2>3, <2>4, <2>5, <2>6, <2>7
<1>16. CASE ReadSecRule
  <2>a. /\ UNCHANGED <<slots, seen, leader, sq, spc, scfg, ecds, eg>> /\ lpc = "secrule" /\ lpc' \in {"idle", "publish"}
    BY <1>16 DEF ReadSecRule, SetReferencesResolved
  <2>b. lpc' = "publish" => lcfg'.uid = lcfg.uid /\ lcfg'.gen = lcfg.gen
    <3>1. [lcfg EXCEPT !.rule = rule.gen].uid = lcfg.uid /\ [lcfg EXCEPT !.rule = rule.gen].gen = lcfg.gen
      BY <1>t DEF Config
    <3>2. lpc' = "publish" => lcfg' = [lcfg EXCEPT !.rule = rule.gen]
      BY <1>16 DEF ReadSecRule, SetReferencesResolved
    <3>. QED  BY <3>1, <3>2
  <2>d. \/ waf' = waf /\ fresh' = fresh
        \/ /\ waf.live /\ waf'.live /\ waf'.uid = waf.uid /\ waf'.gen = waf.gen /\ waf'.del = waf.del
           /\ waf'.fin = waf.fin /\ waf'.ready = waf.ready /\ (\A r \in Replicas : ~fresh'[r])
    <3>1. PICK m \in RefsCondition : SetReferencesResolved(m, lrefs, lfresh)  BY <1>16 DEF ReadSecRule, RefsCondition
    <3>2. lfresh \in BOOLEAN /\ (lfresh => waf.live)  BY <1>i DEF TypeOK
    <3>. QED  BY <3>1, <3>2, <1>s
  <2>1. Building'  BY <1>0, <1>16 DEF ReadSecRule, Building, Wanted
  <2>2. SlotGuarded'  BY <2>a, <2>b, <2>d, <1>0, <1>i, <1>t DEF SlotGuarded
  <2>3. LeaderSees'  BY <2>a, <2>b, <2>d, <1>0, <1>i, <1>t DEF LeaderSees, Wanted
  <2>4. LeaderBuilds'  BY <2>a, <2>b, <2>d, <1>0, <1>i, <1>t DEF LeaderBuilds
  <2>5. LeaderDrops'  BY <2>a, <2>b, <2>d, <1>0, <1>i, <1>t DEF LeaderDrops, Wanted
  <2>6. Dropped'  BY <2>a, <2>b, <2>d, <1>0, <1>i, <1>t DEF Dropped, Synced
  <2>7. Served'  BY <2>a, <2>b, <2>d, <1>0, <1>i, <1>t DEF Served, Synced, Serves, Wanted
  <2>. QED  BY <2>1, <2>2, <2>3, <2>4, <2>5, <2>6, <2>7
<1>17. CASE LeaderPublish
  <2>1. (SlotGuarded /\ LeaderSees /\ Building)'
    BY <1>0, <1>17 DEF LeaderPublish, Goto, SlotGuarded, LeaderSees, Wanted, Building
  <2>2. LeaderBuilds'  BY <1>0, <1>t, <1>f, <1>17 DEF LeaderPublish, Publish, Goto, LeaderBuilds
  <2>3. LeaderDrops'  BY <1>0, <1>i, <1>t, <1>f, <1>17 DEF LeaderPublish, Publish, Goto, LeaderDrops, Wanted
  <2>4. Dropped'  BY <1>0, <1>t, <1>f, <1>17 DEF LeaderPublish, Publish, Goto, Dropped, Synced, LeaderBuilds
  <2>5. Served'
    BY <1>0, <1>i, <1>t, <1>f, <1>17 DEF LeaderPublish, Publish, Goto, Served, Serves, Synced, LeaderBuilds,
        Resolved, Complete
  <2>. QED  BY <2>1, <2>2, <2>3, <2>4, <2>5
<1>18. CASE EnsureDesired
  <2>1. (LeaderSees /\ Building)'  BY <1>0, <1>18 DEF EnsureDesired, Goto, LeaderSees, Wanted, Building
  <2>2. SlotGuarded'
    BY <1>0, <1>t, <1>f, <1>18 DEF EnsureDesired, Goto, Ensure, DeleteOthers, SlotGuarded, LeaderBuilds
  <2>3. LeaderBuilds'  BY <1>0, <1>t, <1>f, <1>18 DEF EnsureDesired, Goto, LeaderBuilds
  <2>4. LeaderDrops'  BY <1>0, <1>i, <1>t, <1>f, <1>18 DEF EnsureDesired, Goto, LeaderDrops, Wanted
  <2>5. Dropped'  BY <1>0, <1>t, <1>f, <1>18 DEF EnsureDesired, Goto, Dropped, Synced, LeaderBuilds
  <2>6. Served'  BY <1>0, <1>t, <1>f, <1>18 DEF EnsureDesired, Goto, Served, Synced, Serves, Wanted
  <2>. QED  BY <2>1, <2>2, <2>3, <2>4, <2>5, <2>6
<1>19. CASE WriteStatus
  <2>a. /\ lpc = "status" /\ lpc' = "idle" /\ UNCHANGED <<slots, seen, leader, sq, spc, scfg, ecds, eg>>
    BY <1>19 DEF WriteStatus, Done
  <2>b. \/ UNCHANGED <<waf, fresh>>
        \/ /\ waf.live /\ waf'.live /\ waf'.uid = waf.uid /\ waf'.gen = waf.gen /\ waf'.del = waf.del
           /\ waf'.fin = waf.fin /\ (\A r \in Replicas : ~fresh'[r]) /\ seen[leader] = waf
    <3>1. CASE seen[leader].live /\ fresh[leader]
      <4>1. waf.live /\ seen[leader] = waf  BY <3>1, <1>i, <1>t
      <4>. QED  BY <1>19, <1>t, <3>1, <4>1 DEF WriteStatus, Write, WAF
    <3>2. CASE ~(seen[leader].live /\ fresh[leader])  BY <1>19, <3>2 DEF WriteStatus, NoWrite
    <3>. QED  BY <3>1, <3>2
  <2>c. fresh[leader] /\ waf.live => \A r \in Replicas : ~fresh'[r]
    <3>1. fresh[leader] /\ waf.live => seen[leader].live  BY <1>i, <1>t
    <3>. QED  BY <1>19, <3>1 DEF WriteStatus, Write
  <2>1. Building'  BY <1>0, <1>19 DEF WriteStatus, Building, Wanted
  <2>2. SlotGuarded'  BY <2>a, <2>b, <2>c, <1>0, <1>i, <1>t DEF SlotGuarded
  <2>3. LeaderSees'  BY <2>a, <2>b, <2>c, <1>0, <1>i, <1>t DEF LeaderSees, Wanted
  <2>4. LeaderBuilds'  BY <2>a, <2>b, <2>c, <1>0, <1>i, <1>t DEF LeaderBuilds
  <2>5. LeaderDrops'  BY <2>a, <2>b, <2>c, <1>0, <1>i, <1>t DEF LeaderDrops, Wanted
  <2>6. Dropped'  BY <2>a, <2>b, <2>c, <1>0, <1>i, <1>t DEF Dropped, Synced
  <2>7. Served'  BY <2>a, <2>b, <2>c, <1>0, <1>i, <1>t DEF Served, Synced, Serves, Wanted
  <2>. QED  BY <2>1, <2>2, <2>3, <2>4, <2>5, <2>6, <2>7
<1>20. CASE markNotReady
  <2>a. /\ lpc \in {"idle", "secrule", "publish", "slot"} /\ lpc' = "idle" /\ lq' /\ UNCHANGED <<seen, leader, sq, spc, scfg, ecds>>
        /\ lpc = "idle" => seen[leader].live /\ seen[leader].fin /\ ~seen[leader].del
    BY <1>20 DEF markNotReady, Done
  <2>b. \/ UNCHANGED <<waf, fresh>>
        \/ /\ waf.live /\ waf'.live /\ waf'.uid = waf.uid /\ waf'.gen = waf.gen /\ waf'.del = waf.del
           /\ waf'.fin = waf.fin /\ (\A r \in Replicas : ~fresh'[r]) /\ seen[leader] = waf
    <3>1. CASE seen[leader].live /\ fresh[leader] /\ waf.ready # "False"
      <4>1. waf.live /\ seen[leader] = waf  BY <3>1, <1>i, <1>t
      <4>. QED  BY <1>20, <1>t, <3>1, <4>1 DEF markNotReady, Write, WAF
    <3>2. CASE ~(seen[leader].live /\ fresh[leader] /\ waf.ready # "False")
      BY <1>20, <3>2 DEF markNotReady, NoWrite
    <3>. QED  BY <3>1, <3>2
  <2>c. fresh[leader] /\ waf.live /\ waf.ready = "" => \A r \in Replicas : ~fresh'[r]
    <3>1. fresh[leader] /\ waf.live => seen[leader].live  BY <1>i, <1>t
    <3>. QED  BY <1>20, <3>1 DEF markNotReady, Write
  <2>d. \/ UNCHANGED <<slots, eg>>
        \/ /\ lpc = "slot" /\ waf.live
           /\ \A p \in SlotProviders : slots'[p] \in {slots[p], 0, lcfg.uid}
    BY <1>20, <1>0, <1>t DEF markNotReady, LeaderBuilds, DeleteOthers, Ensure
  <2>1. Building'  BY <1>0, <1>20 DEF markNotReady, Building, Wanted
  <2>2. SlotGuarded'  BY <2>a, <2>b, <2>d, <1>0, <1>t DEF SlotGuarded, LeaderBuilds
  <2>3. LeaderSees'  BY <2>a, <2>b, <2>c, <2>d, <1>0, <1>i, <1>t DEF LeaderSees, Wanted
  <2>4. LeaderBuilds'  BY <2>a, <2>b, <2>c, <2>d, <1>0, <1>i, <1>t DEF LeaderBuilds
  <2>5. LeaderDrops'  BY <2>a, <2>b, <2>c, <2>d, <1>0, <1>i, <1>t DEF LeaderDrops, Wanted
  <2>6. Dropped'  BY <2>a, <2>b, <2>c, <2>d, <1>0, <1>i, <1>t DEF Dropped, Synced
  <2>7. Served'  BY <2>a, <2>b, <2>c, <2>d, <1>0, <1>i, <1>t, ZenonT(60) DEF Served, Synced, Serves, Wanted
  <2>. QED  BY <2>1, <2>2, <2>3, <2>4, <2>5, <2>6, <2>7
<1>21. CASE DeleteSlots
  <2>1. (LeaderSees /\ Building)'  BY <1>0, <1>21 DEF DeleteSlots, LeaderSees, Wanted, Building
  <2>2. SlotGuarded'  BY <1>0, <1>t, <1>f, <1>21 DEF DeleteSlots, DropLocal, Done, Goto, Edit, SlotGuarded
  <2>3. LeaderBuilds'  BY <1>0, <1>t, <1>f, <1>21 DEF DeleteSlots, DropLocal, Done, Goto, Edit, LeaderBuilds
  <2>4. LeaderDrops'
    <3>0. UNCHANGED <<waf, seen, fresh, leader>> /\ lpc = "drop"  BY <1>21 DEF DeleteSlots
    <3>1. CASE slots' = [p \in SlotProviders |-> 0] /\ Goto("unfinalize") /\ UNCHANGED lfresh
      BY <1>0, <3>0, <3>1 DEF Goto, LeaderDrops, Wanted
    <3>2. CASE Done(TRUE)  BY <3>2 DEF Done, LeaderDrops
    <3>. QED  BY <1>21, <3>1, <3>2 DEF DeleteSlots
  <2>5. Dropped'  BY <1>0, <1>t, <1>f, <1>21 DEF DeleteSlots, DropLocal, Done, Goto, Edit, Dropped, Synced
  <2>6. Served'
    BY <1>0, <1>i, <1>t, <1>f, <1>21 DEF DeleteSlots, DropLocal, Goto, Done, Served, Synced, LeaderDrops, Wanted
  <2>. QED  BY <2>1, <2>2, <2>3, <2>4, <2>5, <2>6
<1>22. CASE RemoveFinalizer
  <2>a. /\ lpc = "unfinalize" /\ lpc' = "idle" /\ UNCHANGED <<slots, seen, leader, sq, spc, scfg, ecds, eg>> /\ (lq' = (lq \/ ~lfresh))
    BY <1>22 DEF RemoveFinalizer, Done
  <2>b. IF lfresh THEN waf' = NoWAF /\ \A r \in Replicas : ~fresh'[r] ELSE UNCHANGED <<waf, fresh>>
    BY <1>22 DEF RemoveFinalizer, Write, NoWrite
  <2>c. lfresh => seen[leader] = waf /\ waf.del  BY <2>a, <1>0, <1>i, <1>t DEF LeaderDrops
  <2>d. ~NoWAF.live /\ ~NoWAF.fin /\ NoWAF.uid = 0  BY DEF NoWAF
  <2>1. Building'  BY <1>0, <1>22 DEF RemoveFinalizer, Building, Wanted
  <2>2. SlotGuarded'  BY <2>a, <2>b, <1>0 DEF SlotGuarded, LeaderDrops
  <2>3. LeaderSees'  BY <2>a, <2>b, <2>c, <2>d, <1>0, <1>i, <1>t DEF LeaderSees, Wanted
  <2>4. LeaderBuilds'  BY <2>a, <2>b, <2>c, <2>d, <1>0, <1>i, <1>t DEF LeaderBuilds
  <2>5. LeaderDrops'  BY <2>a, <2>b, <2>c, <2>d, <1>0, <1>i, <1>t DEF LeaderDrops, Wanted
  <2>6. Dropped'  BY <2>a, <2>b, <2>c, <2>d, <1>0, <1>i, <1>t DEF Dropped, Synced
  <2>7. Served'  BY <2>a, <2>b, <2>c, <2>d, <1>0, <1>i, <1>t, ZenonT(60) DEF Served, Synced, Serves, Wanted
  <2>. QED  BY <2>1, <2>2, <2>3, <2>4, <2>5, <2>6, <2>7
<1>23. ASSUME NEW r \in Replicas, SyncDelete(r) PROVE Goal'
  <2>1. (SlotGuarded /\ LeaderSees /\ LeaderBuilds /\ LeaderDrops)'
    BY <1>0, <1>23 DEF SyncDelete, SlotGuarded, LeaderSees, Wanted, LeaderBuilds, LeaderDrops
  <2>2. Building'  BY <1>0, <1>t, <1>f, <1>23 DEF SyncDelete, Building, Wanted
  <2>3. Dropped'  BY <1>0, <1>t, <1>f, <1>23 DEF SyncDelete, Dropped, Synced
  <2>4. Served'  BY <1>0, <1>t, <1>f, <1>23 DEF SyncDelete, Served, Synced, Serves, Wanted
  <2>. QED  BY <2>1, <2>2, <2>3, <2>4
<1>24. ASSUME NEW r \in Replicas, SyncBegin(r) PROVE Goal'
  <2>1. (SlotGuarded /\ LeaderSees /\ LeaderBuilds /\ LeaderDrops)'
    BY <1>0, <1>24 DEF SyncBegin, SlotGuarded, LeaderSees, Wanted, LeaderBuilds, LeaderDrops
  <2>2. Building'
    <3>1. scfg'[r] = [ConfigOf(seen[r]) EXCEPT !.rs = rs.gen] /\ seen' = seen  BY <1>24, <1>f DEF SyncBegin
    <3>2. scfg'[r].uid = seen'[r].uid /\ scfg'[r].gen = seen'[r].gen  BY <3>1 DEF ConfigOf
    <3>3. \A q \in Replicas \ {r} : scfg'[q] = scfg[q] /\ spc'[q] = spc[q] /\ sq'[q] = sq[q]
      BY <1>24, <1>f DEF SyncBegin
    <3>. QED  BY <1>0, <1>24, <3>1, <3>2, <3>3 DEF SyncBegin, Building, Wanted
  <2>3. Dropped'  BY <1>0, <1>t, <1>f, <1>24 DEF SyncBegin, Resolves, Dropped, Synced
  <2>4. Served'  BY <1>0, <1>t, <1>f, <1>24 DEF SyncBegin, Resolves, Served, Synced, Serves, Wanted
  <2>. QED  BY <2>1, <2>2, <2>3, <2>4
<1>25. ASSUME NEW r \in Replicas, SyncReadSecRule(r) PROVE Goal'
  <2>1. (SlotGuarded /\ LeaderSees /\ LeaderBuilds /\ LeaderDrops)'
    BY <1>0, <1>25 DEF SyncReadSecRule, SlotGuarded, LeaderSees, Wanted, LeaderBuilds, LeaderDrops
  <2>2. Building'
    <3>0. scfg[r] \in Config /\ seen' = seen /\ spc[r] = "secrule"  BY <1>25, <1>f DEF SyncReadSecRule
    <3>1. \/ spc'[r] = "idle"
          \/ scfg'[r] = [scfg[r] EXCEPT !.rule = rule.gen] /\ sq' = sq
      BY <1>25, <1>f DEF SyncReadSecRule, SyncDone
    <3>2. [scfg[r] EXCEPT !.rule = rule.gen].uid = scfg[r].uid /\ [scfg[r] EXCEPT !.rule = rule.gen].gen = scfg[r].gen
      BY <3>0 DEF Config
    <3>3. \A q \in Replicas \ {r} : scfg'[q] = scfg[q] /\ spc'[q] = spc[q] /\ sq'[q] = sq[q]
      BY <1>25, <1>f DEF SyncReadSecRule, SyncDone
    <3>. QED  BY <1>0, <3>0, <3>1, <3>2, <3>3, ZenonT(60) DEF Building, Wanted
  <2>3. Dropped'  BY <1>0, <1>t, <1>f, <1>25 DEF SyncReadSecRule, Resolves, SyncDone, Dropped, Synced
  <2>4. Served'
    BY <1>0, <1>t, <1>f, <1>25, ZenonT(60) DEF SyncReadSecRule, Resolves, SyncDone, Served, Synced, Serves, Wanted
  <2>. QED  BY <2>1, <2>2, <2>3, <2>4
<1>26. ASSUME NEW r \in Replicas, SyncPublish(r) PROVE Goal'
  <2>1. (SlotGuarded /\ LeaderSees /\ LeaderBuilds /\ LeaderDrops)'
    BY <1>0, <1>26 DEF SyncPublish, SlotGuarded, LeaderSees, Wanted, LeaderBuilds, LeaderDrops
  <2>2. Building'  BY <1>0, <1>t, <1>f, <1>26 DEF SyncPublish, Publish, SyncDone, Building, Wanted
  <2>3. Dropped'
    BY <1>0, <1>i, <1>t, <1>f, <1>26 DEF SyncPublish, Publish, SyncDone, Dropped, Synced, Building, Wanted
  <2>4. Served'
    BY <1>0, <1>i, <1>t, <1>f, <1>26, ZenonT(60) DEF SyncPublish, Publish, SyncDone, Served, Synced, Serves, Building,
        Wanted, Resolved, Complete
  <2>. QED  BY <2>1, <2>2, <2>3, <2>4
<1>27. ASSUME NEW r \in Replicas, SyncFail(r) PROVE Goal'
  <2>1. (SlotGuarded /\ LeaderSees /\ LeaderBuilds /\ LeaderDrops)'
    BY <1>0, <1>27 DEF SyncFail, SlotGuarded, LeaderSees, Wanted, LeaderBuilds, LeaderDrops
  <2>2. Building'  BY <1>0, <1>t, <1>f, <1>27 DEF SyncFail, SyncDone, Edit, Building, Wanted
  <2>3. Dropped'  BY <1>0, <1>t, <1>f, <1>27 DEF SyncFail, SyncDone, Edit, Dropped, Synced
  <2>4. Served'  BY <1>0, <1>t, <1>f, <1>27 DEF SyncFail, SyncDone, Edit, Served, Synced, Serves, Wanted
  <2>. QED  BY <2>1, <2>2, <2>3, <2>4
<1>28. ASSUME NEW r \in Replicas, SyncDrop(r) PROVE Goal'
  <2>1. (SlotGuarded /\ LeaderSees /\ LeaderBuilds /\ LeaderDrops)'
    BY <1>0, <1>28 DEF SyncDrop, SlotGuarded, LeaderSees, Wanted, LeaderBuilds, LeaderDrops
  <2>2. Building'  BY <1>0, <1>t, <1>f, <1>28 DEF SyncDrop, DropLocal, SyncDone, Building, Wanted
  <2>3. Dropped'  BY <1>0, <1>t, <1>f, <1>28 DEF SyncDrop, DropLocal, SyncDone, Dropped, Synced
  <2>4. Served'
    BY <1>0, <1>i, <1>t, <1>f, <1>28, ZenonT(60) DEF SyncDrop, DropLocal, SyncDone, Served, Synced, Serves, Dropping, Wanted
  <2>. QED  BY <2>1, <2>2, <2>3, <2>4
<1>29. CASE UNCHANGED vars
  BY <1>0, <1>29, ZenonT(60) DEF vars, SlotGuarded, LeaderSees, Wanted, LeaderBuilds, LeaderDrops, Building, Dropped,
      Synced, Served, Serves
<1>30. ASSUME NEW n \in Replicas, Failover(n) PROVE FALSE
  BY <1>30 DEF Failover, Edit, NoFailover
<1>. QED
  BY <1>1, <1>2, <1>3, <1>4, <1>5, <1>6, <1>7, <1>8, <1>9, <1>10, <1>11, <1>12, <1>13, <1>14, <1>15, <1>16,
      <1>17, <1>18, <1>19, <1>20, <1>21, <1>22, <1>23, <1>24, <1>25, <1>26, <1>27, <1>28, <1>29, <1>30
     DEF Next, Users, Cluster, Lead, Sync

\* The operator starts with slots an earlier run left, guarded by the finalizer.
LEMMA LeaderInvInit == Init => LeaderInv
<1>. SUFFICES ASSUME Init, SnapshotInv
              PROVE  SlotGuarded /\ LeaderSees /\ LeaderBuilds /\ LeaderDrops /\ Building /\ Dropped /\ Served
  BY SnapshotInvInit DEF LeaderInv
<1>1. waf = NoWAF \/ \E p \in Providers : waf = ServedWAF(p)  BY DEF Init
<1>2. ~waf.live => waf.uid = 0  BY <1>1, NoFields DEF ServedWAF
<1>3. waf.live => waf.fin  BY <1>1, NoFields DEF ServedWAF
<1>4. \A p \in SlotProviders : slots[p] # 0 => waf.uid = slots[p]  BY DEF Init
<1>5. /\ \A r \in Replicas : /\ seen[r] = waf /\ ecds[r] = NoConfig /\ eg[r] = NoConfig
                             /\ spc[r] = "idle" /\ sq[r] = waf.live
      /\ lpc = "idle" /\ leader \in Replicas
  BY DEF Init
<1>6. SlotGuarded  BY <1>2, <1>3, <1>4 DEF SlotGuarded
<1>7. LeaderSees  BY <1>3, <1>5 DEF LeaderSees, Wanted
<1>8. LeaderBuilds /\ LeaderDrops  BY <1>5 DEF LeaderBuilds, LeaderDrops
<1>9. Building  BY <1>5 DEF Building
<1>10. Dropped  BY <1>5 DEF Dropped
<1>11. Served  BY <1>5 DEF Served, Synced, Wanted
<1>. QED  BY <1>6, <1>7, <1>8, <1>9, <1>10, <1>11

\* The invariant of the leader's work holds while the lease stays.
THEOREM LeaderInvHolds == ASSUME NoFailover PROVE Spec => []LeaderInv
<1>1. LeaderInv /\ SnapshotInv' /\ [Next]_vars => LeaderInv'  BY LeaderInvStep
<1>. QED  BY <1>1, LeaderInvInit, SnapshotInvHolds, PTL DEF Spec

\* Slots of a WAF never outlive its finalizer (SlotGuarded): reconcileDelete takes
\* them all down before RemoveFinalizer, and no build of the leader sets one again.
THEOREM SlotsAreGuarded == ASSUME NoFailover PROVE Spec => []SlotGuarded
<1>1. LeaderInv => SlotGuarded  BY DEF LeaderInv
<1>. QED  BY <1>1, LeaderInvHolds, PTL

\* A replica with nothing left to do has forgotten a WAF that is gone (DropLocal of
\* the sync controller), however publications and deletions interleave.
THEOREM IdleReplicasDropped == ASSUME NoFailover PROVE Spec => []IdleDropped
<1>1. LeaderInv => IdleDropped  BY DEF LeaderInv, Dropped, Synced, IdleDropped, Idle
<1>. QED  BY <1>1, LeaderInvHolds, PTL

\* A replica with nothing left to do serves the WAF as it is, complete, whatever
\* failed, was retried, or was published late by the leader's other controller.
THEOREM IdleReplicasServe == ASSUME NoFailover PROVE Spec => []IdleServes
<1>1. ASSUME LeaderInv, NEW r \in Replicas, Idle(r), waf.live, ~waf.del
      PROVE  Complete(ecds[r]) /\ ecds[r].uid = waf.uid /\ ecds[r].gen = waf.gen
  <2>1. Synced(r) /\ Wanted(waf) /\ Served  BY <1>1 DEF Idle, Synced, Wanted, LeaderInv
  <2>2. seen[r] = waf  BY <1>1 DEF LeaderInv, SnapshotInv, Cached, Idle
  <2>3. r = leader => lpc = "idle" /\ ~lq  BY <1>1, <2>2 DEF Idle
  <2>. QED  BY <2>1, <2>3 DEF Served, Serves
<1>2. LeaderInv => IdleServes  BY <1>1 DEF IdleServes
<1>. QED  BY <1>2, LeaderInvHolds, PTL
-----------------------------------------------------------------------------
(* A WAF that users leave alone, until they delete it.                      *)

\* Users do not create or edit WAFs; all else they do, and the lease moves.
WAFUntouched == Edits \cap {"waf", "provider"} = {}

\* There is one WAF, and one generation of it.
Itself(o) == o.uid = 1 /\ o.gen = 1
OneWAF == (waf.live => Itself(waf)) /\ \A r \in Replicas : seen[r].live => Itself(seen[r])

\* No cache takes the WAF for deleted when it is not.
StillWanted == \A r \in Replicas : Wanted(waf) => Wanted(seen[r])

BuildsIt ==
    /\ lpc \in {"secrule", "publish"} => Itself(lcfg)
    /\ \A r \in Replicas : spc[r] \in {"secrule", "publish"} => Itself(scfg[r])

DropsGone ==
    /\ lpc \in {"drop", "unfinalize"} => ~Wanted(waf)
    /\ \A r \in Replicas : spc[r] = "drop" => ~Wanted(waf)

Kept == \A r \in Replicas : ~sq[r] /\ spc[r] = "idle" /\ Wanted(waf) => Serves(ecds[r], waf)

KeptInv == SnapshotInv /\ OneWAF /\ StillWanted /\ BuildsIt /\ DropsGone /\ Kept

\* Every step keeps it: a restarted replica has its keys queued, and what an old
\* or a new leader publishes late is the one generation there is.
LEMMA KeptStep == KeptInv /\ SnapshotInv' /\ [Next]_vars /\ WAFUntouched => KeptInv'
<1>. SUFFICES ASSUME KeptInv, SnapshotInv', [Next]_vars, WAFUntouched
              PROVE  (OneWAF /\ StillWanted /\ BuildsIt /\ DropsGone /\ Kept)'
  BY DEF KeptInv
<1>. DEFINE Goal == OneWAF /\ StillWanted /\ BuildsIt /\ DropsGone /\ Kept
<1>0. OneWAF /\ StillWanted /\ BuildsIt /\ DropsGone /\ Kept  BY DEF KeptInv
<1>i. TypeOK /\ Resolved /\ \A r \in Replicas : fresh[r] => seen[r] = waf
  BY DEF KeptInv, SnapshotInv, Cached
<1>t. waf \in WAF /\ leader \in Replicas /\ lcfg \in Config /\ \A r \in Replicas : seen[r] \in WAF
  BY <1>i DEF TypeOK
<1>f. /\ seen \in [Replicas -> WAF] /\ fresh \in [Replicas -> BOOLEAN]
      /\ scfg \in [Replicas -> Config] /\ ecds \in [Replicas -> Config]
      /\ sq \in [Replicas -> BOOLEAN] /\ spc \in [Replicas -> {"idle", "secrule", "publish", "drop"}]
  BY <1>i DEF TypeOK
<1>. USE DEF api, informers, leading, syncing, memory
<1>s. ASSUME NEW m, NEW refs, NEW current, SetReferencesResolved(m, refs, current)
      PROVE  waf' = waf \/ (waf'.live = waf.live /\ waf'.uid = waf.uid /\ waf'.gen = waf.gen /\ waf'.del = waf.del)
  <2>1. ASSUME NEW status, NEW own, Write([waf EXCEPT !.refs = status], own)
        PROVE  waf'.live = waf.live /\ waf'.uid = waf.uid /\ waf'.gen = waf.gen /\ waf'.del = waf.del
    BY <2>1, <1>t DEF Write, WAF
  <2>. QED  BY <2>1, <1>s DEF SetReferencesResolved
<1>1. CASE DeleteWAF
  <2>a. /\ waf.live /\ (waf'.live => waf'.del /\ waf'.uid = waf.uid /\ waf'.gen = waf.gen)
        /\ UNCHANGED <<seen, lpc, spc, sq, ecds>>
    BY <1>1, <1>t, NoFields DEF DeleteWAF, Write, WAF
  <2>1. BuildsIt'  BY <1>0, <1>1 DEF DeleteWAF, BuildsIt, Itself
  <2>2. OneWAF'  BY <2>a, <1>0, <1>t DEF OneWAF, Itself
  <2>3. StillWanted'  BY <2>a, <1>0, <1>t DEF StillWanted, Wanted
  <2>4. DropsGone'  BY <2>a, <1>0, <1>t DEF DropsGone, Wanted, StillWanted
  <2>5. Kept'  BY <2>a, <1>0, <1>t DEF Kept, Wanted, Serves
  <2>. QED  BY <2>1, <2>2, <2>3, <2>4, <2>5
<1>2. CASE ApplyRuleSet
  BY <1>0, <1>2 DEF ApplyRuleSet, OneWAF, Itself, StillWanted, Wanted, BuildsIt, DropsGone, Kept, Serves
<1>3. CASE ApplySecRule
  BY <1>0, <1>3 DEF ApplySecRule, OneWAF, Itself, StillWanted, Wanted, BuildsIt, DropsGone, Kept, Serves
<1>4. CASE DeleteRuleSet
  BY <1>0, <1>4 DEF DeleteRuleSet, OneWAF, Itself, StillWanted, Wanted, BuildsIt, DropsGone, Kept, Serves
<1>5. CASE DeleteSecRule
  BY <1>0, <1>5 DEF DeleteSecRule, OneWAF, Itself, StillWanted, Wanted, BuildsIt, DropsGone, Kept, Serves
<1>6. CASE FinalizeRuleSet
  BY <1>0, <1>6 DEF FinalizeRuleSet, OneWAF, Itself, StillWanted, Wanted, BuildsIt, DropsGone, Kept, Serves
<1>7. CASE FinalizeSecRule
  BY <1>0, <1>7 DEF FinalizeSecRule, OneWAF, Itself, StillWanted, Wanted, BuildsIt, DropsGone, Kept, Serves
<1>8. ASSUME NEW r \in Replicas, SyncWAF(r) PROVE Goal'
  <2>1. (BuildsIt /\ DropsGone)'  BY <1>0, <1>8 DEF SyncWAF, BuildsIt, Itself, DropsGone, Wanted
  <2>2. OneWAF'  BY <1>0, <1>i, <1>t, <1>f, <1>8 DEF SyncWAF, OneWAF, Itself
  <2>3. StillWanted'  BY <1>0, <1>i, <1>t, <1>f, <1>8 DEF SyncWAF, StillWanted, Wanted
  <2>4. Kept'  BY <1>0, <1>t, <1>f, <1>8 DEF SyncWAF, Kept, Wanted, Serves
  <2>. QED  BY <2>1, <2>2, <2>3, <2>4
<1>9. ASSUME NEW r \in Replicas, NEW kind \in RuleKinds, RuleEvent(r, kind) PROVE Goal'
  <2>1. (OneWAF /\ StillWanted /\ BuildsIt /\ DropsGone)'
    BY <1>0, <1>9 DEF RuleEvent, OneWAF, Itself, StillWanted, Wanted, BuildsIt, DropsGone
  <2>2. Kept'  BY <1>0, <1>t, <1>f, <1>9 DEF RuleEvent, Kept, Wanted, Serves
  <2>. QED  BY <2>1, <2>2
<1>10. ASSUME NEW p \in SlotProviders, CollectSlot(p) PROVE Goal'
  BY <1>0, <1>10 DEF CollectSlot, OneWAF, Itself, StillWanted, Wanted, BuildsIt, DropsGone, Kept, Serves
<1>11. CASE BeginDelete
  <2>1. (OneWAF /\ StillWanted /\ Kept)'
    BY <1>0, <1>11 DEF BeginDelete, OneWAF, Itself, StillWanted, Wanted, Kept, Serves
  <2>2. BuildsIt'  BY <1>0, <1>i, <1>t, <1>f, <1>11 DEF BeginDelete, BuildsIt, Itself
  <2>3. DropsGone'  BY <1>0, <1>t, <1>11 DEF BeginDelete, DropsGone, StillWanted, Wanted
  <2>. QED  BY <2>1, <2>2, <2>3
<1>12. CASE AddFinalizer
  <2>0. seen[leader] = waf  BY <1>12, <1>i, <1>t DEF AddFinalizer
  <2>a. /\ waf'.live = waf.live /\ waf'.uid = waf.uid /\ waf'.gen = waf.gen /\ waf'.del = waf.del
        /\ UNCHANGED <<seen, lpc, spc, sq, ecds>>
    BY <1>12, <1>t, <2>0 DEF AddFinalizer, Write, WAF
  <2>1. BuildsIt'  BY <1>0, <1>12 DEF AddFinalizer, BuildsIt, Itself
  <2>2. OneWAF'  BY <2>a, <1>0, <1>t DEF OneWAF, Itself
  <2>3. StillWanted'  BY <2>a, <1>0, <1>t DEF StillWanted, Wanted
  <2>4. DropsGone'  BY <2>a, <1>0, <1>t DEF DropsGone, Wanted, StillWanted
  <2>5. Kept'  BY <2>a, <1>0, <1>t DEF Kept, Wanted, Serves
  <2>. QED  BY <2>1, <2>2, <2>3, <2>4, <2>5
<1>13. CASE Begin
  <2>a. UNCHANGED <<seen, sq, spc, scfg, ecds>> /\ lpc' \in {"idle", "secrule"} /\ seen[leader].live
    BY <1>13 DEF Begin, SetReferencesResolved
  <2>b. lpc' = "secrule" => lcfg'.uid = seen[leader].uid /\ lcfg'.gen = seen[leader].gen
    BY <1>13 DEF Begin, ConfigOf, SetReferencesResolved
  <2>c. \/ waf' = waf
        \/ waf'.live = waf.live /\ waf'.uid = waf.uid /\ waf'.gen = waf.gen /\ waf'.del = waf.del
    <3>1. ASSUME NEW m \in RefsCondition, SetReferencesResolved(m, seen[leader].refs, fresh[leader])
          PROVE  <2>c!1 \/ <2>c!2
      BY <3>1, <1>s
    <3>. QED  BY <1>13, <3>1 DEF Begin
  <2>1. OneWAF'  BY <2>a, <2>b, <2>c, <1>0, <1>t DEF OneWAF, Itself
  <2>2. StillWanted'  BY <2>a, <2>b, <2>c, <1>0, <1>t DEF StillWanted, Wanted
  <2>3. BuildsIt'  BY <2>a, <2>b, <1>0, <1>t DEF BuildsIt, OneWAF, Itself
  <2>4. DropsGone'  BY <2>a, <2>b, <2>c, <1>0, <1>t DEF DropsGone, Wanted, StillWanted
  <2>5. Kept'  BY <2>a, <2>b, <2>c, <1>0, <1>t DEF Kept, Wanted, Serves
  <2>. QED  BY <2>1, <2>2, <2>3, <2>4, <2>5
<1>14. CASE ReadSecRule
  <2>a. UNCHANGED <<seen, sq, spc, scfg, ecds>> /\ lpc = "secrule" /\ lpc' \in {"idle", "publish"}
    BY <1>14 DEF ReadSecRule, SetReferencesResolved
  <2>b. lpc' = "publish" => lcfg'.uid = lcfg.uid /\ lcfg'.gen = lcfg.gen
    <3>1. [lcfg EXCEPT !.rule = rule.gen].uid = lcfg.uid /\ [lcfg EXCEPT !.rule = rule.gen].gen = lcfg.gen
      BY <1>t DEF Config
    <3>2. lpc' = "publish" => lcfg' = [lcfg EXCEPT !.rule = rule.gen]
      BY <1>14 DEF ReadSecRule, SetReferencesResolved
    <3>. QED  BY <3>1, <3>2
  <2>c. \/ waf' = waf
        \/ waf'.live = waf.live /\ waf'.uid = waf.uid /\ waf'.gen = waf.gen /\ waf'.del = waf.del
    <3>1. PICK m \in RefsCondition : SetReferencesResolved(m, lrefs, lfresh)  BY <1>14 DEF ReadSecRule, RefsCondition
    <3>. QED  BY <3>1, <1>s
  <2>1. OneWAF'  BY <2>a, <2>b, <2>c, <1>0, <1>t DEF OneWAF, Itself
  <2>2. StillWanted'  BY <2>a, <2>b, <2>c, <1>0, <1>t DEF StillWanted, Wanted
  <2>3. BuildsIt'  BY <2>a, <2>b, <2>c, <1>0, <1>t DEF BuildsIt, Itself
  <2>4. DropsGone'  BY <2>a, <2>b, <2>c, <1>0, <1>t DEF DropsGone, Wanted, StillWanted
  <2>5. Kept'  BY <2>a, <2>b, <2>c, <1>0, <1>t DEF Kept, Wanted, Serves
  <2>. QED  BY <2>1, <2>2, <2>3, <2>4, <2>5
<1>15. CASE LeaderPublish
  <2>1. (OneWAF /\ StillWanted)'  BY <1>0, <1>15 DEF LeaderPublish, Goto, OneWAF, Itself, StillWanted, Wanted
  <2>2. BuildsIt'  BY <1>0, <1>i, <1>t, <1>f, <1>15 DEF LeaderPublish, Publish, Goto, BuildsIt, Itself
  <2>3. DropsGone'  BY <1>0, <1>t, <1>f, <1>15 DEF LeaderPublish, Publish, Goto, DropsGone, Wanted, StillWanted
  <2>4. Kept'
    <3>1. /\ Complete(lcfg) /\ lcfg.uid = 1 /\ lcfg.gen = 1 /\ (Wanted(waf) => waf.uid = 1 /\ waf.gen = 1)
      BY <1>0, <1>i, <1>15 DEF LeaderPublish, BuildsIt, OneWAF, Itself, Resolved, Complete, Wanted
    <3>2. ecds' = [ecds EXCEPT ![leader] = lcfg] /\ UNCHANGED <<sq, spc, waf>>
      BY <1>15 DEF LeaderPublish, Publish
    <3>. QED  BY <1>0, <1>f, <3>1, <3>2 DEF Kept, Serves, Wanted
  <2>. QED  BY <2>1, <2>2, <2>3, <2>4
<1>16. CASE EnsureDesired
  <2>1. (OneWAF /\ StillWanted /\ Kept)'
    BY <1>0, <1>16 DEF EnsureDesired, Goto, OneWAF, Itself, StillWanted, Wanted, Kept, Serves
  <2>2. BuildsIt'  BY <1>0, <1>i, <1>t, <1>f, <1>16 DEF EnsureDesired, Goto, BuildsIt, Itself
  <2>3. DropsGone'  BY <1>0, <1>t, <1>f, <1>16 DEF EnsureDesired, Goto, DropsGone, Wanted, StillWanted
  <2>. QED  BY <2>1, <2>2, <2>3
<1>17. CASE WriteStatus
  <2>a. UNCHANGED <<seen, sq, spc, scfg, ecds>> /\ lpc' = "idle"  BY <1>17 DEF WriteStatus, Done
  <2>b. \/ waf' = waf
        \/ waf'.live = waf.live /\ waf'.uid = waf.uid /\ waf'.gen = waf.gen /\ waf'.del = waf.del
    BY <1>17, <1>t DEF WriteStatus, Write, NoWrite, WAF
  <2>1. OneWAF'  BY <2>a, <2>b, <1>0, <1>t DEF OneWAF, Itself
  <2>2. StillWanted'  BY <2>a, <2>b, <1>0, <1>t DEF StillWanted, Wanted
  <2>3. BuildsIt'  BY <2>a, <2>b, <1>0, <1>t DEF BuildsIt, Itself
  <2>4. DropsGone'  BY <2>a, <2>b, <1>0, <1>t DEF DropsGone, Wanted, StillWanted
  <2>5. Kept'  BY <2>a, <2>b, <1>0, <1>t DEF Kept, Wanted, Serves
  <2>. QED  BY <2>1, <2>2, <2>3, <2>4, <2>5
<1>18. CASE markNotReady
  <2>a. UNCHANGED <<seen, sq, spc, scfg, ecds>> /\ lpc' = "idle"  BY <1>18 DEF markNotReady, Done
  <2>b. \/ waf' = waf
        \/ waf'.live = waf.live /\ waf'.uid = waf.uid /\ waf'.gen = waf.gen /\ waf'.del = waf.del
    BY <1>18, <1>t DEF markNotReady, Write, NoWrite, WAF
  <2>1. OneWAF'  BY <2>a, <2>b, <1>0, <1>t DEF OneWAF, Itself
  <2>2. StillWanted'  BY <2>a, <2>b, <1>0, <1>t DEF StillWanted, Wanted
  <2>3. BuildsIt'  BY <2>a, <2>b, <1>0, <1>t DEF BuildsIt, Itself
  <2>4. DropsGone'  BY <2>a, <2>b, <1>0, <1>t DEF DropsGone, Wanted, StillWanted
  <2>5. Kept'  BY <2>a, <2>b, <1>0, <1>t DEF Kept, Wanted, Serves
  <2>. QED  BY <2>1, <2>2, <2>3, <2>4, <2>5
<1>19. CASE DeleteSlots
  <2>1. (OneWAF /\ StillWanted)'  BY <1>0, <1>19 DEF DeleteSlots, OneWAF, Itself, StillWanted, Wanted
  <2>2. BuildsIt'
    BY <1>0, <1>i, <1>t, <1>f, <1>19 DEF DeleteSlots, DropLocal, Done, Goto, Edit, BuildsIt, Itself
  <2>3. DropsGone'  BY <1>0, <1>19 DEF DeleteSlots, DropsGone, Wanted
  <2>4. Kept'
    <3>1. ~Wanted(waf) /\ waf' = waf  BY <1>0, <1>19 DEF DeleteSlots, DropsGone
    <3>. QED  BY <3>1 DEF Kept, Wanted
  <2>. QED  BY <2>1, <2>2, <2>3, <2>4
<1>20. CASE RemoveFinalizer
  <2>a. UNCHANGED <<seen, sq, spc, scfg, ecds>> /\ lpc' = "idle"  BY <1>20 DEF RemoveFinalizer, Done
  <2>b. waf' = waf \/ ~waf'.live  BY <1>20, NoFields DEF RemoveFinalizer, Write, NoWrite
  <2>1. OneWAF'  BY <2>a, <2>b, <1>0, <1>t DEF OneWAF, Itself
  <2>2. StillWanted'  BY <2>a, <2>b, <1>0, <1>t DEF StillWanted, Wanted
  <2>3. BuildsIt'  BY <2>a, <2>b, <1>0, <1>t DEF BuildsIt, Itself
  <2>4. DropsGone'  BY <2>a, <2>b, <1>0, <1>t DEF DropsGone, Wanted, StillWanted
  <2>5. Kept'  BY <2>a, <2>b, <1>0, <1>t DEF Kept, Wanted, Serves
  <2>. QED  BY <2>1, <2>2, <2>3, <2>4, <2>5
<1>21. ASSUME NEW r \in Replicas, SyncDelete(r) PROVE Goal'
  <2>1. (OneWAF /\ StillWanted)'  BY <1>0, <1>21 DEF SyncDelete, OneWAF, Itself, StillWanted, Wanted
  <2>2. BuildsIt'  BY <1>0, <1>i, <1>t, <1>f, <1>21 DEF SyncDelete, BuildsIt, Itself
  <2>3. DropsGone'  BY <1>0, <1>f, <1>21 DEF SyncDelete, DropsGone, StillWanted, Wanted
  <2>4. Kept'  BY <1>0, <1>t, <1>f, <1>21 DEF SyncDelete, Kept, Wanted, Serves
  <2>. QED  BY <2>1, <2>2, <2>3, <2>4
<1>22. ASSUME NEW r \in Replicas, SyncBegin(r) PROVE Goal'
  <2>1. (OneWAF /\ StillWanted)'  BY <1>0, <1>22 DEF SyncBegin, OneWAF, Itself, StillWanted, Wanted
  <2>2. BuildsIt'
    <3>1. scfg'[r] = [ConfigOf(seen[r]) EXCEPT !.rs = rs.gen] /\ seen[r].live /\ UNCHANGED <<lpc, lcfg>>
      BY <1>22, <1>f DEF SyncBegin
    <3>2. scfg'[r].uid = seen[r].uid /\ scfg'[r].gen = seen[r].gen  BY <3>1 DEF ConfigOf
    <3>3. \A q \in Replicas \ {r} : scfg'[q] = scfg[q] /\ spc'[q] = spc[q]  BY <1>22, <1>f DEF SyncBegin
    <3>. QED  BY <1>0, <3>1, <3>2, <3>3, ZenonT(60) DEF BuildsIt, OneWAF, Itself
  <2>3. DropsGone'  BY <1>0, <1>t, <1>f, <1>22 DEF SyncBegin, Resolves, DropsGone, Wanted, StillWanted
  <2>4. Kept'  BY <1>0, <1>t, <1>f, <1>22 DEF SyncBegin, Resolves, Kept, Wanted, Serves
  <2>. QED  BY <2>1, <2>2, <2>3, <2>4
<1>23. ASSUME NEW r \in Replicas, SyncReadSecRule(r) PROVE Goal'
  <2>1. (OneWAF /\ StillWanted)'  BY <1>0, <1>23 DEF SyncReadSecRule, OneWAF, Itself, StillWanted, Wanted
  <2>2. BuildsIt'
    <3>0. scfg[r] \in Config /\ spc[r] = "secrule" /\ UNCHANGED <<lpc, lcfg>>
      BY <1>23, <1>f DEF SyncReadSecRule
    <3>1. spc'[r] = "idle" \/ scfg'[r] = [scfg[r] EXCEPT !.rule = rule.gen]
      BY <1>23, <1>f DEF SyncReadSecRule, SyncDone
    <3>2. [scfg[r] EXCEPT !.rule = rule.gen].uid = scfg[r].uid /\ [scfg[r] EXCEPT !.rule = rule.gen].gen = scfg[r].gen
      BY <3>0 DEF Config
    <3>3. \A q \in Replicas \ {r} : scfg'[q] = scfg[q] /\ spc'[q] = spc[q]
      BY <1>23, <1>f DEF SyncReadSecRule, SyncDone
    <3>. QED  BY <1>0, <3>0, <3>1, <3>2, <3>3, ZenonT(60) DEF BuildsIt, Itself
  <2>3. DropsGone'
    BY <1>0, <1>t, <1>f, <1>23 DEF SyncReadSecRule, Resolves, SyncDone, DropsGone, Wanted, StillWanted
  <2>4. Kept'  BY <1>0, <1>t, <1>f, <1>23, ZenonT(60) DEF SyncReadSecRule, Resolves, SyncDone, Kept, Wanted, Serves
  <2>. QED  BY <2>1, <2>2, <2>3, <2>4
<1>24. ASSUME NEW r \in Replicas, SyncPublish(r) PROVE Goal'
  <2>1. (OneWAF /\ StillWanted)'  BY <1>0, <1>24 DEF SyncPublish, OneWAF, Itself, StillWanted, Wanted
  <2>2. BuildsIt'  BY <1>0, <1>i, <1>t, <1>f, <1>24 DEF SyncPublish, Publish, SyncDone, BuildsIt, Itself
  <2>3. DropsGone'
    BY <1>0, <1>t, <1>f, <1>24 DEF SyncPublish, Publish, SyncDone, DropsGone, Wanted, StillWanted
  <2>4. Kept'
    <3>1. /\ Complete(scfg[r]) /\ scfg[r].uid = 1 /\ scfg[r].gen = 1 /\ (Wanted(waf) => waf.uid = 1 /\ waf.gen = 1)
      BY <1>0, <1>i, <1>24 DEF SyncPublish, BuildsIt, OneWAF, Itself, Resolved, Complete, Wanted
    <3>2. ecds' = [ecds EXCEPT ![r] = scfg[r]] /\ waf' = waf  BY <1>24 DEF SyncPublish, Publish
    <3>3. \A q \in Replicas \ {r} : spc'[q] = spc[q] /\ sq'[q] = sq[q]  BY <1>24, <1>f DEF SyncPublish, SyncDone
    <3>. QED  BY <1>0, <1>f, <3>1, <3>2, <3>3 DEF Kept, Serves, Wanted
  <2>. QED  BY <2>1, <2>2, <2>3, <2>4
<1>25. ASSUME NEW r \in Replicas, SyncFail(r) PROVE Goal'
  <2>1. (OneWAF /\ StillWanted)'  BY <1>0, <1>25 DEF SyncFail, OneWAF, Itself, StillWanted, Wanted
  <2>2. BuildsIt'  BY <1>0, <1>i, <1>t, <1>f, <1>25 DEF SyncFail, SyncDone, Edit, BuildsIt, Itself
  <2>3. DropsGone'  BY <1>0, <1>t, <1>f, <1>25 DEF SyncFail, SyncDone, Edit, DropsGone, Wanted, StillWanted
  <2>4. Kept'  BY <1>0, <1>t, <1>f, <1>25 DEF SyncFail, SyncDone, Edit, Kept, Wanted, Serves
  <2>. QED  BY <2>1, <2>2, <2>3, <2>4
<1>26. ASSUME NEW r \in Replicas, SyncDrop(r) PROVE Goal'
  <2>1. (OneWAF /\ StillWanted)'  BY <1>0, <1>26 DEF SyncDrop, OneWAF, Itself, StillWanted, Wanted
  <2>2. BuildsIt'  BY <1>0, <1>i, <1>t, <1>f, <1>26 DEF SyncDrop, DropLocal, SyncDone, BuildsIt, Itself
  <2>3. DropsGone'  BY <1>0, <1>t, <1>f, <1>26 DEF SyncDrop, DropLocal, SyncDone, DropsGone, Wanted, StillWanted
  <2>4. Kept'
    <3>1. ~Wanted(waf) /\ waf' = waf  BY <1>0, <1>26 DEF SyncDrop, DropsGone
    <3>. QED  BY <3>1 DEF Kept, Wanted
  <2>. QED  BY <2>1, <2>2, <2>3, <2>4
<1>27. ASSUME NEW n \in Replicas, Failover(n) PROVE Goal'
  <2>1. OneWAF'  BY <1>0, <1>i, <1>t, <1>f, <1>27 DEF Failover, Edit, OneWAF, Itself
  <2>2. StillWanted'  BY <1>0, <1>i, <1>t, <1>f, <1>27 DEF Failover, Edit, StillWanted, Wanted
  <2>3. BuildsIt'  BY <1>0, <1>i, <1>t, <1>f, <1>27 DEF Failover, Edit, BuildsIt, Itself
  <2>4. DropsGone'  BY <1>0, <1>t, <1>f, <1>27 DEF Failover, Edit, DropsGone, Wanted, StillWanted
  <2>5. Kept'  BY <1>0, <1>t, <1>f, <1>27 DEF Failover, Edit, Kept, Wanted, Serves
  <2>. QED  BY <2>1, <2>2, <2>3, <2>4, <2>5
<1>28. CASE UNCHANGED vars
  BY <1>0, <1>28 DEF vars, OneWAF, Itself, StillWanted, Wanted, BuildsIt, DropsGone, Kept, Serves
<1>29. ASSUME NEW p \in Providers, CreateWAF(p) \/ EditWAF(p) PROVE FALSE
  BY <1>29 DEF CreateWAF, EditWAF, Edit, WAFUntouched
<1>. QED
  BY <1>1, <1>2, <1>3, <1>4, <1>5, <1>6, <1>7, <1>8, <1>9, <1>10, <1>11, <1>12, <1>13, <1>14, <1>15, <1>16,
      <1>17, <1>18, <1>19, <1>20, <1>21, <1>22, <1>23, <1>24, <1>25, <1>26, <1>27, <1>28, <1>29
     DEF Next, Users, Cluster, Lead, Sync

\* The operator starts with the WAF an earlier run has served, and its key queued.
LEMMA KeptInit == Init /\ WAFUntouched => KeptInv
<1>. SUFFICES ASSUME Init, WAFUntouched, SnapshotInv PROVE OneWAF /\ StillWanted /\ BuildsIt /\ DropsGone /\ Kept
  BY SnapshotInvInit DEF KeptInv
<1>1. \E p \in Providers : waf = ServedWAF(p)  BY DEF Init, WAFUntouched
<1>2. Itself(waf) /\ waf.live  BY <1>1 DEF ServedWAF, Itself
<1>3. (\A r \in Replicas : seen[r] = waf /\ spc[r] = "idle" /\ sq[r] = waf.live) /\ lpc = "idle"  BY DEF Init
<1>. QED  BY <1>2, <1>3 DEF OneWAF, StillWanted, BuildsIt, DropsGone, Kept

\* A change of leader never makes a replica with nothing left to do stop serving a
\* WAF that users leave alone, whatever fails and however its rules change.
THEOREM IdleServesAcrossFailover == ASSUME WAFUntouched PROVE Spec => []IdleServes
<1>1. KeptInv /\ SnapshotInv' /\ [Next]_vars => KeptInv'  BY KeptStep
<1>2. Init => KeptInv  BY KeptInit
<1>3. KeptInv => IdleServes  BY DEF KeptInv, Kept, Serves, Wanted, IdleServes, Idle
<1>. QED  BY <1>1, <1>2, <1>3, SnapshotInvHolds, PTL DEF Spec
=============================================================================
