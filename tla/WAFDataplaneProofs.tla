------------------------- MODULE WAFDataplaneProofs -------------------------
(***************************************************************************)
(* Proofs about the life of a WAF, for every set of replicas and providers *)
(* and every number of environment steps: the types, and FailClosed.       *)
(*                                                                         *)
(* DropLocal acts on what a cache said some steps ago, so it may take down *)
(* a later WAF of the same name.  That it takes nothing else down needs to *)
(* know where a snapshot comes from: from the replica's own cache          *)
(* (Traced), which does not go back in time (Cached), and whose news queue *)
(* the key (Dropping).                                                     *)
(***************************************************************************)
EXTENDS WAFDataplane, TLAPS

-----------------------------------------------------------------------------
(* Types.                                                                   *)

\* The next environment step has a stamp of its own.
LEMMA StampType == ASSUME TypeOK, edits > 0 PROVE Stamp \in Stamps /\ Stamp # 0
BY EditsAssumption DEF TypeOK, Stamp, Stamps

\* An environment step takes one off the bound and moves the stamp on.
LEMMA EditType == ASSUME TypeOK, NEW kind, Edit(kind) PROVE edits' \in 0..MaxEdits /\ Stamp' = Stamp + 1
BY EditsAssumption DEF Edit, TypeOK, Stamp

\* The absent objects have their types.
LEMMA NoWAFType == NoWAF \in WAF /\ NoConfig \in Config /\ NoObject \in RuleObject
BY EditsAssumption DEF NoWAF, WAF, NoConfig, Config, NoObject, RuleObject, Stamps, Condition, RefsCondition

\* Every write of a WAF gives a WAF again, and ConfigOf a configuration.
LEMMA WAFWrites ==
    ASSUME NEW o \in WAF
    PROVE  /\ \A g \in Stamps, p \in Providers : [o EXCEPT !.gen = g, !.prov = p, !.refs = "", !.ready = ""] \in WAF
           /\ \A g \in Stamps, p \in Providers : [o EXCEPT !.live = TRUE, !.uid = g, !.gen = g, !.prov = p] \in WAF
           /\ [o EXCEPT !.del = TRUE] \in WAF /\ [o EXCEPT !.fin = TRUE] \in WAF
           /\ (\A c \in RefsCondition : [o EXCEPT !.refs = c] \in WAF) /\ (\A c \in Condition : [o EXCEPT !.ready = c] \in WAF)
           /\ ConfigOf(o) \in Config
<1>1. /\ \A g \in Stamps, p \in Providers : [o EXCEPT !.gen = g, !.prov = p, !.refs = "", !.ready = ""] \in WAF
  BY DEF WAF, Condition, RefsCondition
<1>2. \A g \in Stamps, p \in Providers : [o EXCEPT !.live = TRUE, !.uid = g, !.gen = g, !.prov = p] \in WAF
  BY DEF WAF
<1>3. [o EXCEPT !.del = TRUE] \in WAF /\ [o EXCEPT !.fin = TRUE] \in WAF
  BY DEF WAF
<1>4. (\A c \in RefsCondition : [o EXCEPT !.refs = c] \in WAF) /\ (\A c \in Condition : [o EXCEPT !.ready = c] \in WAF)
  BY DEF WAF
<1>5. ConfigOf(o) \in Config
  <2>1. 0 \in Stamps  BY EditsAssumption DEF Stamps
  <2>. QED  BY <2>1 DEF WAF, ConfigOf, Config
<1>. QED  BY <1>1, <1>2, <1>3, <1>4, <1>5

\* Build fills in what the RuleSet and the SecRule contribute.
LEMMA ConfigWrites ==
    ASSUME NEW c \in Config, NEW g \in Stamps
    PROVE  [c EXCEPT !.rs = g] \in Config /\ [c EXCEPT !.rule = g] \in Config
BY DEF Config

\* The content of a RuleSet or a SecRule has a stamp.
LEMMA RuleGen == ASSUME NEW o \in RuleObject PROVE o.gen \in Stamps
BY DEF RuleObject

\* Every write of a RuleSet or a SecRule gives one again.
LEMMA RuleWrites ==
    ASSUME NEW o \in RuleObject, NEW g \in Stamps
    PROVE  /\ [o EXCEPT !.gen = g] \in RuleObject /\ [o EXCEPT !.del = TRUE] \in RuleObject
           /\ [o EXCEPT !.ref = TRUE] \in RuleObject /\ NewObject(g) \in RuleObject /\ o.gen \in Stamps
BY NoWAFType DEF RuleObject, NewObject

\* A write of the WAF leaves flags behind that say which copies are current.
LEMMA WriteType ==
    ASSUME NEW w, NEW own \in BOOLEAN, Write(w, own)
    PROVE  fresh' \in [Replicas -> BOOLEAN] /\ lfresh' \in BOOLEAN /\ waf' = w
BY DEF Write

\* Notify queues events of RuleSets and SecRules only.
LEMMA NotifyType ==
    ASSUME TypeOK, NEW kind \in RuleKinds, Notify(kind) PROVE pend' \in [Replicas -> SUBSET RuleKinds]
BY DEF TypeOK, Notify

\* Every step keeps the types.
LEMMA TypeStep == TypeOK /\ [Next]_vars => TypeOK'
<1>. SUFFICES ASSUME TypeOK, [Next]_vars PROVE TypeOK'
  OBVIOUS
<1>. USE EditsAssumption DEF api, informers, leading, syncing, memory
<1>1. ASSUME NEW p \in Providers, CreateWAF(p) PROVE TypeOK'
  <2>1. Stamp \in Stamps  BY <1>1, StampType DEF CreateWAF, Edit
  <2>2. waf' \in WAF  BY <1>1, <2>1, NoWAFType, WAFWrites DEF CreateWAF, Write
  <2>3. fresh' \in [Replicas -> BOOLEAN] /\ lfresh' \in BOOLEAN  BY <1>1, WriteType DEF CreateWAF
  <2>. QED  BY <1>1, <2>2, <2>3 DEF CreateWAF, Edit, TypeOK
<1>2. ASSUME NEW p \in Providers, EditWAF(p) PROVE TypeOK'
  <2>1. Stamp \in Stamps  BY <1>2, StampType DEF EditWAF, Edit
  <2>2. waf' \in WAF  BY <1>2, <2>1, NoWAFType, WAFWrites DEF EditWAF, Write, TypeOK
  <2>3. fresh' \in [Replicas -> BOOLEAN] /\ lfresh' \in BOOLEAN  BY <1>2, WriteType DEF EditWAF
  <2>. QED  BY <1>2, <2>2, <2>3 DEF EditWAF, Edit, TypeOK
<1>3. CASE DeleteWAF
  <2>2. waf' \in WAF  BY <1>3, NoWAFType, WAFWrites DEF DeleteWAF, Write, TypeOK
  <2>3. fresh' \in [Replicas -> BOOLEAN] /\ lfresh' \in BOOLEAN  BY <1>3, WriteType DEF DeleteWAF
  <2>. QED  BY <1>3, <2>2, <2>3 DEF DeleteWAF, Edit, TypeOK
<1>4. CASE ApplyRuleSet
  <2>1. rs' \in RuleObject  BY <1>4, StampType, RuleWrites DEF ApplyRuleSet, Edit, Apply, TypeOK
  <2>. QED  BY <1>4, <2>1, NotifyType DEF ApplyRuleSet, Edit, TypeOK, RuleKinds
<1>5. CASE ApplySecRule
  <2>1. rule' \in RuleObject  BY <1>5, StampType, RuleWrites DEF ApplySecRule, Edit, Apply, TypeOK
  <2>. QED  BY <1>5, <2>1, NotifyType DEF ApplySecRule, Edit, TypeOK, RuleKinds
<1>6. CASE DeleteRuleSet
  <2>1. rs' \in RuleObject  BY <1>6, StampType, RuleWrites DEF DeleteRuleSet, Edit, TypeOK
  <2>. QED  BY <1>6, <2>1, NotifyType DEF DeleteRuleSet, Edit, TypeOK, RuleKinds
<1>7. CASE DeleteSecRule
  <2>1. rule' \in RuleObject  BY <1>7, StampType, RuleWrites DEF DeleteSecRule, Edit, TypeOK
  <2>. QED  BY <1>7, <2>1, NotifyType DEF DeleteSecRule, Edit, TypeOK, RuleKinds
<1>8. CASE FinalizeRuleSet
  BY <1>8, NotifyType, NoWAFType DEF FinalizeRuleSet, TypeOK, RuleKinds
<1>9. CASE FinalizeSecRule
  BY <1>9, NotifyType, NoWAFType DEF FinalizeSecRule, TypeOK, RuleKinds
<1>10. ASSUME NEW r \in Replicas, SyncWAF(r) PROVE TypeOK'
  BY <1>10 DEF SyncWAF, TypeOK
<1>11. ASSUME NEW r \in Replicas, NEW kind \in RuleKinds, RuleEvent(r, kind) PROVE TypeOK'
  <2>1. seen[r].live \in BOOLEAN  BY DEF TypeOK, WAF
  <2>. QED  BY <1>11, <2>1 DEF RuleEvent, TypeOK
<1>12. ASSUME NEW p \in SlotProviders, CollectSlot(p) PROVE TypeOK'
  BY <1>12 DEF CollectSlot, TypeOK, Stamps
<1>13. CASE BeginDelete
  <2>1. ConfigOf(seen[leader]) \in Config  BY WAFWrites DEF TypeOK
  <2>. QED  BY <1>13, <2>1 DEF BeginDelete, TypeOK
<1>14. CASE AddFinalizer
  <2>1. waf' \in WAF  BY <1>14, WAFWrites DEF AddFinalizer, Write, TypeOK
  <2>2. fresh' \in [Replicas -> BOOLEAN] /\ lfresh' \in BOOLEAN  BY <1>14, WriteType DEF AddFinalizer
  <2>. QED  BY <1>14, <2>1, <2>2 DEF AddFinalizer, TypeOK
<1>15. ASSUME NEW m \in RefsCondition, NEW refs, NEW current \in BOOLEAN, SetReferencesResolved(m, refs, current)
       PROVE  /\ waf' \in WAF /\ fresh' \in [Replicas -> BOOLEAN] /\ lfresh' \in BOOLEAN
              /\ lpc' \in {"publish", "idle"} /\ lq' \in BOOLEAN
  <2>0. [waf EXCEPT !.refs = m] \in WAF  BY WAFWrites DEF TypeOK
  <2>1. waf' \in WAF  BY <1>15, <2>0 DEF SetReferencesResolved, Write, TypeOK
  <2>2. fresh' \in [Replicas -> BOOLEAN] /\ lfresh' \in BOOLEAN
    BY <1>15 DEF SetReferencesResolved, Write, TypeOK
  <2>3. lpc' \in {"publish", "idle"} /\ lq' \in BOOLEAN  BY <1>15 DEF SetReferencesResolved, TypeOK
  <2>. QED  BY <2>1, <2>2, <2>3
<1>16. ASSUME NEW o \in RuleObject, NEW locked, lockObject(o, locked)
       PROVE  locked \in RuleObject /\ edits' \in 0..MaxEdits
  <2>1. 0 \in Stamps  BY DEF Stamps
  <2>2. locked \in RuleObject  BY <1>16, <2>1, RuleWrites DEF lockObject
  <2>3. edits' \in 0..MaxEdits  BY <1>16 DEF lockObject, Edit, TypeOK
  <2>. QED  BY <2>2, <2>3
<1>17. CASE Begin
  <2>0. ConfigOf(seen[leader]) \in Config /\ rs.gen \in Stamps  BY WAFWrites, RuleGen DEF TypeOK
  <2>1. ASSUME Resolves(rs, TRUE), lockObject(rs, rs'), IF rs' # rs THEN Notify("RuleSet") ELSE UNCHANGED pend,
               lcfg' = [ConfigOf(seen[leader]) EXCEPT !.rs = rs.gen], lpc' = "secrule", lq' = FALSE,
               lfresh' = fresh[leader], lrefs' = seen[leader].refs, UNCHANGED <<waf, fresh>>
        PROVE  TypeOK'
    <3>1. rs' \in RuleObject /\ edits' \in 0..MaxEdits  BY <2>1, <1>16 DEF TypeOK
    <3>2. pend' \in [Replicas -> SUBSET RuleKinds]  BY <2>1, NotifyType DEF TypeOK, RuleKinds
    <3>3. lcfg' \in Config  BY <2>1, <2>0, ConfigWrites
    <3>4. lrefs' \in RefsCondition  BY <2>1 DEF TypeOK, WAF
    <3>. QED  BY <1>17, <2>1, <3>1, <3>2, <3>3, <3>4 DEF Begin, TypeOK
  <2>2. ASSUME NEW m \in RefsCondition, SetReferencesResolved(m, seen[leader].refs, fresh[leader]),
               UNCHANGED edits \/ Edit("fail"), UNCHANGED <<rs, pend, lcfg, lrefs>>
        PROVE  TypeOK'
    <3>1. edits' \in 0..MaxEdits  BY <2>2, EditType DEF TypeOK
    <3>2. fresh[leader] \in BOOLEAN  BY DEF TypeOK
    <3>3. /\ waf' \in WAF /\ fresh' \in [Replicas -> BOOLEAN] /\ lfresh' \in BOOLEAN
          /\ lpc' \in {"publish", "idle"} /\ lq' \in BOOLEAN
      BY <2>2, <3>2, <1>15
    <3>. QED  BY <1>17, <2>2, <3>1, <3>3 DEF Begin, TypeOK
  <2>. QED  BY <1>17, <2>1, <2>2 DEF Begin, ReferenceError
<1>18. CASE ReadSecRule
  <2>1. PICK m \in RefsCondition : SetReferencesResolved(m, lrefs, lfresh)
    BY <1>18 DEF ReadSecRule, RefsCondition
  <2>2. /\ waf' \in WAF /\ fresh' \in [Replicas -> BOOLEAN] /\ lfresh' \in BOOLEAN
        /\ lpc' \in {"publish", "idle"} /\ lq' \in BOOLEAN
    BY <2>1, <1>15 DEF TypeOK
  <2>3. rule' \in RuleObject /\ edits' \in 0..MaxEdits
    BY <1>18, <1>16, EditType DEF ReadSecRule, ReferenceError, TypeOK
  <2>4. pend' \in [Replicas -> SUBSET RuleKinds]  BY <1>18, NotifyType DEF ReadSecRule, TypeOK, RuleKinds
  <2>5. lcfg' \in Config
    <3>1. lcfg \in Config /\ rule.gen \in Stamps  BY RuleGen DEF TypeOK
    <3>2. lcfg' \in {NoConfig, [lcfg EXCEPT !.rule = rule.gen]}  BY <1>18 DEF ReadSecRule
    <3>. QED  BY <3>1, <3>2, NoWAFType, ConfigWrites
  <2>6. lrefs' = "" /\ UNCHANGED <<rs, slots, seen, leader, syncing, memory>>  BY <1>18 DEF ReadSecRule
  <2>. QED  BY <2>2, <2>3, <2>4, <2>5, <2>6 DEF TypeOK, RefsCondition
<1>19. CASE LeaderPublish
  BY <1>19 DEF LeaderPublish, Publish, Goto, TypeOK
<1>20. DeleteOthers \in [SlotProviders -> Stamps] /\ Ensure \in [SlotProviders -> Stamps]
  <2>1. lcfg.uid \in Stamps  BY DEF TypeOK, Config
  <2>2. DeleteOthers \in [SlotProviders -> Stamps]  BY DEF DeleteOthers, TypeOK, Stamps
  <2>3. Ensure \in [SlotProviders -> Stamps]  BY <2>1, <2>2 DEF Ensure
  <2>. QED  BY <2>2, <2>3
<1>21. CASE EnsureDesired
  BY <1>21, <1>20, NoWAFType DEF EnsureDesired, Goto, TypeOK
<1>22. ASSUME NEW again \in BOOLEAN, Done(again)
       PROVE  lpc' = "idle" /\ lrefs' \in RefsCondition /\ lcfg' \in Config /\ lq' \in BOOLEAN
  BY <1>22, NoWAFType DEF Done, RefsCondition, TypeOK
<1>23. CASE WriteStatus
  <2>1. seen[leader].live \in BOOLEAN /\ fresh[leader] \in BOOLEAN  BY DEF TypeOK, WAF
  <2>2. lpc' = "idle" /\ lrefs' \in RefsCondition /\ lcfg' \in Config /\ lq' \in BOOLEAN
    BY <1>23, <2>1, <1>22 DEF WriteStatus
  <2>3. waf' \in WAF  BY <1>23, WAFWrites DEF WriteStatus, Write, NoWrite, TypeOK, Condition
  <2>4. fresh' \in [Replicas -> BOOLEAN] /\ lfresh' \in BOOLEAN
    BY <1>23 DEF WriteStatus, Write, NoWrite, TypeOK
  <2>5. UNCHANGED <<rs, rule, slots, seen, pend, leader, syncing, memory, edits>>  BY <1>23 DEF WriteStatus
  <2>. QED  BY <2>2, <2>3, <2>4, <2>5 DEF TypeOK
<1>24. CASE markNotReady
  <2>2. lpc' = "idle" /\ lrefs' \in RefsCondition /\ lcfg' \in Config /\ lq' \in BOOLEAN
    BY <1>24, <1>22 DEF markNotReady
  <2>3. waf' \in WAF  BY <1>24, WAFWrites DEF markNotReady, Write, NoWrite, TypeOK, Condition
  <2>4. fresh' \in [Replicas -> BOOLEAN] /\ lfresh' \in BOOLEAN
    BY <1>24 DEF markNotReady, Write, NoWrite, TypeOK
  <2>5. slots' \in [SlotProviders -> Stamps]  BY <1>24, <1>20 DEF markNotReady, TypeOK
  <2>6. eg' \in [Replicas -> Config]  BY <1>24, NoWAFType DEF markNotReady, TypeOK
  <2>7. edits' \in 0..MaxEdits  BY <1>24 DEF markNotReady, Edit, TypeOK
  <2>8. UNCHANGED <<rs, rule, seen, pend, leader, syncing, ecds>>  BY <1>24 DEF markNotReady
  <2>. QED  BY <2>2, <2>3, <2>4, <2>5, <2>6, <2>7, <2>8 DEF TypeOK
<1>25. CASE DeleteSlots
  <2>1. lpc' \in {"idle", "unfinalize"} /\ lrefs' \in RefsCondition /\ lcfg' \in Config /\ lq' \in BOOLEAN /\ lfresh' \in BOOLEAN
    <3>1. CASE Goto("unfinalize") /\ UNCHANGED lfresh  BY <3>1 DEF Goto, TypeOK
    <3>2. CASE Done(TRUE) /\ lfresh' = FALSE  BY <3>2, <1>22
    <3>. QED  BY <1>25, <3>1, <3>2 DEF DeleteSlots
  <2>2. slots' \in [SlotProviders -> Stamps]
    <3>1. 0 \in Stamps  BY DEF Stamps
    <3>. QED  BY <1>25, <3>1 DEF DeleteSlots, TypeOK
  <2>5. edits' \in 0..MaxEdits  BY <1>25, EditType DEF DeleteSlots, TypeOK
  <2>3. ecds' \in [Replicas -> Config] /\ eg' \in [Replicas -> Config]
    BY <1>25, NoWAFType DEF DeleteSlots, DropLocal, TypeOK
  <2>4. UNCHANGED <<waf, rs, rule, informers, leader, syncing>>  BY <1>25 DEF DeleteSlots
  <2>. QED  BY <2>1, <2>2, <2>3, <2>4, <2>5 DEF TypeOK
<1>26. CASE RemoveFinalizer
  <2>1. lpc' = "idle" /\ lrefs' \in RefsCondition /\ lcfg' \in Config /\ lq' \in BOOLEAN
    BY <1>26, <1>22 DEF RemoveFinalizer, TypeOK
  <2>2. waf' \in WAF /\ fresh' \in [Replicas -> BOOLEAN] /\ lfresh' \in BOOLEAN
    BY <1>26, NoWAFType DEF RemoveFinalizer, Write, NoWrite, TypeOK
  <2>. QED  BY <1>26, <2>1, <2>2 DEF RemoveFinalizer, TypeOK
<1>27. ASSUME NEW r \in Replicas, NEW again \in BOOLEAN, SyncDone(r, again)
       PROVE  /\ spc' \in [Replicas -> {"idle", "secrule", "publish", "drop"}]
              /\ scfg' \in [Replicas -> Config] /\ sq' \in [Replicas -> BOOLEAN]
  BY <1>27, NoWAFType DEF SyncDone, TypeOK
<1>28. ASSUME NEW r \in Replicas, SyncDelete(r) PROVE TypeOK'
  BY <1>28 DEF SyncDelete, TypeOK
<1>29. ASSUME NEW r \in Replicas, SyncBegin(r) PROVE TypeOK'
  <2>0. ConfigOf(seen[r]) \in Config /\ rs.gen \in Stamps  BY WAFWrites, RuleGen DEF TypeOK
  <2>1. [ConfigOf(seen[r]) EXCEPT !.rs = rs.gen] \in Config  BY <2>0, ConfigWrites
  <2>2. scfg' \in [Replicas -> Config]  BY <1>29, <2>1 DEF SyncBegin, TypeOK
  <2>3. spc' \in [Replicas -> {"idle", "secrule", "publish", "drop"}]  BY <1>29 DEF SyncBegin, TypeOK
  <2>4. sq' \in [Replicas -> BOOLEAN]  BY <1>29 DEF SyncBegin, TypeOK
  <2>. QED  BY <1>29, <2>2, <2>3, <2>4 DEF SyncBegin, TypeOK
<1>30. ASSUME NEW r \in Replicas, SyncReadSecRule(r) PROVE TypeOK'
  <2>1. CASE Resolves(rule, FALSE)
    <3>0. scfg[r] \in Config /\ rule.gen \in Stamps  BY RuleGen DEF TypeOK
    <3>1. [scfg[r] EXCEPT !.rule = rule.gen] \in Config  BY <3>0, ConfigWrites
    <3>2. scfg' \in [Replicas -> Config]  BY <1>30, <2>1, <3>1 DEF SyncReadSecRule, TypeOK
    <3>3. spc' \in [Replicas -> {"idle", "secrule", "publish", "drop"}]
      BY <1>30, <2>1 DEF SyncReadSecRule, TypeOK
    <3>. QED  BY <1>30, <2>1, <3>2, <3>3 DEF SyncReadSecRule, TypeOK
  <2>2. CASE ~Resolves(rule, FALSE)
    BY <1>30, <2>2, <1>27 DEF SyncReadSecRule, TypeOK
  <2>. QED  BY <2>1, <2>2
<1>31. ASSUME NEW r \in Replicas, SyncPublish(r) PROVE TypeOK'
  <2>1. ecds' \in [Replicas -> Config] /\ eg' \in [Replicas -> Config]
    BY <1>31 DEF SyncPublish, Publish, TypeOK
  <2>. QED  BY <1>31, <1>27, <2>1 DEF SyncPublish, TypeOK
<1>32. ASSUME NEW r \in Replicas, SyncFail(r) PROVE TypeOK'
  <2>1. /\ spc' \in [Replicas -> {"idle", "secrule", "publish", "drop"}]
        /\ scfg' \in [Replicas -> Config] /\ sq' \in [Replicas -> BOOLEAN]
    BY <1>32, <1>27 DEF SyncFail
  <2>2. edits' \in 0..MaxEdits  BY <1>32 DEF SyncFail, Edit, TypeOK
  <2>. QED  BY <1>32, <2>1, <2>2 DEF SyncFail, TypeOK
<1>33. ASSUME NEW r \in Replicas, SyncDrop(r) PROVE TypeOK'
  <2>1. ecds' \in [Replicas -> Config] /\ eg' \in [Replicas -> Config]
    BY <1>33, NoWAFType DEF SyncDrop, DropLocal, TypeOK
  <2>. QED  BY <1>33, <1>27, <2>1 DEF SyncDrop, TypeOK
<1>34. ASSUME NEW n \in Replicas, Failover(n) PROVE TypeOK'
  <2>1. lq' \in BOOLEAN /\ waf.live \in BOOLEAN  BY <1>34 DEF Failover, TypeOK, WAF
  <2>2. seen' \in [Replicas -> WAF] /\ fresh' \in [Replicas -> BOOLEAN] /\ pend' \in [Replicas -> SUBSET RuleKinds]
    BY <1>34 DEF Failover, TypeOK
  <2>3. sq' \in [Replicas -> BOOLEAN] /\ spc' \in [Replicas -> {"idle", "secrule", "publish", "drop"}]
    BY <1>34, <2>1 DEF Failover, TypeOK
  <2>4. scfg' \in [Replicas -> Config] /\ ecds' \in [Replicas -> Config] /\ eg' \in [Replicas -> Config]
    BY <1>34, NoWAFType DEF Failover, TypeOK
  <2>5. lcfg' \in Config /\ lrefs' \in RefsCondition /\ lfresh' = FALSE /\ lpc' = "idle" /\ leader' = n /\ UNCHANGED api
    BY <1>34, NoWAFType DEF Failover, RefsCondition
  <2>6. edits' \in 0..MaxEdits  BY <1>34, EditType DEF Failover
  <2>. QED  BY <2>1, <2>2, <2>3, <2>4, <2>5, <2>6 DEF TypeOK
<1>35. CASE UNCHANGED vars
  BY <1>35 DEF vars, TypeOK
<1>. QED
  BY <1>1, <1>2, <1>3, <1>4, <1>5, <1>6, <1>7, <1>8, <1>9, <1>10, <1>11, <1>12, <1>13, <1>14, <1>17, <1>18,
     <1>19, <1>21, <1>23, <1>24, <1>25, <1>26, <1>28, <1>29, <1>30, <1>31, <1>32, <1>33, <1>34, <1>35
     DEF Next, Users, Cluster, Lead, Sync

\* The operator starts with variables of their types.
LEMMA TypeInit == Init => TypeOK
<1>. SUFFICES ASSUME Init PROVE TypeOK
  OBVIOUS
<1>1. 0 \in Stamps /\ 1 \in Stamps  BY EditsAssumption DEF Stamps
<1>2. \A p \in Providers : ServedWAF(p) \in WAF  BY <1>1 DEF ServedWAF, WAF, Condition, RefsCondition
<1>3. NewObject(1) \in RuleObject  BY <1>1, NoWAFType, RuleWrites
<1>4. waf \in WAF /\ rs \in RuleObject /\ rule \in RuleObject  BY <1>2, <1>3, NoWAFType DEF Init
<1>5. waf.live \in BOOLEAN /\ waf.uid \in Stamps  BY <1>4 DEF WAF
<1>6. slots \in [SlotProviders -> Stamps]  BY <1>1, <1>5 DEF Init
<1>7. /\ seen \in [Replicas -> WAF] /\ fresh \in [Replicas -> BOOLEAN] /\ pend \in [Replicas -> SUBSET RuleKinds]
      /\ sq \in [Replicas -> BOOLEAN] /\ spc \in [Replicas -> {"idle", "secrule", "publish", "drop"}]
  BY <1>4, <1>5 DEF Init
<1>8. /\ scfg \in [Replicas -> Config] /\ ecds \in [Replicas -> Config] /\ eg \in [Replicas -> Config]
      /\ lcfg \in Config /\ lrefs \in RefsCondition
  BY NoWAFType DEF Init, RefsCondition
<1>9. leader \in Replicas /\ lq \in BOOLEAN /\ lpc = "idle" /\ lfresh = FALSE
  BY <1>5 DEF Init
<1>10. edits \in 0..MaxEdits
  <2>1. edits = MaxEdits  BY DEF Init
  <2>. QED  BY <2>1, EditsAssumption
<1>. QED  BY <1>4, <1>6, <1>7, <1>8, <1>9, <1>10 DEF TypeOK

\* Every variable of WAFDataplane has its type, for any replicas, providers and edits.
THEOREM TypeCorrect == Spec => []TypeOK
BY TypeInit, TypeStep, PTL DEF Spec

-----------------------------------------------------------------------------
(* Snapshots.                                                               *)

\* A WAF, or a cached copy of one, has a uid exactly when it exists.
Identified(o) == IF o.live THEN o.uid # 0 ELSE o = NoWAF

\* A uid is never used again: all there are lie below the next one.
Older ==
    /\ waf.uid < Stamp /\ lcfg.uid < Stamp
    /\ \A r \in Replicas : seen[r].uid < Stamp /\ scfg[r].uid < Stamp /\ ecds[r].uid < Stamp

\* A cache that has no event to come holds the WAF as it is, and one that has seen
\* the WAF terminating is not taken back: the WAF still terminates.
Cached ==
    /\ Identified(waf) /\ (lfresh => waf.live)
    /\ \A r \in Replicas :
          /\ Identified(seen[r])
          /\ fresh[r] => seen[r] = waf
          /\ waf.live /\ seen[r].uid = waf.uid /\ seen[r].del => waf.del

\* What a replica serves or builds of the WAF came out of its own cache.
Traced ==
    \A r \in Replicas :
       waf.live /\ (\/ ecds[r].uid = waf.uid \/ scfg[r].uid = waf.uid
                    \/ r = leader /\ lcfg.uid = waf.uid)
          => seen[r].uid = waf.uid

\* A build that goes on has what it read so far.
Resolved ==
    /\ rs.live => rs.gen # 0
    /\ rule.live => rule.gen # 0
    /\ lpc \in {"secrule", "publish"} => lcfg.rs # 0
    /\ lpc = "publish" => lcfg.rule # 0
    /\ \A r \in Replicas : /\ spc[r] \in {"secrule", "publish"} => scfg[r].rs # 0
                           /\ spc[r] = "publish" => scfg[r].rule # 0

Wanted(o) == o.live /\ ~o.del

\* A worker about to drop the WAF has it terminating or gone in its cache, unless an
\* event came meanwhile, which queued the key.
Dropping ==
    /\ lpc = "drop" => lq \/ ~Wanted(seen[leader])
    /\ \A r \in Replicas : spc[r] = "drop" => sq[r] \/ ~Wanted(seen[r])

SnapshotInv == TypeOK /\ Older /\ Cached /\ Traced /\ Resolved /\ Dropping

\* A WAF that is absent, and a configuration that is, have no uid.
LEMMA NoFields == NoWAF.uid = 0 /\ ~NoWAF.live /\ NoConfig.uid = 0
BY DEF NoWAF, NoConfig

\* uids are integers, and so is the counter they come from.
LEMMA Uids ==
    ASSUME TypeOK
    PROVE  /\ Stamp \in Int /\ waf.uid \in Int /\ lcfg.uid \in Int /\ waf \in WAF
           /\ \A r \in Replicas : seen[r] \in WAF /\ seen[r].uid \in Int /\ scfg[r].uid \in Int /\ ecds[r].uid \in Int
           /\ leader \in Replicas
<1>1. Stamps \subseteq Int  BY EditsAssumption DEF Stamps
<1>2. waf.uid \in Int /\ lcfg.uid \in Int /\ waf \in WAF /\ leader \in Replicas  BY <1>1 DEF TypeOK, WAF, Config
<1>3. \A r \in Replicas : seen[r] \in WAF /\ seen[r].uid \in Int  BY <1>1 DEF TypeOK, WAF
<1>4. \A r \in Replicas : scfg[r].uid \in Int /\ ecds[r].uid \in Int  BY <1>1 DEF TypeOK, Config
<1>5. Stamp \in Int  BY EditsAssumption DEF TypeOK, Stamp
<1>. QED  BY <1>2, <1>3, <1>4, <1>5

\* Every step of users, cluster, leader and sync controllers keeps the invariant.
LEMMA SnapshotInvStep == SnapshotInv /\ TypeOK' /\ [Next]_vars => SnapshotInv'
<1>. SUFFICES ASSUME SnapshotInv, TypeOK', [Next]_vars PROVE (Older /\ Cached /\ Traced /\ Resolved /\ Dropping)'
  BY DEF SnapshotInv
<1>. DEFINE Goal == Older /\ Cached /\ Traced /\ Resolved /\ Dropping
<1>0. TypeOK /\ Older /\ Cached /\ Traced /\ Resolved /\ Dropping  BY DEF SnapshotInv
<1>t. /\ Stamp \in Int /\ waf.uid \in Int /\ lcfg.uid \in Int /\ waf \in WAF
      /\ \A r \in Replicas : seen[r] \in WAF /\ seen[r].uid \in Int /\ scfg[r].uid \in Int /\ ecds[r].uid \in Int
      /\ leader \in Replicas
  BY <1>0, Uids
<1>f. seen \in [Replicas -> WAF] /\ fresh \in [Replicas -> BOOLEAN] /\ scfg \in [Replicas -> Config] /\ ecds \in [Replicas -> Config]
      /\ sq \in [Replicas -> BOOLEAN] /\ spc \in [Replicas -> {"idle", "secrule", "publish", "drop"}] /\ lcfg \in Config
  BY <1>0 DEF TypeOK
<1>. USE DEF api, informers, leading, syncing, memory
<1>o. ASSUME UNCHANGED edits \/ Stamp' = Stamp + 1, waf'.uid \in {waf.uid, 0}, lcfg'.uid \in {lcfg.uid, 0, seen[leader].uid},
             \A r \in Replicas : /\ seen'[r].uid \in {seen[r].uid, waf.uid}
                                 /\ scfg'[r].uid \in {scfg[r].uid, 0, seen[r].uid}
                                 /\ ecds'[r].uid \in {ecds[r].uid, 0, scfg[r].uid, lcfg.uid}
      PROVE  Older'
  <2>1. Stamp' >= Stamp /\ Stamp' \in Int /\ Stamp > 0
    <3>1. Stamp \in Int /\ Stamp > 0  BY <1>0, EditsAssumption DEF TypeOK, Stamp
    <3>2. UNCHANGED edits => Stamp' = Stamp  BY DEF Stamp
    <3>. QED  BY <3>1, <3>2, <1>o
  <2>. QED  BY <2>1, <1>o, <1>0, <1>t DEF Older
<1>c. ASSUME seen' = seen, \A r \in Replicas : ~fresh'[r], lfresh' => waf'.live,
             waf' = NoWAF \/ (waf.live /\ waf'.live /\ waf'.uid = waf.uid /\ (waf.del => waf'.del))
      PROVE  Cached'
  <2>1. Identified(waf')  BY <1>c, <1>0, NoFields DEF Cached, Identified
  <2>2. \A r \in Replicas : waf'.live /\ seen'[r].uid = waf'.uid /\ seen'[r].del => waf'.del
    BY <1>c, <1>0, NoFields DEF Cached
  <2>. QED  BY <1>c, <1>0, <2>1, <2>2 DEF Cached, Identified
<1>r. ASSUME waf' = NoWAF \/ waf' = waf \/ (waf.live /\ waf'.uid = waf.uid), seen' = seen, leader' = leader,
             ecds' = ecds, scfg' = scfg, lcfg' = lcfg \/ lcfg'.uid = 0 \/ lcfg'.uid = seen[leader].uid
      PROVE  Traced'
  <2>1. waf'.live => waf.live /\ waf'.uid = waf.uid  BY <1>r, NoFields
  <2>2. waf.live => waf.uid # 0  BY <1>0 DEF Cached, Identified
  <2>. QED  BY <1>r, <1>0, <1>t, <2>1, <2>2 DEF Traced
<1>s. ASSUME NEW m \in RefsCondition, NEW refs, NEW current \in BOOLEAN, SetReferencesResolved(m, refs, current), current => waf.live
      PROVE  \/ waf' = waf /\ fresh' = fresh /\ (lfresh' => waf.live)
             \/ waf.live /\ waf'.live /\ waf'.uid = waf.uid /\ (waf.del => waf'.del) /\ (\A r \in Replicas : ~fresh'[r])
  <2>1. CASE UNCHANGED <<waf, fresh>> /\ (lfresh' => current)  BY <2>1, <1>s
  <2>2. ASSUME NEW status, NEW own, current, Write([waf EXCEPT !.refs = status], own)
        PROVE  waf.live /\ waf'.live /\ waf'.uid = waf.uid /\ (waf.del => waf'.del) /\ (\A r \in Replicas : ~fresh'[r])
    BY <2>2, <1>s, <1>t DEF Write, WAF
  <2>. QED  BY <2>1, <2>2, <1>s DEF SetReferencesResolved
<1>1. ASSUME NEW p \in Providers, CreateWAF(p) PROVE Goal'
  <2>0. Stamp # 0 /\ Stamp' = Stamp + 1  BY <1>0, <1>1, StampType, EditType DEF CreateWAF, Edit
  <2>a. /\ waf'.live /\ waf'.uid = Stamp /\ ~waf.live /\ ~lfresh' /\ \A r \in Replicas : ~fresh'[r]
        /\ UNCHANGED <<seen, leader, lcfg, ecds, scfg>>
    BY <1>1, NoWAFType DEF CreateWAF, Write, WAF
  <2>1. (Resolved /\ Dropping)'  BY <1>0, <1>1 DEF CreateWAF, Resolved, Dropping, Wanted
  <2>2. Older'  BY <2>0, <2>a, <1>0, <1>t DEF Older
  <2>3. Cached'  BY <2>0, <2>a, <1>0, <1>t DEF Cached, Identified, Older
  <2>4. Traced'  BY <2>0, <2>a, <1>0, <1>t DEF Traced, Older
  <2>. QED  BY <2>1, <2>2, <2>3, <2>4
<1>2. ASSUME NEW p \in Providers, EditWAF(p) PROVE Goal'
  <2>0. Stamp' = Stamp + 1  BY <1>0, <1>2, EditType DEF EditWAF
  <2>a. /\ waf.live /\ waf'.live /\ waf'.uid = waf.uid /\ waf.del = waf'.del /\ ~lfresh' /\ \A r \in Replicas : ~fresh'[r]
        /\ UNCHANGED <<seen, leader, lcfg, ecds, scfg>>
    BY <1>2, <1>t DEF EditWAF, Write, WAF
  <2>1. (Resolved /\ Dropping)'  BY <1>0, <1>2 DEF EditWAF, Resolved, Dropping, Wanted
  <2>2. Older'  BY <2>a, <2>0, <1>o, <1>0 DEF Identified, Cached, NoWAF
  <2>3. Cached'  BY <2>a, <1>c
  <2>4. Traced'  BY <2>a, <1>r
  <2>. QED  BY <2>1, <2>2, <2>3, <2>4
<1>3. CASE DeleteWAF
  <2>0. Stamp' = Stamp + 1  BY <1>0, <1>3, EditType DEF DeleteWAF
  <2>a. /\ waf' = NoWAF \/ (waf.live /\ waf'.live /\ waf'.uid = waf.uid /\ (waf.del => waf'.del))
        /\ ~lfresh' /\ (\A r \in Replicas : ~fresh'[r]) /\ UNCHANGED <<seen, leader, lcfg, ecds, scfg>>
    BY <1>3, <1>t DEF DeleteWAF, Write, WAF
  <2>1. (Resolved /\ Dropping)'  BY <1>0, <1>3 DEF DeleteWAF, Resolved, Dropping, Wanted
  <2>2. Older'  BY <2>a, <2>0, <1>o, NoFields
  <2>3. Cached'  BY <2>a, <1>c
  <2>4. Traced'  BY <2>a, <1>r
  <2>. QED  BY <2>1, <2>2, <2>3, <2>4
<1>4. CASE ApplyRuleSet
  <2>1. (Cached /\ Traced /\ Dropping)'
    BY <1>0, <1>4 DEF ApplyRuleSet, Cached, Identified, Traced, Dropping, Wanted
  <2>2. Older'
    BY <1>0, <1>t, <1>f, <1>4, EditType DEF ApplyRuleSet, Edit, Apply, NewObject, Older, ConfigOf, NoConfig,
        NoWAF
  <2>3. Resolved'
    <3>1. rs'.gen # 0
      BY <1>0, <1>4, StampType DEF ApplyRuleSet, Apply, NewObject, Edit, NoObject, TypeOK, RuleObject
    <3>. QED  BY <1>0, <1>4, <3>1 DEF ApplyRuleSet, Resolved
  <2>. QED  BY <2>1, <2>2, <2>3
<1>5. CASE ApplySecRule
  <2>1. (Cached /\ Traced /\ Dropping)'
    BY <1>0, <1>5 DEF ApplySecRule, Cached, Identified, Traced, Dropping, Wanted
  <2>2. Older'
    BY <1>0, <1>t, <1>f, <1>5, EditType DEF ApplySecRule, Edit, Apply, NewObject, Older, ConfigOf, NoConfig,
        NoWAF
  <2>3. Resolved'
    <3>1. rule'.gen # 0
      BY <1>0, <1>5, StampType DEF ApplySecRule, Apply, NewObject, Edit, NoObject, TypeOK, RuleObject
    <3>. QED  BY <1>0, <1>5, <3>1 DEF ApplySecRule, Resolved
  <2>. QED  BY <2>1, <2>2, <2>3
<1>6. CASE DeleteRuleSet
  <2>1. (Cached /\ Traced /\ Dropping)'
    BY <1>0, <1>6 DEF DeleteRuleSet, Cached, Identified, Traced, Dropping, Wanted
  <2>2. Older'  BY <1>0, <1>t, <1>f, <1>6, EditType DEF DeleteRuleSet, Edit, Older, ConfigOf, NoConfig, NoWAF
  <2>3. Resolved'  BY <1>0, <1>f, <1>6 DEF DeleteRuleSet, Edit, Resolved, ConfigOf, NoConfig, NoObject
  <2>. QED  BY <2>1, <2>2, <2>3
<1>7. CASE DeleteSecRule
  <2>1. (Cached /\ Traced /\ Dropping)'
    BY <1>0, <1>7 DEF DeleteSecRule, Cached, Identified, Traced, Dropping, Wanted
  <2>2. Older'  BY <1>0, <1>t, <1>f, <1>7, EditType DEF DeleteSecRule, Edit, Older, ConfigOf, NoConfig, NoWAF
  <2>3. Resolved'  BY <1>0, <1>f, <1>7 DEF DeleteSecRule, Edit, Resolved, ConfigOf, NoConfig, NoObject
  <2>. QED  BY <2>1, <2>2, <2>3
<1>8. CASE FinalizeRuleSet
  <2>1. (Older /\ Cached /\ Traced /\ Dropping)'
    BY <1>0, <1>8 DEF FinalizeRuleSet, Older, Stamp, Cached, Identified, Traced, Dropping, Wanted
  <2>2. Resolved'  BY <1>0, <1>f, <1>8 DEF FinalizeRuleSet, Resolved, ConfigOf, NoConfig, NoObject
  <2>. QED  BY <2>1, <2>2
<1>9. CASE FinalizeSecRule
  <2>1. (Older /\ Cached /\ Traced /\ Dropping)'
    BY <1>0, <1>9 DEF FinalizeSecRule, Older, Stamp, Cached, Identified, Traced, Dropping, Wanted
  <2>2. Resolved'  BY <1>0, <1>f, <1>9 DEF FinalizeSecRule, Resolved, ConfigOf, NoConfig, NoObject
  <2>. QED  BY <2>1, <2>2
<1>10. ASSUME NEW r \in Replicas, SyncWAF(r) PROVE Goal'
  <2>1. Resolved'  BY <1>0, <1>10 DEF SyncWAF, Resolved
  <2>2. Older'  BY <1>0, <1>t, <1>f, <1>10 DEF SyncWAF, Older, ConfigOf, NoConfig, NoWAF, Stamp
  <2>3. Cached'  BY <1>0, <1>t, <1>f, <1>10 DEF SyncWAF, Cached, Identified, NoWAF, Older
  <2>4. Traced'
    BY <1>0, <1>t, <1>f, <1>10 DEF SyncWAF, Traced, Cached, Identified, Older, ConfigOf, NoConfig, NoWAF
  <2>5. Dropping'  BY <1>0, <1>t, <1>f, <1>10 DEF SyncWAF, Dropping, Wanted
  <2>. QED  BY <2>1, <2>2, <2>3, <2>4, <2>5
<1>11. ASSUME NEW r \in Replicas, NEW kind \in RuleKinds, RuleEvent(r, kind) PROVE Goal'
  <2>1. (Older /\ Cached /\ Traced /\ Resolved)'
    BY <1>0, <1>11 DEF RuleEvent, Older, Stamp, Cached, Identified, Traced, Resolved
  <2>2. Dropping'  BY <1>0, <1>t, <1>f, <1>11 DEF RuleEvent, Dropping, Wanted
  <2>. QED  BY <2>1, <2>2
<1>12. ASSUME NEW p \in SlotProviders, CollectSlot(p) PROVE Goal'
  BY <1>0, <1>12 DEF CollectSlot, Older, Stamp, Cached, Identified, Traced, Resolved, Dropping, Wanted
<1>13. CASE BeginDelete
  <2>1. Older'  BY <1>0, <1>t, <1>f, <1>13 DEF BeginDelete, Older, ConfigOf, NoConfig, NoWAF, Stamp
  <2>2. Cached'  BY <1>0, <1>t, <1>f, <1>13 DEF BeginDelete, Cached, Identified, NoWAF, Older
  <2>3. Traced'
    BY <1>0, <1>t, <1>f, <1>13 DEF BeginDelete, Traced, Cached, Identified, Older, ConfigOf, NoConfig, NoWAF
  <2>4. Resolved'  BY <1>0, <1>f, <1>13 DEF BeginDelete, Resolved, ConfigOf, NoConfig, NoObject
  <2>5. Dropping'  BY <1>0, <1>t, <1>f, <1>13 DEF BeginDelete, Dropping, Wanted
  <2>. QED  BY <2>1, <2>2, <2>3, <2>4, <2>5
<1>14. CASE AddFinalizer
  <2>a. /\ waf.live /\ waf'.live /\ waf'.uid = waf.uid /\ waf.del = waf'.del /\ ~lfresh' /\ \A r \in Replicas : ~fresh'[r]
        /\ UNCHANGED <<seen, leader, lcfg, ecds, scfg, edits>>
    <3>1. seen[leader] = waf  BY <1>14, <1>0, <1>t DEF AddFinalizer, Cached
    <3>. QED  BY <1>14, <1>t, <3>1 DEF AddFinalizer, Write, WAF
  <2>1. (Resolved /\ Dropping)'  BY <1>0, <1>14 DEF AddFinalizer, Resolved, Dropping, Wanted
  <2>2. Older'  BY <2>a, <1>o
  <2>3. Cached'  BY <2>a, <1>c
  <2>4. Traced'  BY <2>a, <1>r
  <2>. QED  BY <2>1, <2>2, <2>3, <2>4
<1>15. CASE Begin
  <2>0. UNCHANGED edits \/ Stamp' = Stamp + 1  BY <1>15, <1>0, EditType DEF Begin, lockObject, ReferenceError
  <2>a. UNCHANGED <<seen, leader, ecds, scfg, spc, sq, rule>> /\ seen[leader].live  BY <1>15 DEF Begin
  <2>b. lcfg' = lcfg \/ lcfg'.uid = seen[leader].uid  BY <1>15 DEF Begin, ConfigOf
  <2>c. fresh[leader] => waf.live  BY <2>a, <1>0, <1>t DEF Cached
  <2>d. /\ \/ waf' = waf /\ fresh' = fresh
           \/ waf.live /\ waf'.live /\ waf'.uid = waf.uid /\ (waf.del => waf'.del) /\ (\A r \in Replicas : ~fresh'[r])
        /\ lfresh' => waf'.live
    <3>1. CASE UNCHANGED <<waf, fresh>> /\ lfresh' = fresh[leader]  BY <2>c, <3>1
    <3>2. ASSUME NEW m \in RefsCondition, SetReferencesResolved(m, seen[leader].refs, fresh[leader])
          PROVE  <2>d!1 /\ <2>d!2
      BY <3>2, <2>c, <1>f, <1>t, <1>s
    <3>. QED  BY <1>15, <3>1, <3>2 DEF Begin
  <2>1. Older'  BY <2>0, <2>a, <2>b, <2>d, <1>o
  <2>2. Cached'
    <3>1. CASE UNCHANGED <<waf, fresh>>  BY <1>0, <2>a, <2>d, <3>1 DEF Cached, Identified
    <3>. QED  BY <2>a, <2>d, <3>1, <1>c
  <2>3. Traced'  BY <2>a, <2>b, <2>d, <1>r
  <2>4. Resolved'
    <3>1. rs'.live => rs'.gen # 0
      BY <1>15, <1>0 DEF Begin, lockObject, Resolved, TypeOK, RuleObject
    <3>2. lpc' = "secrule" => lcfg'.rs # 0
      <4>1. CASE lcfg' = [ConfigOf(seen[leader]) EXCEPT !.rs = rs.gen] /\ rs.gen # 0
        BY <4>1 DEF ConfigOf
      <4>. QED  BY <1>15, <1>0, <4>1 DEF Begin, SetReferencesResolved, Resolves, Resolved
    <3>3. lpc' # "publish"  BY <1>15 DEF Begin, SetReferencesResolved
    <3>. QED  BY <1>0, <2>a, <3>1, <3>2, <3>3 DEF Resolved
  <2>5. Dropping'
    BY <1>0, <1>t, <1>f, <1>15 DEF Begin, SetReferencesResolved, Write, lockObject, Edit, Resolves, Dropping,
        Wanted
  <2>. QED  BY <2>1, <2>2, <2>3, <2>4, <2>5
<1>16. CASE ReadSecRule
  <2>0. UNCHANGED edits \/ Stamp' = Stamp + 1  BY <1>16, <1>0, EditType DEF ReadSecRule, lockObject, ReferenceError
  <2>a. UNCHANGED <<seen, leader, ecds, scfg, spc, sq, rs>> /\ lpc = "secrule"  BY <1>16 DEF ReadSecRule
  <2>b. lcfg' \in {NoConfig, [lcfg EXCEPT !.rule = rule.gen]}  BY <1>16 DEF ReadSecRule
  <2>c. lcfg'.uid \in {0, lcfg.uid}
    <3>1. [lcfg EXCEPT !.rule = rule.gen].uid = lcfg.uid  BY <1>f DEF Config
    <3>. QED  BY <2>b, <3>1, NoFields
  <2>d. /\ \/ waf' = waf /\ fresh' = fresh
           \/ waf.live /\ waf'.live /\ waf'.uid = waf.uid /\ (waf.del => waf'.del) /\ (\A r \in Replicas : ~fresh'[r])
        /\ lfresh' => waf'.live
    <3>1. PICK m \in RefsCondition : SetReferencesResolved(m, lrefs, lfresh)  BY <1>16 DEF ReadSecRule, RefsCondition
    <3>2. lfresh \in BOOLEAN /\ (lfresh => waf.live)  BY <1>0 DEF TypeOK, Cached
    <3>. QED  BY <3>1, <3>2, <1>s
  <2>1. Older'  BY <2>0, <2>a, <2>c, <2>d, <1>o
  <2>2. Cached'
    <3>1. CASE UNCHANGED <<waf, fresh>>  BY <1>0, <2>a, <2>d, <3>1 DEF Cached, Identified
    <3>. QED  BY <2>a, <2>d, <3>1, <1>c
  <2>3. Traced'  BY <2>a, <2>c, <2>d, <1>0, <1>t DEF Traced, Cached, Identified, NoWAF
  <2>4. Resolved'
    <3>1. rule'.live => rule'.gen # 0
      BY <1>16, <1>0 DEF ReadSecRule, lockObject, Resolved, TypeOK, RuleObject
    <3>2. lpc' = "publish" => lcfg'.rs # 0 /\ lcfg'.rule # 0
      <4>1. lpc' = "publish" => lcfg' = [lcfg EXCEPT !.rule = rule.gen] /\ rule.live
        BY <1>16 DEF ReadSecRule, SetReferencesResolved, Resolves
      <4>2. lcfg.rs # 0 /\ (rule.live => rule.gen # 0)  BY <1>0, <2>a DEF Resolved
      <4>. QED  BY <4>1, <4>2, <1>f DEF Config
    <3>3. lpc' # "secrule"  BY <1>16 DEF ReadSecRule, SetReferencesResolved
    <3>. QED  BY <1>0, <2>a, <3>1, <3>2, <3>3 DEF Resolved
  <2>5. Dropping'
    BY <1>0, <1>t, <1>f, <1>16 DEF ReadSecRule, SetReferencesResolved, Write, lockObject, Edit, Resolves,
        Dropping, Wanted
  <2>. QED  BY <2>1, <2>2, <2>3, <2>4, <2>5
<1>17. CASE LeaderPublish
  <2>1. Cached'  BY <1>0, <1>17 DEF LeaderPublish, Goto, Cached, Identified
  <2>2. Older'
    BY <1>0, <1>t, <1>f, <1>17 DEF LeaderPublish, Publish, Goto, Older, ConfigOf, NoConfig, NoWAF, Stamp
  <2>3. Traced'
    BY <1>0, <1>t, <1>f, <1>17 DEF LeaderPublish, Publish, Goto, Traced, Cached, Identified, Older, ConfigOf,
        NoConfig, NoWAF
  <2>4. Resolved'  BY <1>0, <1>f, <1>17 DEF LeaderPublish, Publish, Goto, Resolved, ConfigOf, NoConfig, NoObject
  <2>5. Dropping'  BY <1>0, <1>t, <1>f, <1>17 DEF LeaderPublish, Publish, Goto, Dropping, Wanted
  <2>. QED  BY <2>1, <2>2, <2>3, <2>4, <2>5
<1>18. CASE EnsureDesired
  <2>1. (Older /\ Cached /\ Traced)'
    BY <1>0, <1>18 DEF EnsureDesired, Goto, Older, Stamp, Cached, Identified, Traced
  <2>2. Resolved'  BY <1>0, <1>f, <1>18 DEF EnsureDesired, Goto, Resolved, ConfigOf, NoConfig, NoObject
  <2>3. Dropping'  BY <1>0, <1>t, <1>f, <1>18 DEF EnsureDesired, Goto, Dropping, Wanted
  <2>. QED  BY <2>1, <2>2, <2>3
<1>19. CASE WriteStatus
  <2>a. /\ lcfg' = NoConfig /\ UNCHANGED <<seen, leader, ecds, scfg, edits>> /\ ~lfresh'
    BY <1>19 DEF WriteStatus, Done, Write, NoWrite
  <2>b. \/ UNCHANGED <<waf, fresh>>
        \/ waf.live /\ waf'.live /\ waf'.uid = waf.uid /\ (waf.del => waf'.del) /\ (\A r \in Replicas : ~fresh'[r])
    <3>1. CASE seen[leader].live /\ fresh[leader]
      <4>1. waf.live  BY <3>1, <1>0, <1>t DEF Cached
      <4>. QED  BY <1>19, <1>t, <3>1, <4>1 DEF WriteStatus, Write, WAF
    <3>2. CASE ~(seen[leader].live /\ fresh[leader])  BY <1>19, <3>2 DEF WriteStatus, NoWrite
    <3>. QED  BY <3>1, <3>2
  <2>1. Older'  BY <2>a, <2>b, <1>o, NoFields
  <2>2. Cached'
    <3>1. CASE UNCHANGED <<waf, fresh>>  BY <1>0, <2>a, <3>1 DEF Cached, Identified
    <3>. QED  BY <2>a, <2>b, <3>1, <1>c
  <2>3. Traced'  BY <2>a, <2>b, <1>r, NoFields
  <2>4. Resolved'
    BY <1>0, <1>f, <1>19 DEF WriteStatus, Write, NoWrite, Done, Resolved, ConfigOf, NoConfig, NoObject
  <2>5. Dropping'  BY <1>0, <1>t, <1>f, <1>19 DEF WriteStatus, Write, NoWrite, Done, Dropping, Wanted
  <2>. QED  BY <2>1, <2>2, <2>3, <2>4, <2>5
<1>20. CASE markNotReady
  <2>a. /\ lcfg' = NoConfig /\ UNCHANGED <<seen, leader, ecds, scfg>> /\ ~lfresh' /\ Stamp' = Stamp + 1
    BY <1>20, <1>0, EditType DEF markNotReady, Done, Write, NoWrite
  <2>b. \/ UNCHANGED <<waf, fresh>>
        \/ waf.live /\ waf'.live /\ waf'.uid = waf.uid /\ (waf.del => waf'.del) /\ (\A r \in Replicas : ~fresh'[r])
    <3>1. CASE seen[leader].live /\ fresh[leader] /\ waf.ready # "False"
      <4>1. waf.live  BY <3>1, <1>0, <1>t DEF Cached
      <4>. QED  BY <1>20, <1>t, <3>1, <4>1 DEF markNotReady, Write, WAF
    <3>2. CASE ~(seen[leader].live /\ fresh[leader] /\ waf.ready # "False")
      BY <1>20, <3>2 DEF markNotReady, NoWrite
    <3>. QED  BY <3>1, <3>2
  <2>1. Older'  BY <2>a, <2>b, <1>o, NoFields
  <2>2. Cached'
    <3>1. CASE UNCHANGED <<waf, fresh>>  BY <1>0, <2>a, <3>1 DEF Cached, Identified
    <3>. QED  BY <2>a, <2>b, <3>1, <1>c
  <2>3. Traced'  BY <2>a, <2>b, <1>r, NoFields
  <2>4. Resolved'
    BY <1>0, <1>f, <1>20 DEF markNotReady, Write, NoWrite, Done, Edit, Resolved, ConfigOf, NoConfig, NoObject
  <2>5. Dropping'  BY <1>0, <1>t, <1>f, <1>20 DEF markNotReady, Write, NoWrite, Done, Edit, Dropping, Wanted
  <2>. QED  BY <2>1, <2>2, <2>3, <2>4, <2>5
<1>21. CASE DeleteSlots
  <2>a. /\ lcfg' \in {lcfg, NoConfig} /\ (lfresh' => lfresh) /\ UNCHANGED <<waf, seen, fresh, leader, scfg>>
        /\ ecds' = [ecds EXCEPT ![leader] = NoConfig]
    <3>1. UNCHANGED <<waf, seen, fresh, leader, scfg>> /\ ecds' = [ecds EXCEPT ![leader] = NoConfig]
      BY <1>21 DEF DeleteSlots, DropLocal
    <3>2. CASE Goto("unfinalize") /\ UNCHANGED lfresh  BY <3>1, <3>2 DEF Goto
    <3>3. CASE Done(TRUE) /\ lfresh' = FALSE  BY <3>1, <3>3 DEF Done
    <3>. QED  BY <1>21, <3>2, <3>3 DEF DeleteSlots
  <2>0. UNCHANGED edits \/ Stamp' = Stamp + 1  BY <1>21, <1>0, EditType DEF DeleteSlots
  <2>1. Older'  BY <2>a, <2>0, <1>o, <1>f, NoFields
  <2>2. Cached'  BY <2>a, <1>0 DEF Cached, Identified
  <2>3. Traced'  BY <2>a, <1>0, <1>t, <1>f, NoFields DEF Traced, Cached, Identified
  <2>4. Resolved'
    BY <1>0, <1>f, <1>21 DEF DeleteSlots, DropLocal, Done, Goto, Edit, Resolved, ConfigOf, NoConfig, NoObject
  <2>5. Dropping'  BY <1>0, <1>t, <1>f, <1>21 DEF DeleteSlots, DropLocal, Done, Goto, Edit, Dropping, Wanted
  <2>. QED  BY <2>1, <2>2, <2>3, <2>4, <2>5
<1>22. CASE RemoveFinalizer
  <2>a. /\ lcfg' = NoConfig /\ UNCHANGED <<seen, leader, ecds, scfg, edits>> /\ ~lfresh'
    BY <1>22 DEF RemoveFinalizer, Done, Write, NoWrite
  <2>b. UNCHANGED <<waf, fresh>> \/ (waf' = NoWAF /\ \A r \in Replicas : ~fresh'[r])
    BY <1>22 DEF RemoveFinalizer, Write, NoWrite
  <2>1. Older'  BY <2>a, <2>b, <1>o, NoFields
  <2>2. Cached'
    <3>1. CASE UNCHANGED <<waf, fresh>>  BY <1>0, <2>a, <3>1 DEF Cached, Identified
    <3>. QED  BY <2>a, <2>b, <3>1, <1>c
  <2>3. Traced'  BY <2>a, <2>b, <1>r, NoFields
  <2>4. Resolved'
    BY <1>0, <1>f, <1>22 DEF RemoveFinalizer, Write, NoWrite, Done, Resolved, ConfigOf, NoConfig, NoObject
  <2>5. Dropping'  BY <1>0, <1>t, <1>f, <1>22 DEF RemoveFinalizer, Write, NoWrite, Done, Dropping, Wanted
  <2>. QED  BY <2>1, <2>2, <2>3, <2>4, <2>5
<1>23. ASSUME NEW r \in Replicas, SyncDelete(r) PROVE Goal'
  <2>1. (Older /\ Cached /\ Traced)'  BY <1>0, <1>23 DEF SyncDelete, Older, Stamp, Cached, Identified, Traced
  <2>2. Resolved'  BY <1>0, <1>f, <1>23 DEF SyncDelete, Resolved, ConfigOf, NoConfig, NoObject
  <2>3. Dropping'  BY <1>0, <1>t, <1>f, <1>23 DEF SyncDelete, Dropping, Wanted
  <2>. QED  BY <2>1, <2>2, <2>3
<1>24. ASSUME NEW r \in Replicas, SyncBegin(r) PROVE Goal'
  <2>1. Cached'  BY <1>0, <1>24 DEF SyncBegin, Cached, Identified
  <2>2. Older'  BY <1>0, <1>t, <1>f, <1>24 DEF SyncBegin, Resolves, Older, ConfigOf, NoConfig, NoWAF, Stamp
  <2>3. Traced'
    BY <1>0, <1>t, <1>f, <1>24 DEF SyncBegin, Resolves, Traced, Cached, Identified, Older, ConfigOf, NoConfig,
        NoWAF
  <2>4. Resolved'  BY <1>0, <1>f, <1>24 DEF SyncBegin, Resolves, Resolved, ConfigOf, NoConfig, NoObject
  <2>5. Dropping'  BY <1>0, <1>t, <1>f, <1>24 DEF SyncBegin, Resolves, Dropping, Wanted
  <2>. QED  BY <2>1, <2>2, <2>3, <2>4, <2>5
<1>25. ASSUME NEW r \in Replicas, SyncReadSecRule(r) PROVE Goal'
  <2>a. UNCHANGED <<waf, rs, rule, seen, fresh, leader, lpc, lq, lfresh, lcfg, ecds, edits>> /\ spc[r] = "secrule"
    BY <1>25 DEF SyncReadSecRule
  <2>b. \/ scfg'[r] = NoConfig /\ spc'[r] = "idle"
        \/ rule.live /\ scfg'[r] = [scfg[r] EXCEPT !.rule = rule.gen] /\ spc'[r] = "publish"
    BY <1>25, <1>f DEF SyncReadSecRule, SyncDone, Resolves
  <2>c. scfg'[r].uid \in {0, scfg[r].uid}
    <3>0. scfg[r] \in Config  BY <1>f
    <3>1. [scfg[r] EXCEPT !.rule = rule.gen].uid = scfg[r].uid  BY <3>0 DEF Config
    <3>. QED  BY <2>b, <3>1, NoFields
  <2>d. \A q \in Replicas \ {r} : scfg'[q] = scfg[q] /\ spc'[q] = spc[q]
    BY <1>25, <1>f DEF SyncReadSecRule, SyncDone
  <2>1. Cached'  BY <1>0, <1>25 DEF SyncReadSecRule, Cached, Identified
  <2>2. Older'  BY <2>a, <2>c, <2>d, <1>o
  <2>3. Traced'  BY <2>a, <2>c, <2>d, <1>0 DEF Traced, Cached, Identified
  <2>4. Resolved'
    <3>1. spc'[r] = "publish" => scfg'[r].rs # 0 /\ scfg'[r].rule # 0
      BY <2>a, <2>b, <1>0, <1>f DEF Resolved, Config
    <3>. QED  BY <1>0, <2>a, <2>b, <2>d, <3>1 DEF Resolved
  <2>5. Dropping'  BY <1>0, <1>t, <1>f, <1>25 DEF SyncReadSecRule, Resolves, SyncDone, Dropping, Wanted
  <2>. QED  BY <2>1, <2>2, <2>3, <2>4, <2>5
<1>26. ASSUME NEW r \in Replicas, SyncPublish(r) PROVE Goal'
  <2>1. Cached'  BY <1>0, <1>26 DEF SyncPublish, Cached, Identified
  <2>2. Older'
    <3>1. UNCHANGED <<waf, seen, lcfg, edits>>  BY <1>26 DEF SyncPublish
    <3>2. \A q \in Replicas : scfg'[q] \in {scfg[q], NoConfig} /\ ecds'[q] \in {ecds[q], scfg[q], NoConfig}
      BY <1>26, <1>f DEF SyncPublish, Publish, SyncDone
    <3>. QED  BY <3>1, <3>2, <1>o, NoFields
  <2>3. Traced'
    BY <1>0, <1>t, <1>f, <1>26 DEF SyncPublish, Publish, SyncDone, Traced, Cached, Identified, Older,
        ConfigOf, NoConfig, NoWAF
  <2>4. Resolved'
    BY <1>0, <1>f, <1>26 DEF SyncPublish, Publish, SyncDone, Resolved, ConfigOf, NoConfig, NoObject
  <2>5. Dropping'  BY <1>0, <1>t, <1>f, <1>26 DEF SyncPublish, Publish, SyncDone, Dropping, Wanted
  <2>. QED  BY <2>1, <2>2, <2>3, <2>4, <2>5
<1>27. ASSUME NEW r \in Replicas, SyncFail(r) PROVE Goal'
  <2>1. Cached'  BY <1>0, <1>27 DEF SyncFail, Cached, Identified
  <2>2. Older'
    <3>1. UNCHANGED <<waf, seen, lcfg, ecds>>  BY <1>27 DEF SyncFail
    <3>2. \A q \in Replicas : scfg'[q] \in {scfg[q], NoConfig}  BY <1>27, <1>f DEF SyncFail, SyncDone
    <3>3. Stamp' = Stamp + 1  BY <1>0, <1>27, EditType DEF SyncFail
    <3>. QED  BY <3>1, <3>2, <3>3, <1>o, NoFields
  <2>3. Traced'
    BY <1>0, <1>t, <1>f, <1>27 DEF SyncFail, SyncDone, Edit, Traced, Cached, Identified, Older, ConfigOf,
        NoConfig, NoWAF
  <2>4. Resolved'  BY <1>0, <1>f, <1>27 DEF SyncFail, SyncDone, Edit, Resolved, ConfigOf, NoConfig, NoObject
  <2>5. Dropping'  BY <1>0, <1>t, <1>f, <1>27 DEF SyncFail, SyncDone, Edit, Dropping, Wanted
  <2>. QED  BY <2>1, <2>2, <2>3, <2>4, <2>5
<1>28. ASSUME NEW r \in Replicas, SyncDrop(r) PROVE Goal'
  <2>1. Cached'  BY <1>0, <1>28 DEF SyncDrop, Cached, Identified
  <2>2. Older'
    <3>1. UNCHANGED <<waf, seen, lcfg, edits>>  BY <1>28 DEF SyncDrop
    <3>2. \A q \in Replicas : scfg'[q] \in {scfg[q], NoConfig} /\ ecds'[q] \in {ecds[q], scfg[q], NoConfig}
      BY <1>28, <1>f DEF SyncDrop, DropLocal, SyncDone
    <3>. QED  BY <3>1, <3>2, <1>o, NoFields
  <2>3. Traced'
    BY <1>0, <1>t, <1>f, <1>28 DEF SyncDrop, DropLocal, SyncDone, Traced, Cached, Identified, Older, ConfigOf,
        NoConfig, NoWAF
  <2>4. Resolved'
    BY <1>0, <1>f, <1>28 DEF SyncDrop, DropLocal, SyncDone, Resolved, ConfigOf, NoConfig, NoObject
  <2>5. Dropping'  BY <1>0, <1>t, <1>f, <1>28 DEF SyncDrop, DropLocal, SyncDone, Dropping, Wanted
  <2>. QED  BY <2>1, <2>2, <2>3, <2>4, <2>5
<1>29. ASSUME NEW n \in Replicas, Failover(n) PROVE Goal'
  <2>1. Older'
    <3>1. waf' = waf /\ lcfg' = NoConfig  BY <1>29 DEF Failover
    <3>2. \A q \in Replicas : scfg'[q] \in {scfg[q], NoConfig} /\ ecds'[q] \in {ecds[q], NoConfig} /\ seen'[q] \in {seen[q], waf}
      BY <1>29, <1>f DEF Failover
    <3>3. Stamp' = Stamp + 1  BY <1>0, <1>29, EditType DEF Failover
    <3>. QED  BY <3>1, <3>2, <3>3, <1>o, NoFields
  <2>2. Cached'  BY <1>0, <1>t, <1>f, <1>29 DEF Failover, Edit, Cached, Identified, NoWAF, Older
  <2>3. Traced'
    BY <1>0, <1>t, <1>f, <1>29 DEF Failover, Edit, Traced, Cached, Identified, Older, ConfigOf, NoConfig, NoWAF
  <2>4. Resolved'  BY <1>0, <1>f, <1>29 DEF Failover, Edit, Resolved, ConfigOf, NoConfig, NoObject
  <2>5. Dropping'  BY <1>0, <1>t, <1>f, <1>29 DEF Failover, Edit, Dropping, Wanted
  <2>. QED  BY <2>1, <2>2, <2>3, <2>4, <2>5
<1>30. CASE UNCHANGED vars
  BY <1>0, <1>30 DEF vars, Older, Stamp, Cached, Identified, Traced, Resolved, Dropping, Wanted
<1>. QED
  BY <1>1, <1>2, <1>3, <1>4, <1>5, <1>6, <1>7, <1>8, <1>9, <1>10, <1>11, <1>12, <1>13, <1>14, <1>15, <1>16,
      <1>17, <1>18, <1>19, <1>20, <1>21, <1>22, <1>23, <1>24, <1>25, <1>26, <1>27, <1>28, <1>29, <1>30
     DEF Next, Users, Cluster, Lead, Sync

\* The operator starts with current caches and an empty memory.
LEMMA SnapshotInvInit == Init => SnapshotInv
<1>. SUFFICES ASSUME Init, TypeOK PROVE Older /\ Cached /\ Traced /\ Resolved /\ Dropping
  BY TypeInit DEF SnapshotInv
<1>1. waf = NoWAF \/ \E p \in Providers : waf = ServedWAF(p)  BY DEF Init
<1>2. waf.uid \in {0, 1} /\ Identified(waf)  BY <1>1, NoFields DEF ServedWAF, Identified
<1>3. Stamp \in Int /\ Stamp > 1
  <2>1. edits = MaxEdits  BY DEF Init
  <2>. QED  BY <2>1, EditsAssumption DEF Stamp
<1>4. /\ \A r \in Replicas : /\ seen[r] = waf /\ scfg[r] = NoConfig /\ ecds[r] = NoConfig /\ spc[r] = "idle"
      /\ lcfg = NoConfig /\ lpc = "idle" /\ lfresh = FALSE
  BY DEF Init
<1>5. rs.live => rs.gen # 0
  <2>1. rs \in {NewObject(1), NoObject}  BY DEF Init
  <2>2. NewObject(1).gen = 1 /\ ~NoObject.live  BY DEF NewObject, NoObject
  <2>. QED  BY <2>1, <2>2
<1>6. rule.live => rule.gen # 0
  <2>1. rule \in {NewObject(1), NoObject}  BY DEF Init
  <2>2. NewObject(1).gen = 1 /\ ~NoObject.live  BY DEF NewObject, NoObject
  <2>. QED  BY <2>1, <2>2
<1>7. Older  BY <1>2, <1>3, <1>4, NoFields DEF Older
<1>8. Cached  BY <1>2, <1>4 DEF Cached
<1>9. Traced  BY <1>2, <1>4, NoFields DEF Traced, Identified
<1>10. Resolved  BY <1>4, <1>5, <1>6 DEF Resolved
<1>11. Dropping  BY <1>4 DEF Dropping
<1>. QED  BY <1>7, <1>8, <1>9, <1>10, <1>11

\* The invariant holds for any replicas, providers, edits and changes of leader.
THEOREM SnapshotInvHolds == Spec => []SnapshotInv
<1>1. SnapshotInv => TypeOK  BY DEF SnapshotInv
<1>. QED  BY <1>1, TypeInit, TypeStep, SnapshotInvInit, SnapshotInvStep, PTL DEF Spec

\* DropLocal on a replica whose cache does not want the WAF, or whose key is queued,
\* takes away a snapshot that may go: one of this WAF was built from a copy this
\* cache still has, and that copy is terminating.
LEMMA DropIsDue ==
    ASSUME SnapshotInv, NEW r \in Replicas, Queued(r) \/ ~Wanted(seen[r])
    PROVE  ~waf.live \/ waf.del \/ waf.uid # ecds[r].uid \/ Queued(r)
<1>. SUFFICES ASSUME waf.live, waf.uid = ecds[r].uid, ~Queued(r) PROVE waf.del
  OBVIOUS
<1>1. seen[r].uid = waf.uid  BY DEF SnapshotInv, Traced
<1>2. waf.uid # 0  BY DEF SnapshotInv, Cached, Identified
<1>3. seen[r].live  BY <1>1, <1>2, NoFields DEF SnapshotInv, Cached, Identified
<1>. QED  BY <1>1, <1>3 DEF SnapshotInv, Cached, Wanted

\* What a step may do to the snapshot of a replica (Publish, DropLocal, a restart).
LEMMA ReplacedOrDropped ==
    ASSUME SnapshotInv, [Next]_vars, NEW r \in Replicas, ecds'[r] # ecds[r]
    PROVE  \/ Complete(ecds'[r])
           \/ ecds'[r] = NoConfig /\ (~waf.live \/ waf.del \/ waf.uid # ecds[r].uid \/ Queued(r))
           \/ r = leader /\ leader' # leader
<1>. USE DEF api, informers, leading, syncing, memory
<1>0. ecds \in [Replicas -> Config] /\ leader \in Replicas  BY DEF SnapshotInv, TypeOK
<1>1. CASE LeaderPublish
  <2>1. r = leader /\ ecds'[r] = lcfg  BY <1>0, <1>1 DEF LeaderPublish, Publish
  <2>. QED  BY <1>1, <2>1 DEF LeaderPublish, SnapshotInv, Resolved, Complete
<1>2. ASSUME NEW q \in Replicas, SyncPublish(q)
      PROVE  Complete(ecds'[r])
  <2>1. r = q /\ ecds'[r] = scfg[q]  BY <1>0, <1>2 DEF SyncPublish, Publish
  <2>. QED  BY <1>2, <2>1 DEF SyncPublish, SnapshotInv, Resolved, Complete
<1>3. CASE DeleteSlots
  <2>1. r = leader /\ ecds'[r] = NoConfig /\ lpc = "drop"  BY <1>0, <1>3 DEF DeleteSlots, DropLocal
  <2>2. Queued(r) \/ ~Wanted(seen[r])  BY <2>1 DEF SnapshotInv, Dropping, Queued
  <2>. QED  BY <2>1, <2>2, DropIsDue
<1>4. ASSUME NEW q \in Replicas, SyncDrop(q)
      PROVE  ecds'[r] = NoConfig /\ (~waf.live \/ waf.del \/ waf.uid # ecds[r].uid \/ Queued(r))
  <2>1. r = q /\ ecds'[r] = NoConfig /\ spc[r] = "drop"  BY <1>0, <1>4 DEF SyncDrop, DropLocal
  <2>2. Queued(r) \/ ~Wanted(seen[r])  BY <2>1 DEF SnapshotInv, Dropping, Queued
  <2>. QED  BY <2>1, <2>2, DropIsDue
<1>5. ASSUME NEW n \in Replicas, Failover(n)
      PROVE  r = leader /\ leader' # leader
  BY <1>0, <1>5 DEF Failover
<1>6. CASE Users
  BY <1>6 DEF Users, CreateWAF, EditWAF, DeleteWAF, ApplyRuleSet, DeleteRuleSet, ApplySecRule, DeleteSecRule
<1>7. CASE Cluster  BY <1>7 DEF Cluster, SyncWAF, RuleEvent, CollectSlot, FinalizeRuleSet, FinalizeSecRule
<1>8. CASE AddFinalizer \/ Begin \/ ReadSecRule \/ EnsureDesired \/ WriteStatus \/ markNotReady \/ BeginDelete \/ RemoveFinalizer
  BY <1>8 DEF AddFinalizer, Begin, ReadSecRule, EnsureDesired, WriteStatus, markNotReady, BeginDelete,
      RemoveFinalizer
<1>9. ASSUME NEW q \in Replicas, SyncBegin(q) \/ SyncReadSecRule(q) \/ SyncFail(q) \/ SyncDelete(q)
      PROVE  FALSE
  BY <1>9 DEF SyncBegin, SyncReadSecRule, SyncFail, SyncDelete
<1>10. CASE UNCHANGED vars  BY <1>10 DEF vars
<1>. QED  BY <1>1, <1>2, <1>3, <1>4, <1>5, <1>6, <1>7, <1>8, <1>9, <1>10 DEF Next, Lead, Sync

\* A snapshot is only replaced by a complete one, and only taken away when its WAF
\* is, when the key is queued or when the replica restarts (FailClosed), whatever
\* the caches lag, however builds fail and however often the lease moves.
THEOREM SnapshotsFailClosed == Spec => FailClosed
<1>1. SnapshotInv /\ [Next]_vars =>
        [\A r \in Replicas :
            ecds'[r] # ecds[r] =>
               \/ Complete(ecds'[r])
               \/ ecds'[r] = NoConfig /\ (~waf.live \/ waf.del \/ waf.uid # ecds[r].uid \/ Queued(r))
               \/ r = leader /\ leader' # leader]_vars
  BY ReplacedOrDropped
<1>. QED  BY <1>1, SnapshotInvHolds, PTL DEF Spec, FailClosed
=============================================================================
