--------------------------- MODULE SecRuleIDPool ---------------------------
(***************************************************************************)
(* The SecRule controller of kubeWAF and the cluster-scoped id allocation  *)
(* it performs (internal/controller/seclang).  A SecRule whose metadata    *)
(* has no id is given one from the SecRuleIDPool singleton; the grant is   *)
(* a compare-and-swap on the pool's status, the owner keeps the id in      *)
(* status.assignedIds and in a sticky annotation.                          *)
(*                                                                         *)
(* One replica leads and runs one reconcile at a time; it reads SecRules   *)
(* and the pool from informer caches that lag behind the API server, and   *)
(* every write carries the resourceVersion that was read.  Users create,   *)
(* edit and delete SecRules, an administrator edits the pool, the          *)
(* reference resolver adds its own finalizer, and the lease may move to a  *)
(* replica whose caches are older, at any point of a reconcile.            *)
(***************************************************************************)
EXTENDS Integers, Sequences, FiniteSets

CONSTANTS
    SecRules,     \* names of SecRule objects
    Specs,        \* spec values: one metadata id per rule of the CR, 0 = omitted
    BadSpecs,     \* the specs whose conversion to SecLang fails
    Ranges,       \* <<minId, maxId>> values an administrator may set
    DefaultRange, \* <<DefaultIDPoolMin, DefaultIDPoolMax>>
    Edits,        \* the kinds of environment steps that happen
    MaxEdits,     \* bound on the steps of users, administrators, other controllers, lease
    MaxStale      \* bound on reconciles that start from, or are defeated by, a stale cache

ASSUME SpecsAssumption == /\ Specs \subseteq Seq(Nat)
                          /\ BadSpecs \subseteq Specs
ASSUME RangesAssumption == /\ Ranges \subseteq Nat \X Nat
                           /\ DefaultRange \in (Nat \ {0}) \X (Nat \ {0})
EditKinds == {"create", "spec", "delete", "lock", "range", "lease", "datafile", "lookup"}

ASSUME EditsAssumption == Edits \subseteq EditKinds
ASSUME BoundsAssumption == MaxEdits \in Nat /\ MaxStale \in Nat

VARIABLES
    secrules,   \* API server: the SecRule objects
    pool,       \* API server: the SecRuleIDPool singleton
    seen,       \* the leader's informer cache of the SecRules
    seenPool,   \* the leader's informer cache of the pool
    standby,    \* the caches of the replica that waits for the lease, if they lag
    queue,      \* the leader's work queue, back-off retries included
    pc, cur,    \* where the running reconcile is, and of which SecRule
    sr,         \* its in-memory SecRule
    used,       \* its used-id set
    ids,        \* the ids it has assigned so far
    edits,      \* environment steps left
    stale,      \* stale reconciles left
    grants,     \* history: <<rule, index, id>> of every successful pool update
    wrapped     \* history: the pool cursor has gone back to minId

api == <<secrules, pool>>
caches == <<seen, seenPool, standby>>
locals == <<pc, cur, sr, used, ids>>
bounds == <<edits, stale>>
history == <<grants, wrapped>>
vars == <<api, caches, queue, locals, bounds, history>>

-----------------------------------------------------------------------------
(* API objects.  ver is the resourceVersion; it outlives the object, so a   *)
(* recreated object never has the version of its predecessor.               *)

Sources == {"", "Spec", "Auto", "Mixed"}
Conditions == {"", "IDAllocationFailed", "DataFileLookupFailed", "ConvertFailed", "Rendered"}

SecRule == [live: BOOLEAN, ver: Nat, spec: Specs \cup {<<>>}, fin: BOOLEAN, ref: BOOLEAN,
            del: BOOLEAN, ann: Nat, lab: Nat \X Sources, ids: Seq(Nat), cond: Conditions]

NoRule(v) == [live |-> FALSE, ver |-> v, spec |-> <<>>, fin |-> FALSE, ref |-> FALSE,
              del |-> FALSE, ann |-> 0, lab |-> <<0, "">>, ids |-> <<>>, cond |-> ""]

Pool == [live: BOOLEAN, ver: Nat, range: Nat \X Nat, next: Nat, last: Nat]

NoPool(v) == [live |-> FALSE, ver |-> v, range |-> <<0, 0>>, next |-> 0, last |-> 0]

EffectiveMin(p) == IF p.range[1] = 0 THEN DefaultRange[1] ELSE p.range[1]
EffectiveMax(p) == IF p.range[2] = 0 THEN DefaultRange[2] ELSE p.range[2]

\* A write that carries version v of SecRule s is accepted.
Accepts(s, v) == secrules[s].live /\ secrules[s].ver = v

\* SecRule s is replaced by o; a write that changes nothing keeps the version.
Store(s, o) == secrules' = [secrules EXCEPT ![s] =
                   IF o = @ THEN @ ELSE [o EXCEPT !.ver = secrules[s].ver + 1]]

-----------------------------------------------------------------------------
(* Pure parts of the allocation.                                            *)

Elements(q) == {q[i] : i \in 1..Len(q)}

\* collectUsedIDs: status.assignedIds, explicit metadata ids and the annotation.
Claims(o) == IF o.live THEN (Elements(o.ids) \cup Elements(o.spec) \cup {o.ann}) \ {0} ELSE {}

collectUsedIDs(rules) == UNION {Claims(rules[s]) : s \in SecRules}

freeSelfClaims(o) == Elements(o.ids) \cup {o.ann}

\* Fault: -1, not 0, tells that there is no free id.
findFreeMinusOne(from, to, taken) ==
    LET free == (from..to) \ taken
    IN  IF free = {} THEN -1 ELSE CHOOSE id \in free : \A j \in free : id <= j

\* findFree: the lowest free id of from..to, 0 when there is none.
findFree(from, to, taken) ==
    LET free == (from..to) \ taken
    IN  IF free = {} THEN 0 ELSE CHOOSE id \in free : \A j \in free : id <= j

\* Fault: only explicit ids are kept.
StickyIDSpecOnly(o, i) == o.spec[i]

\* The sticky id of rule i of o, 0 when the pool has to be asked.
StickyID(o, i) ==
    IF o.spec[i] > 0 THEN o.spec[i]
    ELSE IF i <= Len(o.ids) /\ o.ids[i] > 0 THEN o.ids[i]
    ELSE IF i = 1 THEN o.ann ELSE 0

idSource(o) ==
    LET autos == \E i \in 1..Len(o.spec) : o.spec[i] = 0
        specs == \E i \in 1..Len(o.spec) : o.spec[i] > 0
    IN  IF autos /\ specs THEN "Mixed" ELSE IF autos THEN "Auto" ELSE IF specs THEN "Spec" ELSE ""

primary(q) == IF q = <<>> THEN 0 ELSE q[1]

\* allocateOne: the cursor, the id it picks (0: exhausted), the next cursor.
Cursor(p) == IF p.next < EffectiveMin(p) THEN EffectiveMin(p) ELSE p.next

\* Fault: the search goes one id past maxId.
PickIDPastMax(p, taken) ==
    LET ahead == findFree(Cursor(p), EffectiveMax(p) + 1, taken)
    IN  IF EffectiveMax(p) < EffectiveMin(p) THEN 0
        ELSE IF ahead # 0 THEN ahead
        ELSE findFree(EffectiveMin(p), Cursor(p) - 1, taken)

PickID(p, taken) ==
    LET ahead == findFree(Cursor(p), EffectiveMax(p), taken)
    IN  IF EffectiveMax(p) < EffectiveMin(p) THEN 0
        ELSE IF ahead # 0 THEN ahead
        ELSE findFree(EffectiveMin(p), Cursor(p) - 1, taken)

NextCursor(p, id) == IF id + 1 > EffectiveMax(p) THEN EffectiveMin(p) ELSE id + 1

\* syncSecRuleLabels: the id and id-source labels and the sticky annotation.
syncSecRuleLabels(o, id, src) ==
    [o EXCEPT !.lab = <<id, src>>,
              !.ann = IF src \in {"Auto", "Mixed"} /\ id > 0 THEN id ELSE @]

-----------------------------------------------------------------------------
Init ==
    /\ secrules = [s \in SecRules |-> NoRule(0)]
    /\ pool = NoPool(0)
    /\ seen = secrules /\ seenPool = pool
    /\ standby = <<>>
    /\ queue = {}
    /\ pc = "idle" /\ cur = "none"
    /\ sr = NoRule(0) /\ used = {} /\ ids = <<>>
    /\ edits = MaxEdits /\ stale = MaxStale
    /\ grants = {} /\ wrapped = FALSE

-----------------------------------------------------------------------------
(* Environment.                                                             *)

\* The reconciler keeps nothing from one reconcile to the next.
Reset == pc' = "idle" /\ cur' = "none" /\ sr' = NoRule(0) /\ used' = {} /\ ids' = <<>>

Edit(kind) == kind \in Edits /\ edits > 0 /\ edits' = edits - 1 /\ stale' = stale
Stale == stale > 0 /\ stale' = stale - 1 /\ edits' = edits

CreateRule(s, sp) ==
    /\ Edit("create")
    /\ ~secrules[s].live
    /\ Store(s, [NoRule(secrules[s].ver) EXCEPT !.live = TRUE, !.spec = sp])
    /\ UNCHANGED <<pool, caches, queue, locals, history>>

EditSpec(s, sp) ==
    /\ Edit("spec")
    /\ secrules[s].live /\ secrules[s].spec # sp
    /\ Store(s, [secrules[s] EXCEPT !.spec = sp])
    /\ UNCHANGED <<pool, caches, queue, locals, history>>

\* A delete request: the object stays, terminating, while it has finalizers.
DeleteRule(s) ==
    /\ Edit("delete")
    /\ secrules[s].live /\ ~secrules[s].del
    /\ Store(s, IF secrules[s].fin \/ secrules[s].ref THEN [secrules[s] EXCEPT !.del = TRUE]
                ELSE NoRule(secrules[s].ver))
    /\ UNCHANGED <<pool, caches, queue, locals, history>>

\* lockObject of the RuleSet and WAF controllers adds ruleSetRef.kubewaf.io.
LockRule(s) ==
    /\ Edit("lock")
    /\ secrules[s].live /\ ~secrules[s].del /\ ~secrules[s].ref
    /\ Store(s, [secrules[s] EXCEPT !.ref = TRUE])
    /\ UNCHANGED <<pool, caches, queue, locals, history>>

EditRange(rg) ==
    /\ Edit("range")
    /\ pool.live /\ pool.range # rg
    /\ pool' = [pool EXCEPT !.range = rg, !.ver = @ + 1]
    /\ UNCHANGED <<secrules, caches, queue, locals, history>>

\* Watch events: the cache catches up and the controller queues the key.
SyncRule(s) ==
    /\ seen[s] # secrules[s]
    /\ seen' = [seen EXCEPT ![s] = secrules[s]]
    /\ queue' = queue \cup {s}
    /\ UNCHANGED <<api, seenPool, standby, locals, bounds, history>>

SyncPool ==
    /\ seenPool # pool
    /\ seenPool' = pool
    /\ UNCHANGED <<api, seen, standby, queue, locals, bounds, history>>

\* mapDataFileToSecRules: a PhraseList or IPList event queues every cached SecRule.
mapDataFileToSecRules ==
    /\ Edit("datafile")
    /\ queue' = queue \cup {s \in SecRules : seen[s].live}
    /\ UNCHANGED <<api, caches, locals, history>>

\* The informers of the waiting replica fall behind.
Lag ==
    /\ Edit("lease")
    /\ standby = <<>>
    /\ standby' = <<secrules, pool>>
    /\ UNCHANGED <<api, seen, seenPool, queue, locals, history>>

\* The lease moves: the reconcile in progress is lost and the controller starts
\* on the other replica, with the objects of that replica's caches.
Failover ==
    /\ Edit("lease")
    /\ seen' = (IF standby = <<>> THEN secrules ELSE standby[1])
    /\ seenPool' = (IF standby = <<>> THEN pool ELSE standby[2])
    /\ standby' = <<>>
    /\ queue' = {s \in SecRules : seen'[s].live}
    /\ Reset
    /\ UNCHANGED <<api, history>>

-----------------------------------------------------------------------------
(* The reconcile.  A reconcile that ends in an error is queued again.       *)

Return == Reset /\ queue' = queue
ReturnErr == Reset /\ queue' = queue \cup {cur}

\* collectUsedIDs lists the cache, the object's own claims are freed, and the
\* allocation starts.
Allocate(o) ==
    /\ sr' = o
    /\ used' = collectUsedIDs(seen) \ freeSelfClaims(o)
    /\ ids' = <<>>
    /\ pc' = "alloc"

\* The key is taken from the queue; InitHandler reads the cached object and,
\* when it lacks the finalizer, adds it.  An absent object or a refused
\* write is an error: the key stays queued and nothing else changes.
Begin(s) ==
    LET o == seen[s]
    IN  /\ pc = "idle" /\ s \in queue
        /\ o.live /\ ~o.del
        /\ IF o = secrules[s] THEN UNCHANGED bounds ELSE Stale
        /\ queue' = queue \ {s}
        /\ cur' = s
        /\ \/ /\ o.fin
              /\ Allocate(o)
              /\ UNCHANGED secrules
           \/ /\ ~o.fin /\ Accepts(s, o.ver)
              /\ Store(s, [o EXCEPT !.fin = TRUE])
              /\ pc' = "finalized"
              /\ UNCHANGED <<sr, used, ids>>
        /\ UNCHANGED <<pool, caches, history>>

\* Fault: only the controller's own finalizer goes.
FinalizeOwn(s) ==
    LET o == seen[s]
    IN  /\ pc = "idle" /\ s \in queue
        /\ o.live /\ o.del
        /\ Accepts(s, o.ver)
        /\ Store(s, IF o.ref THEN [o EXCEPT !.fin = FALSE] ELSE NoRule(o.ver))
        /\ queue' = queue \ {s}
        /\ UNCHANGED <<pool, caches, locals, bounds, history>>

\* A terminating object: both finalizers go and the object with them.
Finalize(s) ==
    LET o == seen[s]
    IN  /\ pc = "idle" /\ s \in queue
        /\ o.live /\ o.del
        /\ Accepts(s, o.ver)
        /\ Store(s, NoRule(o.ver))
        /\ queue' = queue \ {s}
        /\ UNCHANGED <<pool, caches, locals, bounds, history>>

\* The finalizer is written; the object is read again, from the cache, which
\* may still hold the old one, or none any more.
Refetch ==
    /\ pc = "finalized"
    /\ IF seen[cur].live THEN Allocate(seen[cur]) /\ UNCHANGED <<queue, cur>> ELSE ReturnErr
    /\ UNCHANGED <<api, caches, bounds, history>>

\* resolveOneID for the next rule: explicit, status or annotation id.
ResolveSticky ==
    LET i == Len(ids) + 1
    IN  /\ pc = "alloc" /\ i <= Len(sr.spec)
        /\ StickyID(sr, i) > 0
        /\ ids' = Append(ids, StickyID(sr, i))
        /\ used' = used \cup {StickyID(sr, i)}
        /\ UNCHANGED <<api, caches, queue, pc, cur, sr, bounds, history>>

NeedsPool == pc = "alloc" /\ Len(ids) < Len(sr.spec) /\ StickyID(sr, Len(ids) + 1) = 0

\* Fault: the failed allocation is reported in the status, and not retried.
AllocFailNoRetry ==
    /\ Return
    /\ IF Accepts(cur, sr.ver) THEN Store(cur, [sr EXCEPT !.cond = "IDAllocationFailed"])
       ELSE UNCHANGED secrules
    /\ UNCHANGED <<caches, history>>

\* Ready=False, reason IDAllocationFailed; the status write is best effort.
AllocFail ==
    /\ ReturnErr
    /\ IF Accepts(cur, sr.ver) THEN Store(cur, [sr EXCEPT !.cond = "IDAllocationFailed"])
       ELSE UNCHANGED secrules
    /\ UNCHANGED <<caches, history>>

\* The id of p that allocateOne picks becomes the next id of the SecRule; the
\* pool's status update advances the cursor.
GrantFrom(p) ==
    LET id == PickID(p, used)
        next == NextCursor(p, id)
    IN  /\ id # 0
        /\ pool' = [p EXCEPT !.ver = @ + 1, !.next = next, !.last = id]
        /\ ids' = Append(ids, id)
        /\ used' = used \cup {id}
        /\ grants' = grants \cup {<<cur, Len(ids) + 1, id>>}
        /\ wrapped' = (wrapped \/ next <= id \/ id < Cursor(p))
        /\ UNCHANGED <<secrules, caches, queue, pc, cur, sr, bounds>>

\* Fault: the pool update does not carry the resourceVersion that was read.
GrantUnconditional ==
    /\ NeedsPool
    /\ seenPool.live
    /\ GrantFrom(seenPool)

\* allocateOne with the cached pool: the update is accepted when the cache is
\* current; until then every attempt is a conflict that changes nothing.
Grant ==
    /\ NeedsPool
    /\ seenPool.live /\ seenPool = pool
    /\ GrantFrom(seenPool)

\* ensureClusterIDPool creates the pool, and allocateOne goes on with the object
\* created; or the pool is edited first, the grant is a conflict, and nextId
\* is initialised or (its update too being refused) not.
CreatePool ==
    LET created(n) == [NoPool(pool.ver + 1) EXCEPT !.live = TRUE, !.range = DefaultRange, !.next = n]
        fresh == created(DefaultRange[1])
    IN  /\ NeedsPool
        /\ ~seenPool.live /\ ~pool.live
        /\ \/ GrantFrom(fresh)
           \/ PickID(fresh, used) = 0 /\ pool' = fresh /\ AllocFail /\ UNCHANGED bounds
           \/ /\ Edit("range")
              /\ \E n \in {0, DefaultRange[1]} : pool' = created(n)
              /\ UNCHANGED <<secrules, caches, queue, locals, history>>

\* The create was refused because the pool exists, and the cache still lacks it;
\* or the pool is exhausted.
PoolUnusable ==
    /\ NeedsPool
    /\ \/ ~seenPool.live /\ pool.live
       \/ seenPool.live /\ PickID(seenPool, used) = 0
    /\ AllocFail
    /\ UNCHANGED <<pool, bounds>>

\* Too many conflicts: the cache has not caught up in 32 attempts.
TooManyConflicts ==
    /\ NeedsPool
    /\ seenPool.live /\ seenPool # pool
    /\ PickID(seenPool, used) # 0
    /\ Stale
    /\ AllocFail
    /\ UNCHANGED pool

Labelled == syncSecRuleLabels(sr, primary(ids), idSource(sr))
AllResolved == pc = "alloc" /\ Len(ids) = Len(sr.spec)

\* Every rule has an id: labels and annotation are written if they change.
SyncLabels ==
    /\ AllResolved /\ Labelled # sr
    /\ IF Accepts(cur, sr.ver)
       THEN /\ Store(cur, Labelled)
            /\ pc' = "labelled" /\ used' = {}
            /\ UNCHANGED <<queue, cur, sr, ids>>
       ELSE ReturnErr /\ UNCHANGED secrules
    /\ UNCHANGED <<pool, caches, bounds, history>>

\* Render, validate, and write the ids into the status of o, the object read
\* last.  A conversion failure ends the reconcile whatever the write does.
UpdateStatus(o) ==
    /\ \E cond \in {"Rendered", "ConvertFailed", "DataFileLookupFailed"} :
          /\ IF cond = "DataFileLookupFailed" THEN Edit("lookup")
             ELSE (cond = "ConvertFailed") = (o.spec \in BadSpecs) /\ UNCHANGED bounds
          /\ IF Accepts(cur, o.ver) THEN Store(cur, [o EXCEPT !.ids = ids, !.cond = cond])
             ELSE UNCHANGED secrules
          /\ IF cond = "ConvertFailed" \/ (cond = "Rendered" /\ Accepts(cur, o.ver)) THEN Return
             ELSE ReturnErr
    /\ UNCHANGED <<pool, caches, history>>

\* Labels already right: the status of the object the reconcile started with.
WriteStatus == AllResolved /\ Labelled = sr /\ UpdateStatus(sr)

\* After a label update the object is read again from the cache.
RefetchWriteStatus ==
    /\ pc = "labelled"
    /\ IF seen[cur].live THEN UpdateStatus(seen[cur])
       ELSE ReturnErr /\ UNCHANGED <<api, caches, bounds, history>>

-----------------------------------------------------------------------------
Environment ==
    \/ \E s \in SecRules, sp \in Specs : CreateRule(s, sp) \/ EditSpec(s, sp)
    \/ \E s \in SecRules : DeleteRule(s) \/ LockRule(s)
    \/ \E rg \in Ranges : EditRange(rg)
    \/ Lag \/ Failover \/ mapDataFileToSecRules

Informers ==
    SyncPool \/ \E s \in SecRules : SyncRule(s)

Continue ==
    \/ Refetch \/ ResolveSticky \/ Grant \/ CreatePool \/ PoolUnusable
    \/ TooManyConflicts \/ SyncLabels \/ WriteStatus \/ RefetchWriteStatus

Reconcile ==
    Continue \/ \E s \in SecRules : Begin(s) \/ Finalize(s)

Next == Environment \/ Informers \/ Reconcile

Spec == Init /\ [][Next]_vars

\* Watches deliver and a queued key is eventually reconciled; the environment
\* owes nothing.
Fairness ==
    /\ WF_vars(SyncPool) /\ \A s \in SecRules : WF_vars(SyncRule(s))
    /\ \A s \in SecRules : SF_vars(Begin(s)) /\ SF_vars(Finalize(s))
    /\ WF_vars(Continue)

FairSpec == Spec /\ Fairness

-----------------------------------------------------------------------------
(* Properties.                                                              *)

\* Every variable has its type.
TypeOK ==
    /\ secrules \in [SecRules -> SecRule]
    /\ pool \in Pool
    /\ seen \in [SecRules -> SecRule] /\ seenPool \in Pool
    /\ standby \in {<<>>} \cup ([SecRules -> SecRule] \X Pool)
    /\ queue \subseteq SecRules
    /\ pc \in {"idle", "finalized", "alloc", "labelled"}
    /\ cur \in SecRules \cup {"none"} /\ (pc # "idle" => cur \in SecRules)
    /\ sr \in SecRule
    /\ used \subseteq Nat /\ ids \in Seq(Nat)
    /\ edits \in Nat /\ stale \in Nat
    /\ grants \subseteq SecRules \X (Nat \ {0}) \X Nat
    /\ wrapped \in BOOLEAN

\* Until the cursor goes back to minId, an id recorded in the status or in the
\* sticky annotation of one rule is recorded for no other rule, of the same or
\* of another SecRule, whatever the caches of the leaders that allocated them
\* showed (allocateOne; for SecRules whose ids all come from the pool).
AutoIDsUnique ==
    ~wrapped =>
       \A s, t \in SecRules :
          /\ \A i \in 1..Len(secrules[s].ids), j \in 1..Len(secrules[t].ids) :
                secrules[s].ids[i] = secrules[t].ids[j] => s = t /\ i = j
          /\ \A j \in 1..Len(secrules[t].ids) :
                secrules[s].ann # 0 /\ secrules[s].ann = secrules[t].ids[j] => s = t /\ j = 1

\* The persisted id of a rule without an explicit one never changes while the
\* object lives (the "sticky" reuse of resolveOneID), whatever older copy a
\* reconcile started from, unless that copy had an explicit id for the rule.
StickyStable ==
    [][\A s \in SecRules : \A i \in 1..Len(secrules[s].spec) :
          /\ secrules'[s].live /\ secrules[s].spec[i] = 0
          /\ i <= Len(secrules[s].ids) /\ i <= Len(secrules'[s].ids)
          => \/ secrules'[s].ids[i] = secrules[s].ids[i]
             \/ cur = s /\ sr.spec[i] > 0]_vars

\* An id the pool hands out lies between minId and maxId ("the last id the
\* pool may allocate (inclusive)"), as the pool's range is when it is granted.
GrantInRange ==
    [][pool' # pool /\ Len(ids') > Len(ids) =>
          EffectiveMin(pool') <= pool'.last /\ pool'.last <= EffectiveMax(pool')]_vars

\* The rules of one SecRule have different ids (metadata.id "is the unique
\* numeric identifier of the rule").
RuleIDsUnique ==
    \A s \in SecRules : \A i, j \in 1..Len(secrules[s].ids) :
       i # j => secrules[s].ids[i] # secrules[s].ids[j]

\* Once users and administrators stop, every SecRule that exists ends up with
\* an id for each of its rules, unless the pool is exhausted;
\* no conflict, stale read or ignored status write leaves it without.
EventuallyAssigned ==
    \A s \in SecRules :
       <>[](\/ ~secrules[s].live
            \/ PickID(pool, collectUsedIDs(secrules)) = 0
            \/ Len(secrules[s].ids) = Len(secrules[s].spec))

\* A SecRule marked for deletion eventually goes away (the finalizers are
\* dropped by the deletion branch of Reconcile).
EventuallyDeleted ==
    \A s \in SecRules : [](secrules[s].del => <>~secrules[s].del)
=============================================================================
