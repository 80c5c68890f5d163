------------------------------ MODULE RuleRefs ------------------------------
(***************************************************************************)
(* RuleSets and what they refer to: the resolver (internal/references2),   *)
(* the RuleSet and SecAction controllers, the admission of RuleSets and    *)
(* the reverse index that turns a RuleSet event into WAFs to reconcile.    *)
(*                                                                         *)
(* RuleSets name SecRules, SecActions and other RuleSets, by name or by    *)
(* label.  Two workers resolve them concurrently: the RuleSet controller   *)
(* for a RuleSet's status, the WAF controller for the rules it assembles.  *)
(* Both lock what they reach with the finalizer ruleSetRef.kubewaf.io, and *)
(* so touch objects that the SecAction and RuleSet controllers are working *)
(* on.  The back-reference lockObject also sets is a status field sent to  *)
(* the main resource; the API server drops it, so it is not part of the    *)
(* state, and the clean-up of back-references finds none.                  *)
(*                                                                         *)
(* Reads are current here: WAFDataplane and SecRuleIDPool are about reads  *)
(* that lag.  The graph of RuleSets is acyclic (NoCycle): nothing rejects  *)
(* a cycle, and reconcileRefs does not return on one.                      *)
(***************************************************************************)
EXTENDS Integers, FiniteSets, Sequences, SequencesExt, FiniteSetsExt

CONSTANTS
    RuleSets, SecRules, SecActions, Wafs,  \* identities of objects
    NsOf, NameOf,     \* namespace and name of every object, as lexicographic ranks
    OrderOf, IDsOf,   \* spec.order; the ids of the status, the metadata and the bag's rules
    Labelled,         \* the objects that carry the label the selectors ask for
    SharedNs,         \* the namespaces that allowedRules selectors match
    WafRefs,          \* spec.ruleSetRefs of every WAF
    Specs,            \* the RuleSet specs users write
    StartGraphs,      \* the settled RuleSets to start from
    MaxEdits          \* bound on user steps and failed calls

Leaves == SecRules \cup SecActions
Objects == RuleSets \cup Leaves
KindOf(o) == CASE o \in RuleSets -> "RuleSet" [] o \in SecRules -> "SecRule"
               [] o \in SecActions -> "SecAction" [] o \in Wafs -> "WAF"

VARIABLES
    rset,       \* API server: RuleSets
    leaf,       \* API server: SecRules and SecActions
    rq, rwork,  \* RuleSet controller: queued keys, worker
    aq, awork,  \* SecAction controller: queued keys, worker
    events,     \* RuleSet events the WAF controller's watch has not mapped yet
    wq, seen,   \* WAF controller: queued keys; the RuleSet specs each WAF was last built from
    edits       \* user steps and failed calls left

vars == <<rset, leaf, rq, rwork, aq, awork, events, wq, seen, edits>>

-----------------------------------------------------------------------------
(* Objects.                                                                 *)

\* sel: a reference by label, otherwise by name; ns 0 is the owner's.
RuleRef == [kind: {"", "RuleSet", "SecRule", "SecAction", "ConfigMap"}, name: Nat, ns: Nat,
            sel: BOOLEAN]
Spec0 == [refs |-> <<>>, from |-> "Same"]

\* cond is ReferencesResolved, obs its observedGeneration, rules and actions
\* the counts of the status; fin and lock are the two finalizers.
NoSet == [live |-> FALSE, del |-> FALSE, fin |-> FALSE, lock |-> FALSE, gen |-> 0, spec |-> Spec0,
          cond |-> "", obs |-> 0, rules |-> 0, actions |-> 0]
NewSet(spec, g) == [NoSet EXCEPT !.live = TRUE, !.gen = g, !.spec = spec]

\* body: what the converter and Coraza make of a SecAction; tagged: its labels
\* are in step with its metadata; ready, obs: the Ready condition.
NoLeaf == [live |-> FALSE, del |-> FALSE, fin |-> FALSE, lock |-> FALSE, gen |-> 0, body |-> "loads",
           tagged |-> FALSE, ready |-> "", obs |-> 0]
NewLeaf(body, g) == [NoLeaf EXCEPT !.live = TRUE, !.gen = g, !.body = body]

Live(o) == IF o \in RuleSets THEN rset[o].live ELSE leaf[o].live
Deleting(o) == IF o \in RuleSets THEN rset[o].del ELSE leaf[o].del
Locked(o) == IF o \in RuleSets THEN rset[o].lock ELSE leaf[o].lock

-----------------------------------------------------------------------------
(* Admission (internal/webhook).                                            *)

ValidateRuleRef(ref, owner) ==
    /\ (ref.name # 0) # ref.sel
    /\ ref.kind \in IF owner = "WAF" THEN {"", "RuleSet"}
                    ELSE {"", "SecRule", "SecAction", "RuleSet", "ConfigMap"}
ValidateRuleRefs(refs, owner) == \A i \in DOMAIN refs : ValidateRuleRef(refs[i], owner)

\* "Selector" stands for from=Selector with a selector, "Bare" for one without.
ValidateAllowedRules(from) == from \in {"", "All", "Same", "Selector", "None"}
ValidateRuleSet(spec) == ValidateRuleRefs(spec.refs, "RuleSet") /\ ValidateAllowedRules(spec.from)

-----------------------------------------------------------------------------
(* The resolver.  An owner is a WAF or a RuleSet as its reader holds it:    *)
(* kind, namespace, allowedRules.from.                                      *)

WafOwner(w) == [kind |-> "WAF", ns |-> NsOf[w], from |-> ""]
SetOwner(r, spec) == [kind |-> "RuleSet", ns |-> NsOf[r], from |-> spec.from]

applyRuleRefDefaults(ref, ns) ==
    [ref EXCEPT !.ns = IF @ = 0 THEN ns ELSE @, !.kind = IF @ = "" THEN "RuleSet" ELSE @]

\* A selector lists every namespace, in the API server's order; it may find nothing.
Listed(objs) == SetToSortSeq(objs, LAMBDA x, y : \/ NsOf[x] < NsOf[y]
                                                 \/ NsOf[x] = NsOf[y] /\ NameOf[x] < NameOf[y])
lookupRef(ref) ==
    LET named == {o \in Objects : Live(o) /\ KindOf(o) = ref.kind /\ NsOf[o] = ref.ns
                                          /\ NameOf[o] = ref.name}
        selected == {o \in Objects \cap Labelled : Live(o) /\ KindOf(o) = ref.kind}
    IN IF ref.sel THEN [ok |-> TRUE, items |-> Listed(selected)]
       ELSE [ok |-> named # {}, items |-> IF named = {} THEN <<>> ELSE <<CHOOSE o \in named : TRUE>>]

allowedObject(o, owner) ==
    \/ NsOf[o] = owner.ns
    \/ owner.kind # "RuleSet"
    \/ owner.from = "All"
    \/ owner.from = "Selector" /\ NsOf[o] \in SharedNs

\* What one call of reconcileRefs returns: the objects in order, whether there was
\* no reference error, and the objects lockObject was called for.
Nothing == [objs |-> <<>>, ok |-> TRUE, locks |-> {}]
Broken == [Nothing EXCEPT !.ok = FALSE]
\* Fault: the objects of a nested RuleSet replace the ones found before.
JoinedLast(x, y) == IF y.objs = <<>> THEN x ELSE [y EXCEPT !.ok = x.ok /\ y.ok]
Joined(x, y) == [objs |-> x.objs \o y.objs, ok |-> x.ok /\ y.ok, locks |-> x.locks \cup y.locks]

\* lockObject cannot add its finalizer to an object that is being deleted.
Lockable(o) == ~Deleting(o) \/ Locked(o)

\* The calls about the objects in down fail: their lookup, the read of their
\* namespace, or the Update that locks them.  Each is a reference error as well.
RECURSIVE reconcileRefs(_, _, _, _)
reconcileRefs(refs, owner, lock, down) ==
    LET visit(o) ==
            IF o \in down \/ ~allowedObject(o, owner) \/ (lock /\ ~Lockable(o)) THEN Broken
            ELSE Joined(IF o \in RuleSets
                        THEN reconcileRefs(rset[o].spec.refs, SetOwner(o, rset[o].spec), lock, down)
                        ELSE Nothing,
                        [objs |-> <<o>>, ok |-> TRUE, locks |-> {o}])
        expand(ref) ==
            LET found == lookupRef(applyRuleRefDefaults(ref, owner.ns))
            IN IF ~found.ok THEN Broken
               ELSE FoldLeft(Joined, Nothing, [i \in DOMAIN found.items |-> visit(found.items[i])])
    IN FoldLeft(Joined, Nothing, [i \in DOMAIN refs |-> expand(refs[i])])

AddUpdateReconcile(refs, owner, down) == reconcileRefs(refs, owner, TRUE, down)
Resolve(refs, owner) == reconcileRefs(refs, owner, FALSE, {})

CountSecLangObjects(objs) ==
    [rules |-> Len(SelectSeq(objs, LAMBDA o : o \in SecRules)),
     actions |-> Len(SelectSeq(objs, LAMBDA o : o \in SecActions))]

MaxInt32 == 2147483647
FirstID(ids) == LET set == SelectSeq(ids, LAMBDA i : i > 0) IN IF set = <<>> THEN MaxInt32 ELSE Head(set)
secRuleSortKey(o) == IF OrderOf[o] # 0 THEN OrderOf[o] ELSE FirstID(IDsOf[o])
secActionSortKey(o) == FirstID(IDsOf[o])
SortKey(o) == IF o \in SecRules THEN secRuleSortKey(o) ELSE secActionSortKey(o)

\* "SecAction" < "SecRule".
Before(x, y) ==
    \/ SortKey(x) < SortKey(y)
    \/ SortKey(x) = SortKey(y) /\ NameOf[x] < NameOf[y]
    \/ SortKey(x) = SortKey(y) /\ NameOf[x] = NameOf[y] /\ x \in SecActions /\ y \in SecRules

\* A stable insertion of every SecRule and SecAction, which is what SliceStable computes.
Insert(s, o) ==
    LET n == Len(SelectSeq(s, LAMBDA x : ~Before(o, x)))
    IN SubSeq(s, 1, n) \o <<o>> \o SubSeq(s, n + 1, Len(s))
\* Fault: the rules are taken in the order in which they were resolved.
GetSecLangUnsorted(objs) == SelectSeq(objs, LAMBDA o : o \in Leaves)
GetSecLang(objs) == FoldLeft(Insert, <<>>, SelectSeq(objs, LAMBDA o : o \in Leaves))

-----------------------------------------------------------------------------
(* The reverse index (internal/dataplane/index).                            *)

\* The RuleSets a list of references names; selectors are not indexed.
RuleRefIndexKeys(refs, ns) ==
    {r \in RuleSets : \E i \in DOMAIN refs :
        LET ref == applyRuleRefDefaults(refs[i], ns)
        IN ~ref.sel /\ ref.kind = "RuleSet" /\ ref.ns = NsOf[r] /\ ref.name = NameOf[r]}

collectWAFsForRuleSet(r) == {w \in Wafs : r \in RuleRefIndexKeys(WafRefs[w], NsOf[w])}
Parents(r) == {p \in RuleSets : rset[p].live /\ r \in RuleRefIndexKeys(rset[p].spec.refs, NsOf[p])}
\* Fault: the WAFs that name the RuleSet, and no parent.
MapDirectToWAFs(r) == collectWAFsForRuleSet(r)
MapRuleSetToWAFs(r) ==
    collectWAFsForRuleSet(r) \cup UNION {collectWAFsForRuleSet(p) : p \in Parents(r)}

-----------------------------------------------------------------------------
(* Writes of objects and the events they cause.                             *)

Idle == [pc |-> "idle", key |-> "", fresh |-> FALSE, spec |-> Spec0, gen |-> 0, ok |-> TRUE,
         rules |-> 0, actions |-> 0]
\* The worker's copy of an object is out of date once somebody else writes it.
Outdate(w, keys) == IF w.key \in keys THEN [w EXCEPT !.fresh = FALSE] ELSE w

\* An object goes when it is being deleted and its last finalizer is removed.
Stored(x, none) == IF x.del /\ ~x.fin /\ ~x.lock THEN none ELSE x
StoredSet(x) == Stored(x, NoSet)
StoredLeaf(x) == Stored(x, NoLeaf)

\* The locks of one resolution land: all but the lost ones, refused by a conflict.
LockAll(locks, lost) ==
    LET hit == {o \in locks \ lost : ~Locked(o)}
    IN /\ rset' = [r \in RuleSets |-> IF r \in hit THEN [rset[r] EXCEPT !.lock = TRUE] ELSE rset[r]]
       /\ leaf' = [l \in Leaves |-> IF l \in hit THEN [leaf[l] EXCEPT !.lock = TRUE] ELSE leaf[l]]
       /\ rq' = rq \cup (hit \cap RuleSets)
       /\ aq' = aq \cup (hit \cap SecActions)
       /\ events' = events \cup (hit \cap RuleSets)
       /\ awork' = Outdate(awork, hit)

\* The conflicts that may occur: somebody wrote the object while it was being locked.
Conflicts(locks) == SUBSET {o \in locks : ~Locked(o) /\ (o \in rq \/ o \in aq \/ o \in {awork.key})}

\* A user or a controller writes RuleSet r; the write of the RuleSet worker keeps its copy.
WriteSet(r, x) ==
    /\ rset' = [rset EXCEPT ![r] = StoredSet(x)]
    /\ IF rset'[r] = rset[r] THEN UNCHANGED events ELSE events' = events \cup {r}

-----------------------------------------------------------------------------
\* The operator has settled: every RuleSet of a start graph g resolves, is locked
\* where something refers to it (g.used), and every SecAction is rendered.
Init ==
    \E g \in StartGraphs :
        /\ rset = [r \in RuleSets |->
                     IF r \notin DOMAIN g.sets THEN NoSet
                     ELSE [NewSet(g.sets[r].spec, 1) EXCEPT !.fin = TRUE, !.lock = r \in g.used,
                              !.obs = 1, !.cond = "True", !.rules = g.sets[r].rules,
                              !.actions = g.sets[r].actions]]
        /\ leaf = [l \in Leaves |-> [NewLeaf("loads", 1) EXCEPT !.fin = TRUE, !.lock = l \in g.used,
                              !.tagged = TRUE, !.obs = 1, !.ready = "True"]]
        /\ seen = [w \in Wafs |-> [r \in RuleSets |-> rset[r].gen]]
        /\ rq = {} /\ rwork = Idle /\ aq = {} /\ awork = Idle
        /\ events = {} /\ wq = {} /\ edits = MaxEdits

User == edits > 0 /\ edits' = edits - 1
\* The objects whose calls fail during one resolution: none, or one it reaches.
Outages(refs, owner) == {{}} \cup {{o} : o \in AddUpdateReconcile(refs, owner, {}).locks}
Stamp == MaxEdits + 2 - edits

\* A cycle is not refused by any check; it is left out.
RECURSIVE Reaches(_, _)
Reaches(from, to) ==
    \E r \in RuleRefIndexKeys(rset[from].spec.refs, NsOf[from]) : r = to \/ Reaches(r, to)
NoCycle(r, spec) ==
    \A s \in RuleRefIndexKeys(spec.refs, NsOf[r]) : s # r /\ ~Reaches(s, r)

\* Create, or replace the spec of, a RuleSet.
EditRuleSet(r, spec) ==
    /\ User
    /\ ValidateRuleSet(spec) /\ NoCycle(r, spec)
    /\ spec # rset[r].spec \/ ~rset[r].live
    /\ WriteSet(r, IF rset[r].live THEN [rset[r] EXCEPT !.spec = spec, !.gen = Stamp]
                   ELSE NewSet(spec, Stamp))
    /\ rq' = rq \cup {r} /\ rwork' = Outdate(rwork, {r})
    /\ UNCHANGED <<leaf, aq, awork, wq, seen>>

DeleteRuleSet(r) ==
    /\ User
    /\ rset[r].live /\ ~rset[r].del
    /\ WriteSet(r, [rset[r] EXCEPT !.del = TRUE])
    /\ rq' = rq \cup {r} /\ rwork' = Outdate(rwork, {r})
    /\ UNCHANGED <<leaf, aq, awork, wq, seen>>

EditSecAction(a, body) ==
    /\ User
    /\ ~leaf[a].live \/ body # leaf[a].body
    /\ leaf' = [leaf EXCEPT ![a] = IF @.live THEN [@ EXCEPT !.body = body, !.gen = Stamp, !.tagged = FALSE]
                                   ELSE NewLeaf(body, Stamp)]
    /\ aq' = aq \cup {a} /\ awork' = Outdate(awork, {a})
    /\ UNCHANGED <<rset, rq, rwork, events, wq, seen>>

DeleteLeaf(l) ==
    /\ User
    /\ leaf[l].live /\ ~leaf[l].del
    /\ leaf' = [leaf EXCEPT ![l] = StoredLeaf([@ EXCEPT !.del = TRUE])]
    /\ aq' = aq \cup ({l} \cap SecActions) /\ awork' = Outdate(awork, {l})
    /\ UNCHANGED <<rset, rq, rwork, events, wq, seen>>

\* The SecRule controller drops both finalizers of a SecRule (SecRuleIDPool!Finalize).
SecRuleFinalize(l) ==
    /\ l \in SecRules /\ leaf[l].del
    /\ leaf' = [leaf EXCEPT ![l] = NoLeaf]
    /\ UNCHANGED <<rset, rq, rwork, aq, awork, events, wq, seen, edits>>

-----------------------------------------------------------------------------
(* The RuleSet controller.                                                  *)

\* Fault: the finalizer is not added.
RuleSetBeginBare(r) ==
    /\ rwork.pc = "idle" /\ r \in rq
    /\ rq' = rq \ {r}
    /\ rwork' = IF ~rset[r].live THEN rwork
                ELSE [Idle EXCEPT !.pc = IF rset[r].del THEN "cleanup" ELSE "resolve", !.key = r,
                                  !.fresh = TRUE, !.spec = rset[r].spec, !.gen = rset[r].gen]
    /\ UNCHANGED <<rset, events, leaf, aq, awork, wq, seen, edits>>
\* InitHandler, and the finalizer when it was missing; the event of that write
\* queues the key again.
RuleSetBegin(r) ==
    /\ rwork.pc = "idle" /\ r \in rq
    /\ LET x == rset[r] IN
       IF ~x.live THEN rq' = rq \ {r} /\ UNCHANGED <<rset, events, rwork>>
       ELSE /\ rwork' = [Idle EXCEPT !.pc = IF x.del THEN "cleanup" ELSE "resolve", !.key = r,
                                     !.fresh = TRUE, !.spec = x.spec, !.gen = x.gen]
            /\ IF x.del \/ x.fin THEN rq' = rq \ {r} /\ UNCHANGED <<rset, events>>
               ELSE rq' = rq /\ WriteSet(r, [x EXCEPT !.fin = TRUE])
    /\ UNCHANGED <<leaf, aq, awork, wq, seen, edits>>

\* A write outside the resolution fails; the key is queued again.
RuleSetRetry ==
    /\ rwork.pc \in {"cleanup", "status"} /\ User
    /\ rq' = rq \cup {rwork.key} /\ rwork' = Idle
    /\ UNCHANGED <<rset, leaf, aq, awork, events, wq, seen>>

\* CleanupBackReferences finds no stored back-reference; then the finalizer goes,
\* unless the RuleSet was written since it was read.
RuleSetRelease ==
    /\ rwork.pc = "cleanup"
    /\ rwork' = Idle
    /\ IF rwork.fresh
       THEN WriteSet(rwork.key, [rset[rwork.key] EXCEPT !.fin = FALSE])
            /\ rq' = rq \cup IF rset' # rset THEN {rwork.key} ELSE {}
       ELSE rq' = rq \cup {rwork.key} /\ UNCHANGED <<rset, events>>
    /\ UNCHANGED <<leaf, aq, awork, wq, seen, edits>>

\* ruleRefHandler: resolve and lock from the copy that was read, and count.  A
\* failed call is recorded with ReferencesResolved and not retried.
RuleSetResolve ==
    /\ rwork.pc = "resolve"
    /\ \E down \in Outages(rwork.spec.refs, SetOwner(rwork.key, rwork.spec)) :
       LET res == AddUpdateReconcile(rwork.spec.refs, SetOwner(rwork.key, rwork.spec), down)
           n == CountSecLangObjects(res.objs)
       IN \E lost \in Conflicts(res.locks) :
            /\ LockAll(res.locks, lost)
            /\ rwork' = [rwork EXCEPT !.pc = "status", !.ok = res.ok, !.rules = n.rules,
                                      !.actions = n.actions]
            /\ IF down = {} THEN UNCHANGED edits ELSE User
    /\ UNCHANGED <<wq, seen>>

\* Fault: the status is left alone when the outcome is the one it shows.
RuleSetStatusIfChanged ==
    /\ rwork.pc = "status"
    /\ rwork' = Idle
    /\ IF rwork.fresh /\ rset[rwork.key].cond # IF rwork.ok THEN "True" ELSE "False"
       THEN WriteSet(rwork.key, [rset[rwork.key] EXCEPT !.obs = rwork.gen,
                !.cond = IF rwork.ok THEN "True" ELSE "False", !.rules = rwork.rules,
                !.actions = rwork.actions])
            /\ rq' = rq \cup {rwork.key}
       ELSE rq' = rq \cup (IF rwork.fresh THEN {} ELSE {rwork.key}) /\ UNCHANGED <<rset, events>>
    /\ UNCHANGED <<leaf, aq, awork, wq, seen, edits>>
RuleSetStatus ==
    /\ rwork.pc = "status"
    /\ rwork' = Idle
    /\ IF rwork.fresh
       THEN WriteSet(rwork.key, [rset[rwork.key] EXCEPT !.obs = rwork.gen,
                !.cond = IF rwork.ok THEN "True" ELSE "False", !.rules = rwork.rules,
                !.actions = rwork.actions])
            /\ rq' = rq \cup IF rset' # rset THEN {rwork.key} ELSE {}
       ELSE rq' = rq \cup {rwork.key} /\ UNCHANGED <<rset, events>>
    /\ UNCHANGED <<leaf, aq, awork, wq, seen, edits>>

-----------------------------------------------------------------------------
(* The SecAction controller.                                                *)

\* The key of a SecAction that is gone is an error, queued again for ever.
SecActionBegin(a) ==
    /\ awork.pc = "idle" /\ a \in aq
    /\ LET x == leaf[a] IN
       IF ~x.live THEN UNCHANGED <<leaf, aq, awork>>
       ELSE /\ awork' = [Idle EXCEPT !.pc = IF x.del THEN "release" ELSE "labels", !.key = a,
                                     !.fresh = TRUE, !.gen = x.gen]
            /\ leaf' = [leaf EXCEPT ![a].fin = @ \/ ~x.del]
            /\ aq' = IF leaf' = leaf THEN aq \ {a} ELSE aq
    /\ UNCHANGED <<rset, rq, rwork, events, wq, seen, edits>>

\* The worker writes x to its SecAction and goes on to step pc, with what the
\* server returned; a conflict ends the reconcile with an error.
SecActionWrite(x, pc) ==
    LET a == awork.key IN
    /\ IF awork.fresh
       THEN /\ leaf' = [leaf EXCEPT ![a] = StoredLeaf(x)]
            /\ aq' = aq \cup IF leaf' # leaf THEN {a} ELSE {}
            /\ awork' = IF pc = "idle" THEN Idle ELSE [awork EXCEPT !.pc = pc]
       ELSE leaf' = leaf /\ aq' = aq \cup {a} /\ awork' = Idle
    /\ UNCHANGED <<rset, rq, rwork, events, wq, seen, edits>>

\* Fault: deletion removes the controller's own finalizer only.
SecActionReleaseOwn ==
    /\ awork.pc = "release"
    /\ SecActionWrite([leaf[awork.key] EXCEPT !.fin = FALSE], "idle")
SecActionRelease ==
    /\ awork.pc = "release"
    /\ SecActionWrite([leaf[awork.key] EXCEPT !.fin = FALSE, !.lock = FALSE], "idle")

\* syncSecRuleLabels: an Update only when a label differs.  Either way the
\* reconcile goes on with the SecAction as it is read then.
SecActionLabels ==
    /\ awork.pc = "labels"
    /\ IF leaf[awork.key].tagged /\ awork.fresh
       THEN awork' = [awork EXCEPT !.pc = "status"]
            /\ UNCHANGED <<rset, leaf, rq, rwork, aq, events, wq, seen, edits>>
       ELSE SecActionWrite([leaf[awork.key] EXCEPT !.tagged = TRUE], "status")

\* Fault: the status is left alone when the outcome is the one it shows.
SecActionStatusIfChanged ==
    /\ awork.pc = "status"
    /\ IF leaf[awork.key].body = "broken" /\ awork.fresh
       THEN aq' = aq \cup {awork.key} /\ awork' = Idle
            /\ UNCHANGED <<rset, leaf, rq, rwork, events, wq, seen, edits>>
       ELSE LET ready == IF leaf[awork.key].body = "loads" THEN "True" ELSE "False" IN
            SecActionWrite([leaf[awork.key] EXCEPT !.ready = ready,
                               !.obs = IF leaf[awork.key].ready = ready THEN @ ELSE awork.gen], "idle")
\* A SecAction that does not convert is retried; otherwise Ready is what Coraza says.
SecActionStatus ==
    /\ awork.pc = "status"
    /\ IF leaf[awork.key].body = "broken" /\ awork.fresh
       THEN aq' = aq \cup {awork.key} /\ awork' = Idle
            /\ UNCHANGED <<rset, leaf, rq, rwork, events, wq, seen, edits>>
       ELSE SecActionWrite([leaf[awork.key] EXCEPT !.obs = awork.gen,
                !.ready = IF leaf[awork.key].body = "loads" THEN "True" ELSE "False"], "idle")

-----------------------------------------------------------------------------
(* The WAF controller's watch, and the resolution at the head of its build. *)

MapEvent(r) ==
    /\ r \in events
    /\ events' = events \ {r} /\ wq' = wq \cup MapRuleSetToWAFs(r)
    /\ UNCHANGED <<rset, leaf, rq, rwork, aq, awork, seen, edits>>

\* Unresolved references end the reconcile without an error.
WafResolve(w) ==
    /\ w \in wq
    /\ wq' = wq \ {w}
    /\ \E down \in Outages(WafRefs[w], WafOwner(w)) :
       LET res == AddUpdateReconcile(WafRefs[w], WafOwner(w), down)
       IN \E lost \in Conflicts(res.locks) :
            /\ LockAll(res.locks, lost)
            /\ rwork' = Outdate(rwork, {o \in res.locks \ lost : ~Locked(o)})
            /\ IF down = {} THEN UNCHANGED edits ELSE User
    /\ seen' = [seen EXCEPT ![w] = [r \in RuleSets |-> rset[r].gen]]

-----------------------------------------------------------------------------
Next ==
    \/ \E r \in RuleSets, spec \in Specs : EditRuleSet(r, spec)
    \/ \E r \in RuleSets : DeleteRuleSet(r)
    \/ \E a \in SecActions, body \in {"loads", "refused", "broken"} : EditSecAction(a, body)
    \/ \E l \in Leaves : DeleteLeaf(l) \/ SecRuleFinalize(l)
    \/ \E r \in RuleSets : RuleSetBegin(r) \/ MapEvent(r)
    \/ RuleSetRetry \/ RuleSetRelease \/ RuleSetResolve \/ RuleSetStatus
    \/ \E a \in SecActions : SecActionBegin(a)
    \/ SecActionRelease \/ SecActionLabels \/ SecActionStatus
    \/ \E w \in Wafs : WafResolve(w)

\* Every queued key is taken up, and what is taken up or queued is finished: the
\* steps of a worker, of the event handlers and of the WAF controller never block.
Fairness ==
    /\ \A r \in RuleSets : SF_vars(RuleSetBegin(r)) /\ []<>(r \notin events)
    /\ \A a \in SecActions : SF_vars(SecActionBegin(a))
    /\ []<>(rwork.pc = "idle") /\ []<>(awork.pc = "idle")
    /\ \A w \in Wafs : []<>(w \notin wq)
    /\ \A l \in SecRules : WF_vars(SecRuleFinalize(l))

Spec == Init /\ [][Next]_vars /\ Fairness

-----------------------------------------------------------------------------
(* Properties.                                                              *)

\* The objects one reference of an owner leads to, and whether it leads anywhere.
Targets(ref, owner) ==
    {o \in Objects : /\ Live(o)
                     /\ KindOf(o) = IF ref.kind = "" THEN "RuleSet" ELSE ref.kind
                     /\ IF ref.sel THEN o \in Labelled
                        ELSE NameOf[o] = ref.name /\ NsOf[o] = IF ref.ns = 0 THEN owner.ns ELSE ref.ns}
Permitted(o, owner) ==
    owner.kind = "RuleSet" /\ NsOf[o] # owner.ns =>
        owner.from \in {"All"} \cup (IF NsOf[o] \in SharedNs THEN {"Selector"} ELSE {})
Edges(refs, owner) ==
    {e \in (DOMAIN refs) \X Objects : e[2] \in Targets(refs[e[1]], owner) /\ Permitted(e[2], owner)}

\* The number of chains of permitted references that lead from an owner to l.
RECURSIVE Chains(_, _, _)
Chains(refs, owner, l) ==
    MapThenSumSet(LAMBDA e : (IF e[2] = l THEN 1 ELSE 0)
                    + (IF e[2] \in RuleSets
                       THEN Chains(rset[e[2]].spec.refs, SetOwner(e[2], rset[e[2]].spec), l) ELSE 0),
                  Edges(refs, owner))

\* Every reference on every chain leads somewhere and only where it may.
RECURSIVE Sound(_, _)
Sound(refs, owner) ==
    /\ \A i \in DOMAIN refs : /\ refs[i].sel \/ Targets(refs[i], owner) # {}
                              /\ \A o \in Targets(refs[i], owner) : Permitted(o, owner)
    /\ \A e \in Edges(refs, owner) : e[2] \in RuleSets =>
           Sound(rset[e[2]].spec.refs, SetOwner(e[2], rset[e[2]].spec))

\* Types; what a controller has reported on holds its finalizer; what is gone left nothing.
TypeOK ==
    /\ \A r \in RuleSets : /\ rset[r].gen \in 0..(MaxEdits + 2)
                           /\ rset[r].cond \in {"", "True", "False"} /\ rset[r].obs <= rset[r].gen
                           /\ ~rset[r].live => rset[r] = NoSet
                           /\ rset[r].obs > 0 => rset[r].fin \/ rset[r].del
    /\ \A l \in Leaves : leaf[l].obs <= leaf[l].gen /\ (~leaf[l].live => leaf[l] = NoLeaf)
    /\ rq \subseteq RuleSets /\ aq \subseteq SecActions /\ events \subseteq RuleSets /\ wq \subseteq Wafs
    /\ rwork.pc \in {"idle", "cleanup", "resolve", "status"}
    /\ awork.pc \in {"idle", "release", "labels", "status"}

\* reconcileRefs returns a SecRule or SecAction once for every chain of permitted
\* references from the WAF to it, nested RuleSets and selectors included, and
\* reports no error exactly when no reference on such a chain is broken.
ResolvesChains ==
    rwork = Idle /\ awork = Idle =>
    \A w \in Wafs :
        LET res == Resolve(WafRefs[w], WafOwner(w)) IN
        /\ \A l \in Leaves : Cardinality({i \in DOMAIN res.objs : res.objs[i] = l})
                                = Chains(WafRefs[w], WafOwner(w), l)
        /\ res.ok = Sound(WafRefs[w], WafOwner(w))

\* GetSecLang assembles the same directives in whatever order a RuleSet lists its
\* references, and in ascending order, unless two rules tie in key, name and kind.
OrderCanonical ==
    rwork = Idle /\ awork = Idle =>
    \A r \in RuleSets :
        LET assembly(refs) == GetSecLang(Resolve(refs, SetOwner(r, rset[r].spec)).objs)
            s == assembly(rset[r].spec.refs)
        IN /\ \A i, j \in DOMAIN s : i < j => SortKey(s[i]) <= SortKey(s[j])
           /\ (\A x, y \in {s[i] : i \in DOMAIN s} : x = y \/ Before(x, y) \/ Before(y, x))
                 => s = assembly(Reverse(rset[r].spec.refs))

\* The RuleSets a WAF names, and the ones they name: as far as the index looks.
Level1(w) == RuleRefIndexKeys(WafRefs[w], NsOf[w])
Level2(w) == UNION {RuleRefIndexKeys(rset[r].spec.refs, NsOf[r]) : r \in Level1(w)}

\* Once every RuleSet event is mapped and every queued WAF is reconciled, no WAF
\* rests on an older spec of a RuleSet within two levels of names, whichever of
\* the RuleSets between them was edited, created or deleted meanwhile.
IdleCovers ==
    events = {} /\ wq = {} =>
        \A w \in Wafs : \A r \in Level1(w) \cup Level2(w) : seen[w][r] = rset[r].gen

\* Every RuleSet ends up with ReferencesResolved for its current spec, though its
\* status updates conflict with the locks and edits of others.
RuleSetSettles ==
    \A r \in RuleSets : <>[](rset[r].live /\ ~rset[r].del => rset[r].obs = rset[r].gen)

\* Every SecAction that converts ends up with a Ready condition for its current
\* spec; a key of a deleted SecAction, retried for ever, does not starve it.
SecActionSettles ==
    \A a \in SecActions :
        <>[](leaf[a].live /\ ~leaf[a].del /\ leaf[a].body # "broken" =>
                leaf[a].obs = leaf[a].gen /\ leaf[a].tagged)

\* A deleted SecRule or SecAction goes, with the lock a resolver placed on it; a
\* deleted RuleSet goes unless a resolver has locked it.
DeletionCompletes ==
    /\ \A l \in Leaves : <>[](~leaf[l].del)
    /\ \A r \in RuleSets : <>[](rset[r].del => rset[r].lock)
=============================================================================
