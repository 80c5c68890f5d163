------------------------ MODULE SecRuleIDPoolProofs ------------------------
(***************************************************************************)
(* Proofs about the id allocation, for every set of SecRules, every pool   *)
(* range and every number of steps of the environment.                     *)
(***************************************************************************)
EXTENDS SecRuleIDPool, SequenceTheorems, WellFoundedInduction, TLAPS

-----------------------------------------------------------------------------
(* The operators of the allocation.                                         *)

\* A nonempty set of naturals has a least element.
LEMMA LeastElement ==
    ASSUME NEW T \in SUBSET Nat, T # {}
    PROVE  \E x \in T : \A y \in T : x <= y
<1> DEFINE R == {ss \in Nat \X Nat : ss[1] < ss[2]}
<1>1. IsWellFoundedOn(R, Nat)
  <2>1. OpToRel(<, Nat) = R
    BY DEF OpToRel
  <2> QED
    BY <2>1, NatLessThanWellFounded
<1>2. PICK x \in T : \A y \in T : <<y, x>> \notin R
  <2> HIDE DEF R
  <2> QED
    BY <1>1, WFMin
<1>3. \A y \in T : x <= y
  <2> SUFFICES ASSUME NEW y \in T PROVE x <= y
    OBVIOUS
  <2>1. ~(y < x)
    BY <1>2
  <2> QED
    BY <2>1
<1> QED
  BY <1>3

\* findFree: what it returns, when it is not 0, is a free id of the interval.
LEMMA findFreeIsFree ==
    ASSUME NEW from \in Nat, NEW to \in Int, NEW taken
    PROVE  /\ findFree(from, to, taken) \in Nat
           /\ findFree(from, to, taken) # 0 =>
                 findFree(from, to, taken) \in (from..to) \ taken
<1> DEFINE free == (from..to) \ taken
<1>1. CASE free = {}
  BY <1>1 DEF findFree
<1>2. CASE free # {}
  <2>1. \E id \in free : \A j \in free : id <= j
    <3>1. free \in SUBSET Nat
      OBVIOUS
    <3> HIDE DEF free
    <3> QED
      BY <1>2, <3>1, LeastElement
  <2>2. findFree(from, to, taken) \in free
    BY <1>2, <2>1 DEF findFree
  <2> QED
    BY <2>2
<1> QED
  BY <1>1, <1>2

\* allocateOne picks a natural number, not among the ids taken.
LEMMA PickIDIsFree ==
    ASSUME NEW p \in Pool, NEW taken
    PROVE  /\ EffectiveMin(p) \in Nat /\ EffectiveMax(p) \in Nat
           /\ Cursor(p) \in Nat /\ p.next <= Cursor(p)
           /\ PickID(p, taken) \in Nat
           /\ PickID(p, taken) # 0 => PickID(p, taken) \notin taken
<1>1. EffectiveMin(p) \in Nat /\ EffectiveMax(p) \in Nat
  BY RangesAssumption DEF EffectiveMin, EffectiveMax, Pool
<1>2. Cursor(p) \in Nat /\ p.next <= Cursor(p)
  BY <1>1 DEF Cursor, Pool
<1> QED
  BY <1>1, <1>2, findFreeIsFree DEF PickID

-----------------------------------------------------------------------------
(* Types.                                                                   *)

LEMMA NoRuleType == \A v \in Nat : NoRule(v) \in SecRule
  BY EmptySeq DEF NoRule, SecRule, Sources, Conditions

\* The writes to the pool.
LEMMA PoolWrites ==
    ASSUME NEW p \in Pool
    PROVE  /\ p.ver + 1 \in Nat
           /\ \A n \in Nat, id \in Nat : [p EXCEPT !.ver = p.ver + 1, !.next = n, !.last = id] \in Pool
           /\ \A rg \in Ranges : [p EXCEPT !.range = rg, !.ver = p.ver + 1] \in Pool
<1>1. p.ver + 1 \in Nat
  BY DEF Pool
<1>2. \A n \in Nat, id \in Nat : [p EXCEPT !.ver = p.ver + 1, !.next = n, !.last = id] \in Pool
  BY <1>1 DEF Pool
<1>3. \A rg \in Nat \X Nat : [p EXCEPT !.range = rg, !.ver = p.ver + 1] \in Pool
  BY <1>1 DEF Pool
<1> QED
  BY <1>1, <1>2, <1>3, RangesAssumption

LEMMA CreatedPool ==
    ASSUME NEW v \in Nat, NEW n \in Nat
    PROVE  [NoPool(v) EXCEPT !.live = TRUE, !.range = DefaultRange, !.next = n] \in Pool
<1>1. DefaultRange \in Nat \X Nat
  BY RangesAssumption
<1>2. NoPool(v) \in Pool
  BY DEF NoPool, Pool
<1>3. \A p \in Pool : [p EXCEPT !.live = TRUE, !.range = DefaultRange, !.next = n] \in Pool
  BY <1>1 DEF Pool
<1> QED
  BY <1>2, <1>3

\* A write leaves an object of the right type.
LEMMA StoreType ==
    ASSUME secrules \in [SecRules -> SecRule], NEW s \in SecRules, NEW o \in SecRule, Store(s, o)
    PROVE  secrules' \in [SecRules -> SecRule]
<1>1. [o EXCEPT !.ver = secrules[s].ver + 1] \in SecRule
  <2>1. secrules[s].ver + 1 \in Nat
    BY DEF SecRule
  <2> QED
    BY <2>1 DEF SecRule
<1> QED
  BY <1>1 DEF Store

\* Fields of the objects that the actions read ...
LEMMA FieldReads ==
    ASSUME NEW o \in SecRule
    PROVE  /\ o.ver \in Nat /\ o.ann \in Nat
           /\ o.spec \in Specs \cup {<<>>} /\ o.spec \in Seq(Nat) /\ o.ids \in Seq(Nat)
           /\ Len(o.spec) \in Nat /\ \A i \in 1..Len(o.spec) : o.spec[i] \in Nat
           /\ Len(o.ids) \in Nat /\ \A i \in 1..Len(o.ids) : o.ids[i] \in Nat
<1>1. o.ver \in Nat /\ o.ann \in Nat /\ o.ids \in Seq(Nat) /\ o.spec \in Specs \cup {<<>>}
  BY DEF SecRule
<1>2. <<>> \in Seq(Nat)
  BY EmptySeq
<1>3. o.spec \in Seq(Nat)
  BY <1>1, <1>2, SpecsAssumption
<1> QED
  BY <1>1, <1>3, ElementOfSeq, LenProperties

\* ... and write.
LEMMA FieldWrites ==
    ASSUME NEW o \in SecRule
    PROVE  /\ [o EXCEPT !.fin = TRUE] \in SecRule
           /\ [o EXCEPT !.del = TRUE] \in SecRule
           /\ [o EXCEPT !.ref = TRUE] \in SecRule
           /\ [o EXCEPT !.cond = "IDAllocationFailed"] \in SecRule
           /\ \A sp \in Specs : /\ [o EXCEPT !.spec = sp] \in SecRule
                                 /\ [o EXCEPT !.live = TRUE, !.spec = sp] \in SecRule
           /\ \A q \in Seq(Nat), c \in Conditions : [o EXCEPT !.ids = q, !.cond = c] \in SecRule
           /\ \A id \in Nat, src \in Sources : syncSecRuleLabels(o, id, src) \in SecRule
<1>1. /\ [o EXCEPT !.fin = TRUE] \in SecRule
      /\ [o EXCEPT !.del = TRUE] \in SecRule
      /\ [o EXCEPT !.ref = TRUE] \in SecRule
      /\ [o EXCEPT !.cond = "IDAllocationFailed"] \in SecRule
  BY DEF SecRule, Conditions
<1>2. \A sp \in Specs : /\ [o EXCEPT !.spec = sp] \in SecRule
                         /\ [o EXCEPT !.live = TRUE, !.spec = sp] \in SecRule
  BY DEF SecRule
<1>3. \A q \in Seq(Nat), c \in Conditions : [o EXCEPT !.ids = q, !.cond = c] \in SecRule
  BY DEF SecRule
<1>4. \A id \in Nat, src \in Sources : syncSecRuleLabels(o, id, src) \in SecRule
  BY DEF SecRule, syncSecRuleLabels
<1> QED
  BY <1>1, <1>2, <1>3, <1>4

LEMMA ClaimTypes ==
    ASSUME seen \in [SecRules -> SecRule]
    PROVE  collectUsedIDs(seen) \subseteq Nat
<1>1. \A o \in SecRule : Claims(o) \subseteq Nat
  <2> SUFFICES ASSUME NEW o \in SecRule PROVE Claims(o) \subseteq Nat
    OBVIOUS
  <2>1. Elements(o.ids) \subseteq Nat /\ Elements(o.spec) \subseteq Nat /\ o.ann \in Nat
    BY FieldReads DEF Elements
  <2> QED
    BY <2>1 DEF Claims
<1> QED
  BY <1>1 DEF collectUsedIDs

LEMMA StickyType ==
    ASSUME NEW o \in SecRule, NEW i \in 1..Len(o.spec)
    PROVE  StickyID(o, i) \in Nat
<1>1. i \in Nat \ {0} /\ o.spec[i] \in Nat /\ o.ann \in Nat
  BY FieldReads
<1>2. i <= Len(o.ids) => o.ids[i] \in Nat
  BY <1>1, FieldReads
<1> QED
  BY <1>1, <1>2 DEF StickyID

\* The failed end of an allocation keeps the types.
LEMMA AllocFailType ==
    ASSUME TypeOK, pc # "idle", AllocFail
    PROVE  /\ secrules' \in [SecRules -> SecRule] /\ queue' \subseteq SecRules
           /\ pc' = "idle" /\ cur' = "none" /\ sr' = NoRule(0) /\ used' = {} /\ ids' = <<>>
           /\ UNCHANGED <<caches, history>>
<1>1. [sr EXCEPT !.cond = "IDAllocationFailed"] \in SecRule
  BY FieldWrites DEF TypeOK
<1>2. secrules' \in [SecRules -> SecRule]
  BY <1>1, StoreType DEF AllocFail, TypeOK
<1> QED
  BY <1>2 DEF AllocFail, ReturnErr, Reset, TypeOK

\* A grant keeps the types.
LEMMA GrantType ==
    ASSUME TypeOK, NEW p \in Pool, NeedsPool, GrantFrom(p)
    PROVE  TypeOK'
<1> DEFINE id == PickID(p, used)
           n  == NextCursor(p, id)
<1>1. id \in Nat /\ n \in Nat
  BY PickIDIsFree DEF NextCursor
<1>2. /\ pool' = [p EXCEPT !.ver = @ + 1, !.next = n, !.last = id]
      /\ ids' = Append(ids, id)
      /\ used' = used \cup {id}
      /\ grants' = grants \cup {<<cur, Len(ids) + 1, id>>}
      /\ wrapped' \in BOOLEAN
      /\ UNCHANGED <<secrules, seen, seenPool, standby, queue, pc, cur, sr, edits, stale>>
  BY DEF GrantFrom, TypeOK, caches, bounds
<1> HIDE DEF id, n
<1>3. pool' \in Pool
  BY <1>1, <1>2, PoolWrites
<1>4. ids' \in Seq(Nat) /\ used' \subseteq Nat
  BY <1>1, <1>2, AppendProperties DEF TypeOK
<1>5. grants' \subseteq SecRules \X (Nat \ {0}) \X Nat
  <2>1. Len(ids) + 1 \in Nat \ {0} /\ cur \in SecRules
    BY LenProperties DEF TypeOK, NeedsPool
  <2> QED
    BY <1>1, <1>2, <2>1 DEF TypeOK
<1> QED
  BY <1>2, <1>3, <1>4, <1>5 DEF TypeOK

\* The status update keeps the types.
LEMMA UpdateStatusType ==
    ASSUME TypeOK, pc # "idle", NEW o \in SecRule, UpdateStatus(o)
    PROVE  TypeOK'
<1>1. PICK cond \in Conditions :
         /\ IF cond = "DataFileLookupFailed" THEN Edit("lookup")
            ELSE (cond = "ConvertFailed") = (o.spec \in BadSpecs) /\ UNCHANGED bounds
         /\ IF Accepts(cur, o.ver) THEN Store(cur, [o EXCEPT !.ids = ids, !.cond = cond])
            ELSE UNCHANGED secrules
         /\ IF cond = "ConvertFailed" \/ (cond = "Rendered" /\ Accepts(cur, o.ver)) THEN Return
            ELSE ReturnErr
  BY DEF UpdateStatus, Conditions
<1>2. secrules' \in [SecRules -> SecRule]
  <2>1. [o EXCEPT !.ids = ids, !.cond = cond] \in SecRule
    BY FieldWrites DEF TypeOK
  <2> QED
    BY <1>1, <2>1, StoreType DEF TypeOK
<1>3. edits' \in Nat /\ stale' \in Nat
  BY <1>1 DEF Edit, bounds, TypeOK
<1>4. queue' \subseteq SecRules /\ Reset
  BY <1>1 DEF Return, ReturnErr, TypeOK
<1> QED
  BY <1>2, <1>3, <1>4, NoRuleType, EmptySeq DEF UpdateStatus, Reset, TypeOK, caches, history

LEMMA LabelledType ==
    ASSUME TypeOK
    PROVE  Labelled \in SecRule
<1>1. primary(ids) \in Nat
  <2>1. ids # <<>> => 1 \in 1..Len(ids)
    BY EmptySeq DEF TypeOK
  <2> QED
    BY <2>1, ElementOfSeq DEF primary, TypeOK
<1>2. idSource(sr) \in Sources
  BY DEF idSource, Sources
<1> QED
  BY <1>1, <1>2, FieldWrites DEF Labelled, TypeOK

\* Type correctness is inductive.
LEMMA TypeStep == TypeOK /\ [Next]_vars => TypeOK'
<1> SUFFICES ASSUME TypeOK, [Next]_vars PROVE TypeOK'
  OBVIOUS
<1> USE DEF caches, bounds, history, locals, api
<1>1. ASSUME NEW s \in SecRules, NEW sp \in Specs, CreateRule(s, sp) PROVE TypeOK'
  <2>1. secrules[s].ver \in Nat
    BY FieldReads DEF TypeOK
  <2>2. secrules' \in [SecRules -> SecRule]
    BY <1>1, <2>1, NoRuleType, FieldWrites, StoreType DEF CreateRule, TypeOK
  <2> QED
    BY <1>1, <2>2 DEF CreateRule, Edit, TypeOK
<1>2. ASSUME NEW s \in SecRules, NEW sp \in Specs, EditSpec(s, sp) PROVE TypeOK'
  <2>1. secrules' \in [SecRules -> SecRule]
    BY <1>2, FieldWrites, StoreType DEF EditSpec, TypeOK
  <2> QED
    BY <1>2, <2>1 DEF EditSpec, Edit, TypeOK
<1>3. ASSUME NEW s \in SecRules, DeleteRule(s) PROVE TypeOK'
  <2>1. secrules[s] \in SecRule /\ secrules[s].ver \in Nat
    BY FieldReads DEF TypeOK
  <2>2. secrules' \in [SecRules -> SecRule]
    BY <1>3, <2>1, NoRuleType, FieldWrites, StoreType DEF DeleteRule, TypeOK
  <2> QED
    BY <1>3, <2>2 DEF DeleteRule, Edit, TypeOK
<1>4. ASSUME NEW s \in SecRules, LockRule(s) PROVE TypeOK'
  <2>1. secrules' \in [SecRules -> SecRule]
    BY <1>4, FieldWrites, StoreType DEF LockRule, TypeOK
  <2> QED
    BY <1>4, <2>1 DEF LockRule, Edit, TypeOK
<1>5. ASSUME NEW rg \in Ranges, EditRange(rg) PROVE TypeOK'
  <2>1. pool' \in Pool
    BY <1>5, PoolWrites DEF EditRange, TypeOK
  <2> QED
    BY <1>5, <2>1 DEF EditRange, Edit, TypeOK
<1>6. CASE Lag
  BY <1>6 DEF Lag, Edit, TypeOK
<1>7. CASE Failover
  <2>1. seen' \in [SecRules -> SecRule] /\ seenPool' \in Pool
    BY <1>7 DEF Failover, TypeOK
  <2>2. queue' \subseteq SecRules /\ standby' = <<>>
    BY <1>7 DEF Failover
  <2> QED
    BY <1>7, <2>1, <2>2, NoRuleType, EmptySeq DEF Failover, Reset, Edit, TypeOK
<1>8. CASE mapDataFileToSecRules
  BY <1>8 DEF mapDataFileToSecRules, Edit, TypeOK
<1>9. CASE SyncPool
  BY <1>9 DEF SyncPool, TypeOK
<1>10. ASSUME NEW s \in SecRules, SyncRule(s) PROVE TypeOK'
  BY <1>10 DEF SyncRule, TypeOK
<1>11. ASSUME NEW s \in SecRules, Begin(s) PROVE TypeOK'
  <2>1. secrules' \in [SecRules -> SecRule]
    BY <1>11, FieldWrites, StoreType DEF Begin, TypeOK
  <2>2. edits' \in Nat /\ stale' \in Nat
    BY <1>11 DEF Begin, Stale, TypeOK
  <2>3. /\ pc' \in {"finalized", "alloc"} /\ cur' = s
        /\ sr' \in SecRule /\ used' \subseteq Nat /\ ids' \in Seq(Nat)
    BY <1>11, ClaimTypes, EmptySeq DEF Begin, Allocate, TypeOK
  <2> QED
    BY <1>11, <2>1, <2>2, <2>3 DEF Begin, TypeOK
<1>12. ASSUME NEW s \in SecRules, Finalize(s) PROVE TypeOK'
  <2>1. secrules' \in [SecRules -> SecRule]
    BY <1>12, FieldReads, NoRuleType, StoreType DEF Finalize, TypeOK
  <2> QED
    BY <1>12, <2>1 DEF Finalize, TypeOK
<1>13. CASE Refetch
  <2>1. CASE seen[cur].live
    BY <1>13, <2>1, ClaimTypes, EmptySeq DEF Refetch, Allocate, TypeOK
  <2>2. CASE ~seen[cur].live
    BY <1>13, <2>2, NoRuleType, EmptySeq DEF Refetch, ReturnErr, Reset, TypeOK
  <2> QED
    BY <2>1, <2>2
<1>14. CASE ResolveSticky
  <2>1. StickyID(sr, Len(ids) + 1) \in Nat
    <3>1. Len(ids) + 1 \in 1..Len(sr.spec)
      BY <1>14, LenProperties, FieldReads DEF ResolveSticky, TypeOK
    <3> QED
      BY <3>1, StickyType DEF TypeOK
  <2>2. ids' \in Seq(Nat) /\ used' \subseteq Nat
    BY <1>14, <2>1, AppendProperties DEF ResolveSticky, TypeOK
  <2> QED
    BY <1>14, <2>2 DEF ResolveSticky, TypeOK
<1>15. CASE Grant
  BY <1>15, GrantType DEF Grant, TypeOK
<1>16. CASE CreatePool
  <2> DEFINE created(n) == [NoPool(pool.ver + 1) EXCEPT !.live = TRUE, !.range = DefaultRange, !.next = n]
             fresh == created(DefaultRange[1])
  <2>1. \A n \in {0, DefaultRange[1]} : n \in Nat
    BY RangesAssumption
  <2>2. \A n \in {0, DefaultRange[1]} : created(n) \in Pool
    BY <2>1, CreatedPool, PoolWrites DEF TypeOK
  <2>3. CASE GrantFrom(fresh)
    BY <1>16, <2>2, <2>3, GrantType DEF CreatePool
  <2>4. CASE pool' = fresh /\ AllocFail /\ UNCHANGED bounds
    BY <1>16, <2>2, <2>4, AllocFailType, NoRuleType, EmptySeq DEF CreatePool, NeedsPool, TypeOK
  <2>5. CASE /\ Edit("range")
             /\ \E n \in {0, DefaultRange[1]} : pool' = created(n)
             /\ UNCHANGED <<secrules, caches, queue, locals, history>>
    <3>1. pool' \in Pool
      BY <2>2, <2>5
    <3>2. edits' \in Nat /\ stale' \in Nat
      BY <2>5 DEF Edit, TypeOK
    <3> QED
      BY <2>5, <3>1, <3>2 DEF TypeOK
  <2> QED
    BY <1>16, <2>3, <2>4, <2>5 DEF CreatePool
<1>17. CASE PoolUnusable
  BY <1>17, AllocFailType, NoRuleType, EmptySeq DEF PoolUnusable, NeedsPool, TypeOK
<1>18. CASE TooManyConflicts
  <2>1. edits' \in Nat /\ stale' \in Nat
    BY <1>18 DEF TooManyConflicts, Stale, TypeOK
  <2> QED
    BY <1>18, <2>1, AllocFailType, NoRuleType, EmptySeq DEF TooManyConflicts, NeedsPool, TypeOK
<1>19. CASE SyncLabels
  <2>1. Labelled \in SecRule
    BY LabelledType
  <2>2. secrules' \in [SecRules -> SecRule]
    BY <1>19, <2>1, StoreType DEF SyncLabels, AllResolved, TypeOK
  <2> QED
    BY <1>19, <2>2, NoRuleType, EmptySeq DEF SyncLabels, AllResolved, ReturnErr, Reset, TypeOK
<1>20. CASE WriteStatus
  BY <1>20, UpdateStatusType DEF WriteStatus, AllResolved, TypeOK
<1>21. CASE RefetchWriteStatus
  <2>1. CASE seen[cur].live
    BY <1>21, <2>1, UpdateStatusType DEF RefetchWriteStatus, TypeOK
  <2>2. CASE ~seen[cur].live
    BY <1>21, <2>2, NoRuleType, EmptySeq DEF RefetchWriteStatus, ReturnErr, Reset, TypeOK
  <2> QED
    BY <2>1, <2>2
<1>22. CASE UNCHANGED vars
  BY <1>22 DEF vars, TypeOK
<1> QED
  BY <1>1, <1>2, <1>3, <1>4, <1>5, <1>6, <1>7, <1>8, <1>9, <1>10, <1>11, <1>12, <1>13, <1>14,
     <1>15, <1>16, <1>17, <1>18, <1>19, <1>20, <1>21, <1>22
     DEF Next, Environment, Informers, Reconcile, Continue

LEMMA InitType == Init => TypeOK
<1>1. NoPool(0) \in Pool
  BY DEF NoPool, Pool
<1> QED
  BY <1>1, NoRuleType, EmptySeq, BoundsAssumption DEF Init, TypeOK

\* Every variable of the SecRule controller and of the id allocation has its
\* type, in particular no rule is ever given an id that is not a number.
THEOREM TypeCorrect == Spec => []TypeOK
  BY InitType, TypeStep, PTL DEF Spec

-----------------------------------------------------------------------------
(* Uniqueness of the ids of the pool.  Every copy of a SecRule, wherever it *)
(* is kept, holds only ids the pool granted to that rule, and until the     *)
(* cursor wraps the pool grants increasing ids.                             *)

\* No SecRule has an explicit id.
AutoOnly == \A sp \in Specs : \A i \in 1..Len(sp) : sp[i] = 0

\* The ids of a copy o of SecRule s were granted to s.
Granted(o, s, G) ==
    /\ \A i \in 1..Len(o.ids) : <<s, i, o.ids[i]>> \in G
    /\ o.ann # 0 => <<s, 1, o.ann>> \in G

GrantsFresh ==
    /\ grants # {} => pool.live
    /\ ~wrapped => \A g \in grants : g[3] < pool.next
    /\ ~wrapped => \A g, h \in grants : g[3] = h[3] => g = h

CopiesGranted ==
    /\ \A s \in SecRules : Granted(secrules[s], s, grants) /\ Granted(seen[s], s, grants)
    /\ standby # <<>> => \A s \in SecRules : Granted(standby[1][s], s, grants)

ReconcileGranted ==
    /\ pc = "idle" => sr = NoRule(0) /\ ids = <<>>
    /\ pc # "idle" => /\ Granted(sr, cur, grants)
                      /\ \A i \in 1..Len(ids) : <<cur, i, ids[i]>> \in grants

\* The inductive invariant.
AllocInv == TypeOK /\ GrantsFresh /\ CopiesGranted /\ ReconcileGranted

LEMMA GrantedMonotonic ==
    ASSUME NEW o, NEW s, NEW G, NEW H, G \subseteq H, Granted(o, s, G)
    PROVE  Granted(o, s, H)
  BY DEF Granted

\* Only the ids and the annotation of the copy count.
LEMMA GrantedSame ==
    ASSUME NEW o, NEW q, NEW s, NEW G, Granted(o, s, G), q.ids = o.ids, q.ann = o.ann
    PROVE  Granted(q, s, G)
  BY DEF Granted

LEMMA GrantedFields ==
    ASSUME NEW o \in SecRule, NEW s, NEW G, Granted(o, s, G)
    PROVE  /\ Granted([o EXCEPT !.fin = TRUE], s, G)
           /\ Granted([o EXCEPT !.del = TRUE], s, G)
           /\ Granted([o EXCEPT !.ref = TRUE], s, G)
           /\ Granted([o EXCEPT !.cond = "IDAllocationFailed"], s, G)
           /\ \A sp \in Specs : Granted([o EXCEPT !.spec = sp], s, G)
           /\ \A v \in Nat : Granted([o EXCEPT !.ver = v], s, G)
<1> DEFINE Same(q) == q.ids = o.ids /\ q.ann = o.ann
<1>1. /\ Same([o EXCEPT !.fin = TRUE]) /\ Same([o EXCEPT !.del = TRUE]) /\ Same([o EXCEPT !.ref = TRUE])
      /\ Same([o EXCEPT !.cond = "IDAllocationFailed"])
      /\ \A sp \in Specs : Same([o EXCEPT !.spec = sp])
      /\ \A v \in Nat : Same([o EXCEPT !.ver = v])
  BY DEF SecRule
<1> QED
  BY <1>1, GrantedSame

\* A SecRule that does not exist, or is just created, holds no id.
LEMMA GrantedNone ==
    ASSUME NEW v \in Nat, NEW s, NEW G
    PROVE  /\ Granted(NoRule(v), s, G)
           /\ \A sp \in Specs : Granted([NoRule(v) EXCEPT !.live = TRUE, !.spec = sp], s, G)
<1>1. Granted(NoRule(v), s, G)
  BY DEF Granted, NoRule
<1>2. ASSUME NEW sp \in Specs
      PROVE  Granted([NoRule(v) EXCEPT !.live = TRUE, !.spec = sp], s, G)
  BY <1>1, GrantedSame DEF NoRule
<1> QED
  BY <1>1, <1>2

\* A write of an object whose ids were granted.
LEMMA StoreGranted ==
    ASSUME TypeOK, CopiesGranted, NEW s \in SecRules, NEW o \in SecRule, NEW H, grants \subseteq H,
           Granted(o, s, H), Store(s, o)
    PROVE  \A t \in SecRules : Granted(secrules'[t], t, H)
<1> SUFFICES ASSUME NEW t \in SecRules PROVE Granted(secrules'[t], t, H)
  OBVIOUS
<1>1. Granted(secrules[t], t, H)
  BY GrantedMonotonic DEF CopiesGranted
<1>2. Granted([o EXCEPT !.ver = secrules[s].ver + 1], s, H)
  <2>1. secrules[s].ver + 1 \in Nat
    BY FieldReads DEF TypeOK
  <2> QED
    BY <2>1, GrantedFields
<1> QED
  BY <1>1, <1>2 DEF Store, TypeOK

\* The parts of the invariant about stored copies, for a step that writes at
\* most one SecRule and leaves the caches and the grants alone.
LEMMA CopiesStep ==
    ASSUME TypeOK, CopiesGranted, UNCHANGED <<seen, standby, grants>>,
           UNCHANGED secrules \/ \E s \in SecRules : \E o \in SecRule :
                                    Granted(o, s, grants) /\ Store(s, o)
    PROVE  CopiesGranted'
<1>1. \A t \in SecRules : Granted(secrules'[t], t, grants)
  BY StoreGranted DEF CopiesGranted
<1> QED
  BY <1>1 DEF CopiesGranted

LEMMA FreshStep ==
    ASSUME GrantsFresh, UNCHANGED <<grants, wrapped>>,
           pool' = pool \/ (pool'.live /\ pool'.next = pool.next) \/ (~pool.live /\ pool'.live)
    PROVE  GrantsFresh'
  BY DEF GrantsFresh

\* A reconcile that ends holds nothing.
LEMMA ResetStep ==
    ASSUME Reset
    PROVE  ReconcileGranted'
  BY DEF Reset, ReconcileGranted

\* Starting to allocate for SecRule s from a cached copy.
LEMMA AllocateStep ==
    ASSUME NEW s, NEW o, Granted(o, s, grants), Allocate(o), cur' = s, UNCHANGED grants
    PROVE  ReconcileGranted'
<1>1. Len(<<>>) = 0
  BY EmptySeq
<1> QED
  BY <1>1 DEF Allocate, ReconcileGranted

\* The end of a failed allocation.
LEMMA AllocFailStep ==
    ASSUME AllocInv, NeedsPool, AllocFail
    PROVE  CopiesGranted' /\ ReconcileGranted' /\ UNCHANGED <<grants, wrapped>>
<1>1. cur \in SecRules /\ sr \in SecRule /\ Granted(sr, cur, grants)
  BY DEF AllocInv, TypeOK, NeedsPool, ReconcileGranted
<1>2. /\ [sr EXCEPT !.cond = "IDAllocationFailed"] \in SecRule
      /\ Granted([sr EXCEPT !.cond = "IDAllocationFailed"], cur, grants)
  BY <1>1, FieldWrites, GrantedFields
<1>3. UNCHANGED <<seen, standby, grants, wrapped>>
  BY DEF AllocFail, caches, history
<1>4. CopiesGranted'
  BY <1>1, <1>2, <1>3, CopiesStep DEF AllocFail, AllocInv
<1> QED
  BY <1>3, <1>4, ResetStep DEF AllocFail, ReturnErr

\* The status update writes the ids of the reconcile into a copy of its SecRule.
LEMMA UpdateStatusStep ==
    ASSUME AllocInv, pc # "idle", NEW o \in SecRule, Granted(o, cur, grants), UpdateStatus(o)
    PROVE  GrantsFresh' /\ CopiesGranted' /\ ReconcileGranted'
<1>1. cur \in SecRules /\ ids \in Seq(Nat) /\ \A i \in 1..Len(ids) : <<cur, i, ids[i]>> \in grants
  BY DEF AllocInv, TypeOK, ReconcileGranted
<1>2. PICK cond \in Conditions :
         /\ IF Accepts(cur, o.ver) THEN Store(cur, [o EXCEPT !.ids = ids, !.cond = cond])
            ELSE UNCHANGED secrules
         /\ Reset
  BY DEF UpdateStatus, Conditions, Return, ReturnErr
<1>3. /\ [o EXCEPT !.ids = ids, !.cond = cond] \in SecRule
      /\ [o EXCEPT !.ids = ids, !.cond = cond].ids = ids
      /\ [o EXCEPT !.ids = ids, !.cond = cond].ann = o.ann
  <2>1. [o EXCEPT !.ids = ids, !.cond = cond] \in SecRule
    BY <1>1, FieldWrites
  <2> QED
    BY <2>1 DEF SecRule
<1>4. Granted([o EXCEPT !.ids = ids, !.cond = cond], cur, grants)
  BY <1>1, <1>3 DEF Granted
<1>5. UNCHANGED <<pool, seen, standby, grants, wrapped>>
  BY DEF UpdateStatus, caches, history
<1>6. CopiesGranted'
  BY <1>1, <1>2, <1>3, <1>4, <1>5, CopiesStep DEF AllocInv
<1> QED
  BY <1>2, <1>5, <1>6, ResetStep, FreshStep DEF AllocInv

\* The grant: a new id, above every earlier one unless the cursor wraps.
LEMMA GrantStep ==
    ASSUME AllocInv, NeedsPool, NEW p \in Pool, p.live, pool.live => p.next = pool.next, GrantFrom(p)
    PROVE  GrantsFresh' /\ CopiesGranted' /\ ReconcileGranted'
<1> DEFINE id == PickID(p, used)
           n  == NextCursor(p, id)
           g  == <<cur, Len(ids) + 1, id>>
<1>1. id \in Nat /\ n \in Nat /\ Cursor(p) \in Nat /\ p.next \in Nat /\ p.next <= Cursor(p)
  BY PickIDIsFree DEF NextCursor, Pool
<1>2. /\ pool' = [p EXCEPT !.ver = @ + 1, !.next = n, !.last = id]
      /\ ids' = Append(ids, id)
      /\ grants' = grants \cup {g}
      /\ wrapped' = (wrapped \/ n <= id \/ id < Cursor(p))
      /\ UNCHANGED <<secrules, seen, standby, pc, cur, sr>>
  BY DEF GrantFrom, caches
<1> HIDE DEF id, n
<1>3. pool'.live /\ pool'.next = n
  BY <1>2 DEF Pool
<1>4. GrantsFresh'
  <2>1. CASE wrapped'
    BY <1>3, <2>1 DEF GrantsFresh
  <2>2. CASE ~wrapped'
    <3>1. ~wrapped /\ n > id /\ id >= p.next
      <4>1. ~wrapped /\ ~(n <= id) /\ ~(id < Cursor(p))
        BY <1>2, <2>2, Zenon
      <4> QED
        BY <1>1, <4>1
    <3>2. \A h \in grants : h[3] \in Nat /\ h[3] < id
      BY <1>1, <3>1 DEF GrantsFresh, AllocInv, TypeOK
    <3>3. g[3] = id
      OBVIOUS
    <3> HIDE DEF g
    <3>4. \A h \in grants' : h[3] < n
      BY <1>1, <1>2, <3>1, <3>2, <3>3
    <3>5. \A h, k \in grants' : h[3] = k[3] => h = k
      BY <1>1, <1>2, <3>1, <3>2, <3>3 DEF GrantsFresh, AllocInv
    <3> QED
      BY <1>3, <3>4, <3>5 DEF GrantsFresh
  <2> QED
    BY <2>1, <2>2 DEF AllocInv, TypeOK
<1>5. CopiesGranted'
  BY <1>2, GrantedMonotonic DEF CopiesGranted, AllocInv
<1>6. ReconcileGranted'
  <2>1. Granted(sr, cur, grants')
    BY <1>2, GrantedMonotonic DEF ReconcileGranted, AllocInv, NeedsPool
  <2>2. /\ ids \in Seq(Nat) /\ Len(ids) \in Nat /\ Len(ids') = Len(ids) + 1
        /\ \A i \in 1..Len(ids) : ids'[i] = ids[i]
        /\ ids'[Len(ids) + 1] = id
    BY <1>1, <1>2, AppendProperties, LenProperties DEF AllocInv, TypeOK
  <2>3. \A i \in 1..Len(ids') : <<cur, i, ids'[i]>> \in grants'
    BY <1>2, <2>2 DEF ReconcileGranted, AllocInv, NeedsPool
  <2> QED
    BY <1>2, <2>1, <2>3 DEF ReconcileGranted, NeedsPool
<1> QED
  BY <1>4, <1>5, <1>6

\* The labels and the annotation are those of the first id of the reconcile.
LEMMA LabelledGranted ==
    ASSUME TypeOK, ReconcileGranted, pc # "idle"
    PROVE  Granted(Labelled, cur, grants)
<1>1. sr \in SecRule /\ Granted(sr, cur, grants)
  BY DEF TypeOK, ReconcileGranted
<1>2. ids # <<>> => <<cur, 1, ids[1]>> \in grants
  BY EmptySeq DEF TypeOK, ReconcileGranted
<1>3. Labelled.ids = sr.ids /\ (Labelled.ann = sr.ann \/ (ids # <<>> /\ Labelled.ann = ids[1]))
  BY <1>1 DEF Labelled, syncSecRuleLabels, primary, SecRule
<1> QED
  BY <1>1, <1>2, <1>3 DEF Granted

\* AllocInv is inductive when every id comes from the pool.
LEMMA AllocStep == AutoOnly /\ AllocInv /\ [Next]_vars => AllocInv'
<1> SUFFICES ASSUME AutoOnly, AllocInv, [Next]_vars
             PROVE  GrantsFresh' /\ CopiesGranted' /\ ReconcileGranted'
  BY TypeStep DEF AllocInv
<1> USE DEF caches, bounds, history, locals, api
<1>a. /\ TypeOK /\ GrantsFresh /\ CopiesGranted /\ ReconcileGranted
      /\ \A s \in SecRules : /\ secrules[s] \in SecRule /\ Granted(secrules[s], s, grants)
                             /\ seen[s] \in SecRule /\ Granted(seen[s], s, grants)
                             /\ secrules[s].ver \in Nat /\ seen[s].ver \in Nat
  BY FieldReads DEF AllocInv, TypeOK, CopiesGranted
<1>1. ASSUME NEW s \in SecRules, NEW sp \in Specs, CreateRule(s, sp)
      PROVE  GrantsFresh' /\ CopiesGranted' /\ ReconcileGranted'
  <2>1. LET o == [NoRule(secrules[s].ver) EXCEPT !.live = TRUE, !.spec = sp]
        IN  o \in SecRule /\ Granted(o, s, grants)
    BY <1>a, NoRuleType, FieldWrites, GrantedNone
  <2> QED
    BY <1>1, <1>a, <2>1, CopiesStep, FreshStep DEF CreateRule, ReconcileGranted
<1>2. ASSUME NEW s \in SecRules, NEW sp \in Specs, EditSpec(s, sp)
      PROVE  GrantsFresh' /\ CopiesGranted' /\ ReconcileGranted'
  <2>1. [secrules[s] EXCEPT !.spec = sp] \in SecRule /\ Granted([secrules[s] EXCEPT !.spec = sp], s, grants)
    BY <1>a, FieldWrites, GrantedFields
  <2> QED
    BY <1>2, <1>a, <2>1, CopiesStep, FreshStep DEF EditSpec, ReconcileGranted
<1>3. ASSUME NEW s \in SecRules, DeleteRule(s)
      PROVE  GrantsFresh' /\ CopiesGranted' /\ ReconcileGranted'
  <2>1. /\ [secrules[s] EXCEPT !.del = TRUE] \in SecRule /\ Granted([secrules[s] EXCEPT !.del = TRUE], s, grants)
        /\ NoRule(secrules[s].ver) \in SecRule /\ Granted(NoRule(secrules[s].ver), s, grants)
    BY <1>a, NoRuleType, FieldWrites, GrantedFields, GrantedNone
  <2> QED
    BY <1>3, <1>a, <2>1, CopiesStep, FreshStep DEF DeleteRule, ReconcileGranted
<1>4. ASSUME NEW s \in SecRules, LockRule(s)
      PROVE  GrantsFresh' /\ CopiesGranted' /\ ReconcileGranted'
  <2>1. [secrules[s] EXCEPT !.ref = TRUE] \in SecRule /\ Granted([secrules[s] EXCEPT !.ref = TRUE], s, grants)
    BY <1>a, FieldWrites, GrantedFields
  <2> QED
    BY <1>4, <1>a, <2>1, CopiesStep, FreshStep DEF LockRule, ReconcileGranted
<1>5. ASSUME NEW rg \in Ranges, EditRange(rg)
      PROVE  GrantsFresh' /\ CopiesGranted' /\ ReconcileGranted'
  <2>1. pool'.live /\ pool'.next = pool.next
    BY <1>5, <1>a DEF EditRange, TypeOK, Pool
  <2> QED
    BY <1>5, <1>a, <2>1, CopiesStep, FreshStep DEF EditRange, ReconcileGranted
<1>6. CASE Lag
  <2>1. standby' = <<secrules, pool>> /\ UNCHANGED <<secrules, pool, seen, grants, wrapped, pc, cur, sr, ids>>
    BY <1>6 DEF Lag
  <2>2. standby'[1] = secrules
    BY <2>1
  <2> QED
    BY <1>a, <2>1, <2>2, FreshStep DEF CopiesGranted, ReconcileGranted
<1>7. CASE Failover
  <2>1. \A s \in SecRules : Granted(seen'[s], s, grants)
    BY <1>7, <1>a DEF Failover, CopiesGranted
  <2>2. standby' = <<>> /\ UNCHANGED <<secrules, pool, grants, wrapped>> /\ Reset
    BY <1>7 DEF Failover
  <2> QED
    BY <1>a, <2>1, <2>2, FreshStep, ResetStep DEF CopiesGranted
<1>8. CASE mapDataFileToSecRules
  BY <1>8, <1>a, FreshStep, CopiesStep DEF mapDataFileToSecRules, ReconcileGranted
<1>9. CASE SyncPool
  BY <1>9, <1>a, FreshStep, CopiesStep DEF SyncPool, ReconcileGranted
<1>10. ASSUME NEW s \in SecRules, SyncRule(s)
       PROVE  GrantsFresh' /\ CopiesGranted' /\ ReconcileGranted'
  <2>1. \A t \in SecRules : Granted(seen'[t], t, grants)
    BY <1>10, <1>a DEF SyncRule, TypeOK
  <2>2. UNCHANGED <<secrules, pool, standby, grants, wrapped, pc, cur, sr, ids>>
    BY <1>10 DEF SyncRule
  <2> QED
    BY <1>a, <2>1, <2>2, FreshStep DEF CopiesGranted, ReconcileGranted
<1>11. ASSUME NEW s \in SecRules, Begin(s)
       PROVE  GrantsFresh' /\ CopiesGranted' /\ ReconcileGranted'
  <2>1. UNCHANGED <<pool, seen, standby, grants, wrapped>> /\ cur' = s
    BY <1>11 DEF Begin
  <2>2. CASE seen[s].fin /\ Allocate(seen[s]) /\ UNCHANGED secrules
    BY <1>a, <2>1, <2>2, FreshStep, CopiesStep, AllocateStep
  <2>3. CASE /\ Store(s, [seen[s] EXCEPT !.fin = TRUE])
             /\ pc' = "finalized" /\ UNCHANGED <<sr, used, ids>>
    <3>1. [seen[s] EXCEPT !.fin = TRUE] \in SecRule /\ Granted([seen[s] EXCEPT !.fin = TRUE], s, grants)
      BY <1>a, FieldWrites, GrantedFields
    <3>2. Granted(sr, s, grants) /\ ids = <<>>
      BY <1>11, <1>a, GrantedNone DEF Begin, ReconcileGranted
    <3> QED
      BY <1>a, <2>1, <2>3, <3>1, <3>2, FreshStep, CopiesStep, EmptySeq DEF ReconcileGranted
  <2> QED
    BY <1>11, <2>2, <2>3 DEF Begin
<1>12. ASSUME NEW s \in SecRules, Finalize(s)
       PROVE  GrantsFresh' /\ CopiesGranted' /\ ReconcileGranted'
  <2>1. NoRule(seen[s].ver) \in SecRule /\ Granted(NoRule(seen[s].ver), s, grants)
    BY <1>a, NoRuleType, GrantedNone
  <2> QED
    BY <1>12, <1>a, <2>1, CopiesStep, FreshStep DEF Finalize, ReconcileGranted
<1>13. CASE Refetch
  <2>1. UNCHANGED <<secrules, pool, seen, standby, grants, wrapped>> /\ cur \in SecRules
    BY <1>13, <1>a DEF Refetch, TypeOK
  <2>2. CASE Allocate(seen[cur]) /\ UNCHANGED cur
    BY <1>a, <2>1, <2>2, FreshStep, CopiesStep, AllocateStep
  <2>3. CASE ReturnErr
    BY <1>a, <2>1, <2>3, FreshStep, CopiesStep, ResetStep DEF ReturnErr
  <2> QED
    BY <1>13, <2>2, <2>3 DEF Refetch
<1>14. CASE ResolveSticky
  <2> DEFINE i == Len(ids) + 1
             id == StickyID(sr, i)
  <2>1. /\ pc = "alloc" /\ i \in 1..Len(sr.spec) /\ id > 0 /\ ids' = Append(ids, id)
        /\ UNCHANGED <<secrules, pool, seen, standby, grants, wrapped, pc, cur, sr>>
    BY <1>14, <1>a, LenProperties, FieldReads DEF ResolveSticky, TypeOK
  <2>2. sr.spec[i] = 0
    <3>1. sr.spec \in Specs
      BY <1>a, <2>1, FieldReads, EmptySeq DEF TypeOK
    <3> QED
      BY <2>1, <3>1 DEF AutoOnly
  <2>3. <<cur, i, id>> \in grants
    <3>1. Granted(sr, cur, grants)
      BY <1>a, <2>1 DEF ReconcileGranted
    <3>2. CASE i <= Len(sr.ids) /\ sr.ids[i] > 0
      <4>1. id = sr.ids[i] /\ i \in 1..Len(sr.ids)
        BY <1>a, <2>1, <2>2, <3>2, FieldReads DEF StickyID, TypeOK
      <4> QED
        BY <3>1, <4>1 DEF Granted
    <3>3. CASE ~(i <= Len(sr.ids) /\ sr.ids[i] > 0)
      <4>1. i = 1 /\ id = sr.ann /\ sr.ann # 0
        BY <2>1, <2>2, <3>3 DEF StickyID
      <4> QED
        BY <3>1, <4>1 DEF Granted
    <3> QED
      BY <3>2, <3>3
  <2>4. /\ Len(ids) \in Nat /\ Len(ids') = Len(ids) + 1
        /\ \A k \in 1..Len(ids) : ids'[k] = ids[k]
        /\ ids'[Len(ids) + 1] = id
    <3>1. id \in Nat
      BY <1>a, <2>1, StickyType DEF TypeOK
    <3> HIDE DEF id
    <3> QED
      BY <1>a, <2>1, <3>1, AppendProperties, LenProperties DEF TypeOK
  <2> HIDE DEF id
  <2>5. \A k \in 1..Len(ids') : <<cur, k, ids'[k]>> \in grants
    BY <1>a, <2>1, <2>3, <2>4 DEF ReconcileGranted
  <2> QED
    BY <1>a, <2>1, <2>5, FreshStep, CopiesStep DEF ReconcileGranted
<1>15. CASE Grant
  BY <1>15, <1>a, GrantStep DEF Grant, TypeOK
<1>16. CASE CreatePool
  <2> DEFINE created(n) == [NoPool(pool.ver + 1) EXCEPT !.live = TRUE, !.range = DefaultRange, !.next = n]
             fresh == created(DefaultRange[1])
  <2>1. \A n \in {0, DefaultRange[1]} : n \in Nat
    BY RangesAssumption
  <2>2. \A n \in {0, DefaultRange[1]} : created(n) \in Pool /\ created(n).live
    <3>1. \A n \in {0, DefaultRange[1]} : created(n) \in Pool
      BY <1>a, <2>1, CreatedPool, PoolWrites DEF TypeOK
    <3> QED
      BY <3>1 DEF NoPool
  <2>3. NeedsPool /\ ~pool.live
    BY <1>16 DEF CreatePool
  <2> HIDE DEF created
  <2>4. CASE GrantFrom(fresh)
    BY <2>2, <2>3, <2>4, GrantStep
  <2>5. CASE pool' = fresh /\ AllocFail
    BY <1>a, <2>2, <2>3, <2>5, AllocFailStep, FreshStep
  <2>6. CASE /\ \E n \in {0, DefaultRange[1]} : pool' = created(n)
             /\ UNCHANGED <<secrules, caches, queue, locals, history>>
    BY <1>a, <2>2, <2>3, <2>6, FreshStep, CopiesStep DEF ReconcileGranted
  <2> QED
    BY <1>16, <2>4, <2>5, <2>6 DEF CreatePool, created
<1>17. CASE PoolUnusable
  BY <1>17, <1>a, AllocFailStep, FreshStep DEF PoolUnusable
<1>18. CASE TooManyConflicts
  BY <1>18, <1>a, AllocFailStep, FreshStep DEF TooManyConflicts
<1>19. CASE SyncLabels
  <2>1. UNCHANGED <<pool, seen, standby, grants, wrapped>> /\ cur \in SecRules /\ pc # "idle"
    BY <1>19, <1>a DEF SyncLabels, AllResolved, TypeOK
  <2>2. CASE Accepts(cur, sr.ver)
    <3>1. Labelled \in SecRule
      BY <1>a, LabelledType
    <3>2. Granted(Labelled, cur, grants)
      BY <1>a, <2>1, LabelledGranted
    <3>3. Store(cur, Labelled) /\ pc' = "labelled" /\ UNCHANGED <<cur, sr, ids>>
      BY <1>19, <2>2 DEF SyncLabels
    <3> QED
      BY <1>a, <2>1, <3>1, <3>2, <3>3, FreshStep, CopiesStep DEF ReconcileGranted
  <2>3. CASE ~Accepts(cur, sr.ver)
    BY <1>19, <1>a, <2>1, <2>3, FreshStep, CopiesStep, ResetStep DEF SyncLabels, ReturnErr
  <2> QED
    BY <2>2, <2>3
<1>20. CASE WriteStatus
  BY <1>20, <1>a, UpdateStatusStep DEF WriteStatus, AllResolved, TypeOK, ReconcileGranted
<1>21. CASE RefetchWriteStatus
  <2>1. CASE seen[cur].live
    BY <1>21, <1>a, <2>1, UpdateStatusStep DEF RefetchWriteStatus, TypeOK
  <2>2. CASE ~seen[cur].live
    BY <1>21, <1>a, <2>2, FreshStep, CopiesStep, ResetStep DEF RefetchWriteStatus, ReturnErr
  <2> QED
    BY <2>1, <2>2
<1>22. CASE UNCHANGED vars
  BY <1>22, <1>a, FreshStep, CopiesStep DEF vars, ReconcileGranted
<1> QED
  BY <1>1, <1>2, <1>3, <1>4, <1>5, <1>6, <1>7, <1>8, <1>9, <1>10, <1>11, <1>12, <1>13, <1>14,
     <1>15, <1>16, <1>17, <1>18, <1>19, <1>20, <1>21, <1>22
     DEF Next, Environment, Informers, Reconcile, Continue

\* The ids of AllocInv are unique.
LEMMA AllocInvUnique == AllocInv => AutoIDsUnique
<1> SUFFICES ASSUME AllocInv, ~wrapped, NEW s \in SecRules, NEW t \in SecRules
             PROVE  /\ \A i \in 1..Len(secrules[s].ids), j \in 1..Len(secrules[t].ids) :
                          secrules[s].ids[i] = secrules[t].ids[j] => s = t /\ i = j
                    /\ \A j \in 1..Len(secrules[t].ids) :
                          secrules[s].ann # 0 /\ secrules[s].ann = secrules[t].ids[j] => s = t /\ j = 1
  BY DEF AutoIDsUnique
<1>1. \A r, u \in SecRules : \A i, j, id : <<r, i, id>> \in grants /\ <<u, j, id>> \in grants => r = u /\ i = j
  BY DEF AllocInv, GrantsFresh
<1>2. Granted(secrules[s], s, grants) /\ Granted(secrules[t], t, grants)
  BY DEF AllocInv, CopiesGranted
<1>3. ASSUME NEW i \in 1..Len(secrules[s].ids), NEW j \in 1..Len(secrules[t].ids),
             secrules[s].ids[i] = secrules[t].ids[j]
      PROVE  s = t /\ i = j
  <2>1. <<s, i, secrules[s].ids[i]>> \in grants /\ <<t, j, secrules[t].ids[j]>> \in grants
    BY <1>2 DEF Granted
  <2> QED
    BY <1>1, <1>3, <2>1
<1>4. ASSUME NEW j \in 1..Len(secrules[t].ids),
             secrules[s].ann # 0, secrules[s].ann = secrules[t].ids[j]
      PROVE  s = t /\ j = 1
  <2>1. <<s, 1, secrules[s].ann>> \in grants /\ <<t, j, secrules[t].ids[j]>> \in grants
    BY <1>2, <1>4 DEF Granted
  <2> QED
    BY <1>1, <1>4, <2>1
<1> QED
  BY <1>3, <1>4

\* With any number of SecRules and replicas' caches however old: until the
\* pool's cursor wraps, no two rules are recorded with the same id of the pool
\* (allocateOne's compare-and-swap; the list of used ids is not needed for it).
THEOREM AutoIDsAreUnique == AutoOnly => (Spec => []AutoIDsUnique)
<1>1. Init => AllocInv
  <2>1. Init => TypeOK
    BY InitType
  <2>2. ASSUME Init PROVE GrantsFresh /\ CopiesGranted /\ ReconcileGranted
    <3>1. \A s \in SecRules : Granted(NoRule(0), s, grants)
      BY GrantedNone
    <3> QED
      BY <2>2, <3>1 DEF Init, GrantsFresh, CopiesGranted, ReconcileGranted
  <2> QED
    BY <2>1, <2>2 DEF AllocInv
<1>2. ASSUME AutoOnly PROVE AllocInv /\ [Next]_vars => AllocInv'
  BY <1>2, AllocStep
<1>3. SUFFICES ASSUME AutoOnly PROVE Spec => []AutoIDsUnique
  OBVIOUS
<1>4. AllocInv /\ [Next]_vars => AllocInv'
  BY <1>3, <1>2
<1> QED
  BY <1>1, <1>4, AllocInvUnique, PTL DEF Spec

-----------------------------------------------------------------------------
(* The range of the pool.  The search that wraps stops before the cursor,   *)
(* so the id it finds is at most maxId as long as the cursor is.            *)

\* No administrator sets a maxId below the pool's cursor.
NeverBelowCursor ==
    [][pool.live /\ pool'.range # pool.range => pool.next <= EffectiveMax(pool') + 1]_vars

CursorInRange(p) == p.next <= EffectiveMax(p) + 1 \/ p.next <= EffectiveMin(p)

PoolInv == TypeOK /\ (pool.live => CursorInRange(pool))

\* allocateOne picks an id of the range and leaves the cursor in the range.
LEMMA PickIDInRange ==
    ASSUME NEW p \in Pool, NEW taken, CursorInRange(p), PickID(p, taken) # 0
    PROVE  /\ EffectiveMin(p) <= PickID(p, taken) /\ PickID(p, taken) <= EffectiveMax(p)
           /\ NextCursor(p, PickID(p, taken)) <= EffectiveMax(p)
<1>1. /\ EffectiveMin(p) \in Nat /\ EffectiveMax(p) \in Nat /\ Cursor(p) \in Nat
      /\ p.next \in Nat /\ PickID(p, taken) \in Nat
  BY PickIDIsFree DEF Pool
<1>2. EffectiveMin(p) <= EffectiveMax(p)
  BY <1>1 DEF PickID
<1>3. EffectiveMin(p) <= Cursor(p) /\ Cursor(p) <= EffectiveMax(p) + 1
  BY <1>1, <1>2 DEF Cursor, CursorInRange
<1>4. PickID(p, taken) \in Cursor(p)..EffectiveMax(p) \/ PickID(p, taken) \in EffectiveMin(p)..(Cursor(p) - 1)
  <2>1. Cursor(p) - 1 \in Int
    BY <1>1
  <2>2. /\ findFree(Cursor(p), EffectiveMax(p), taken) # 0 =>
              findFree(Cursor(p), EffectiveMax(p), taken) \in Cursor(p)..EffectiveMax(p)
        /\ findFree(EffectiveMin(p), Cursor(p) - 1, taken) # 0 =>
              findFree(EffectiveMin(p), Cursor(p) - 1, taken) \in EffectiveMin(p)..(Cursor(p) - 1)
    BY <1>1, <2>1, findFreeIsFree
  <2>3. PickID(p, taken) \in {findFree(Cursor(p), EffectiveMax(p), taken),
                              findFree(EffectiveMin(p), Cursor(p) - 1, taken)}
    BY DEF PickID
  <2> QED
    BY <2>2, <2>3
<1>5. EffectiveMin(p) <= PickID(p, taken) /\ PickID(p, taken) <= EffectiveMax(p)
  BY <1>1, <1>3, <1>4
<1> QED
  BY <1>1, <1>2, <1>5 DEF NextCursor

\* A grant: the id and the cursor of the new pool are in its range.
LEMMA GrantRange ==
    ASSUME NEW p \in Pool, CursorInRange(p), GrantFrom(p)
    PROVE  /\ EffectiveMin(pool') <= pool'.last /\ pool'.last <= EffectiveMax(pool')
           /\ CursorInRange(pool')
<1> DEFINE id == PickID(p, used)
           n  == NextCursor(p, id)
<1>1. id # 0 /\ pool' = [p EXCEPT !.ver = @ + 1, !.next = n, !.last = id]
  BY DEF GrantFrom
<1>2. /\ EffectiveMin(p) <= id /\ id <= EffectiveMax(p) /\ n <= EffectiveMax(p)
      /\ n \in Nat /\ EffectiveMax(p) \in Nat
  BY <1>1, PickIDInRange, PickIDIsFree DEF NextCursor
<1> HIDE DEF id, n
<1>3. pool'.range = p.range /\ pool'.next = n /\ pool'.last = id
  BY <1>1 DEF Pool
<1>4. EffectiveMin(pool') = EffectiveMin(p) /\ EffectiveMax(pool') = EffectiveMax(p)
  BY <1>3 DEF EffectiveMin, EffectiveMax
<1> QED
  BY <1>2, <1>3, <1>4 DEF CursorInRange

\* The pool ensureClusterIDPool creates has its cursor in its range.
LEMMA CreatedRange ==
    ASSUME NEW v \in Nat, NEW n \in {0, DefaultRange[1]},
           NEW p, p = [NoPool(v) EXCEPT !.live = TRUE, !.range = DefaultRange, !.next = n]
    PROVE  p \in Pool /\ CursorInRange(p)
<1>1. n \in Nat /\ DefaultRange[1] \in Nat \ {0}
  BY RangesAssumption
<1>2. p \in Pool
  BY <1>1, CreatedPool
<1>3. p.next = n /\ p.range = DefaultRange
  BY DEF NoPool
<1>4. EffectiveMin(p) = DefaultRange[1]
  BY <1>1, <1>3 DEF EffectiveMin
<1> QED
  BY <1>1, <1>2, <1>3, <1>4 DEF CursorInRange

\* What a step does to the pool and the ids: only a grant hands out an id.
LEMMA PoolStep ==
    ASSUME PoolInv, Next
    PROVE  \/ UNCHANGED pool
           \/ \E rg \in Ranges : EditRange(rg)
           \/ CursorInRange(pool') /\ ids' \in {ids, <<>>}
           \/ \E p \in Pool : CursorInRange(p) /\ GrantFrom(p)
<1> USE DEF caches, bounds, history, locals, api
<1>1. CASE Environment
  BY <1>1 DEF Environment, CreateRule, EditSpec, DeleteRule, LockRule, Lag, Failover, mapDataFileToSecRules
<1>2. CASE Informers
  BY <1>2 DEF Informers, SyncPool, SyncRule
<1>3. ASSUME NEW s \in SecRules, Begin(s) \/ Finalize(s) PROVE UNCHANGED pool
  BY <1>3 DEF Begin, Finalize
<1>4. CASE Grant
  BY <1>4 DEF Grant, PoolInv, TypeOK
<1>5. CASE CreatePool
  <2> DEFINE created(n) == [NoPool(pool.ver + 1) EXCEPT !.live = TRUE, !.range = DefaultRange, !.next = n]
             fresh == created(DefaultRange[1])
  <2>1. \A n \in {0, DefaultRange[1]} : created(n) \in Pool /\ CursorInRange(created(n))
    <3>1. pool.ver + 1 \in Nat
      BY PoolWrites DEF PoolInv, TypeOK
    <3> QED
      BY <3>1, CreatedRange
  <2>2. \/ GrantFrom(fresh)
        \/ pool' = fresh /\ AllocFail
        \/ (\E n \in {0, DefaultRange[1]} : pool' = created(n)) /\ ids' = ids
    BY <1>5 DEF CreatePool
  <2> HIDE DEF created
  <2> QED
    BY <2>1, <2>2 DEF AllocFail, ReturnErr, Reset
<1>6. CASE Refetch \/ ResolveSticky \/ PoolUnusable \/ TooManyConflicts \/ SyncLabels
  BY <1>6 DEF Refetch, ResolveSticky, PoolUnusable, TooManyConflicts, SyncLabels
<1>7. CASE WriteStatus \/ RefetchWriteStatus
  BY <1>7 DEF WriteStatus, RefetchWriteStatus, UpdateStatus
<1> QED
  BY <1>1, <1>2, <1>3, <1>4, <1>5, <1>6, <1>7 DEF Next, Reconcile, Continue

\* An id the pool hands out lies in the pool's range, for every sequence of
\* edits of the range that keeps maxId at or above the cursor (allocateOne).
\* Without that hypothesis the property does not hold: run idpool_shrink.
THEOREM GrantsAreInRange == Spec /\ NeverBelowCursor => GrantInRange
<1> DEFINE Kept  == pool.live /\ pool'.range # pool.range => pool.next <= EffectiveMax(pool') + 1
           Fits  == pool' # pool /\ Len(ids') > Len(ids) =>
                       EffectiveMin(pool') <= pool'.last /\ pool'.last <= EffectiveMax(pool')
<1>1. Init => PoolInv
  BY InitType DEF Init, NoPool, PoolInv
<1>2. PoolInv /\ [Next]_vars /\ [Kept]_vars => PoolInv'
  <2> SUFFICES ASSUME PoolInv, [Next]_vars, [Kept]_vars PROVE (pool.live => CursorInRange(pool))'
    BY TypeStep DEF PoolInv
  <2>1. CASE UNCHANGED pool
    BY <2>1 DEF PoolInv, CursorInRange, EffectiveMin, EffectiveMax
  <2>2. ASSUME NEW rg \in Ranges, EditRange(rg) PROVE CursorInRange(pool)'
    <3>1. pool.live /\ pool.range # rg /\ pool' = [pool EXCEPT !.range = rg, !.ver = @ + 1] /\ pool \in Pool
      BY <2>2 DEF EditRange, PoolInv, TypeOK
    <3>2. pool'.next = pool.next /\ pool'.range = rg
      BY <3>1 DEF Pool
    <3>3. pool.next <= EffectiveMax(pool') + 1
      BY <3>1, <3>2 DEF vars, api
    <3> QED
      BY <3>2, <3>3 DEF CursorInRange
  <2>3. ASSUME NEW p \in Pool, CursorInRange(p), GrantFrom(p) PROVE CursorInRange(pool)'
    BY <2>3, GrantRange DEF CursorInRange, EffectiveMin, EffectiveMax
  <2> QED
    BY <2>1, <2>2, <2>3, PoolStep DEF vars, api, CursorInRange, EffectiveMin, EffectiveMax
<1>3. PoolInv /\ [Next]_vars => [Fits]_vars
  <2> SUFFICES ASSUME PoolInv, Next, pool' # pool, Len(ids') > Len(ids)
               PROVE  EffectiveMin(pool') <= pool'.last /\ pool'.last <= EffectiveMax(pool')
    OBVIOUS
  <2>1. Len(ids) \in Nat /\ Len(<<>>) = 0
    BY LenProperties, EmptySeq DEF PoolInv, TypeOK
  <2>2. ids' \notin {ids, <<>>}
    BY <2>1
  <2>3. ~ \E rg \in Ranges : EditRange(rg)
    BY <2>2 DEF EditRange, locals
  <2>4. \E p \in Pool : CursorInRange(p) /\ GrantFrom(p)
    BY <2>2, <2>3, PoolStep
  <2> QED
    BY <2>4, GrantRange
<1> HIDE DEF Kept, Fits
<1>4. Spec /\ [][Kept]_vars => [][Fits]_vars
  BY <1>1, <1>2, <1>3, PTL DEF Spec
<1> QED
  BY <1>4 DEF NeverBelowCursor, GrantInRange, Kept, Fits

-----------------------------------------------------------------------------
(* The sticky ids.  A write carries the version that was read, so the       *)
(* object written is the object stored; nobody but the reconcile writes     *)
(* status.assignedIds, and resolveOneID repeats what it reads there.        *)

\* o is a copy of a, the object stored: an earlier version, or a itself.
CopyOf(o, a) == o.ver <= a.ver /\ (o.ver = a.ver => o = a)

Positive(q) == \A i \in 1..Len(q) : q[i] > 0

Copies ==
    /\ \A s \in SecRules : CopyOf(seen[s], secrules[s]) /\ Positive(seen[s].ids) /\ Positive(secrules[s].ids)
    /\ standby # <<>> =>
          \A s \in SecRules : CopyOf(standby[1][s], secrules[s]) /\ Positive(standby[1][s].ids)

\* The reconcile's object is a copy too, and the ids it has so far repeat the
\* ones the status holds; between the label update and the status update nobody else
\* writes status.assignedIds.
Assigning ==
    /\ pc \in {"alloc", "labelled"} => CopyOf(sr, secrules[cur])
    /\ Positive(sr.ids) /\ Positive(ids)
    /\ Len(ids) <= Len(sr.spec)
    /\ \A i \in 1..Len(ids) : sr.spec[i] = 0 /\ i <= Len(sr.ids) => ids[i] = sr.ids[i]
    /\ pc = "labelled" => secrules[cur].ids \in {sr.ids, <<>>}
    /\ pc \in {"idle", "finalized"} => sr = NoRule(0) /\ ids = <<>>

StickyInv == TypeOK /\ Copies /\ Assigning

\* What a step may do to the object stored: leave it alone or give it a newer version.
Advances == \A t \in SecRules : CopyOf(secrules[t], secrules'[t]) /\ Positive(secrules'[t].ids)

IdsKept == \A t \in SecRules : secrules'[t].ids \in {secrules[t].ids, <<>>}

\* What StickyStable says of a step.
Stays ==
    \A s \in SecRules : \A i \in 1..Len(secrules[s].spec) :
       /\ secrules'[s].live /\ secrules[s].spec[i] = 0
       /\ i <= Len(secrules[s].ids) /\ i <= Len(secrules'[s].ids)
       => \/ secrules'[s].ids[i] = secrules[s].ids[i]
          \/ cur = s /\ sr.spec[i] > 0

\* A write gives the object the ids of the object written, and a newer version.
LEMMA StoreAdvances ==
    ASSUME StickyInv, NEW s \in SecRules, NEW o \in SecRule, Positive(o.ids), Store(s, o)
    PROVE  /\ Advances
           /\ secrules'[s].ids = o.ids
           /\ \A t \in SecRules \ {s} : secrules'[t] = secrules[t]
<1>1. secrules \in [SecRules -> SecRule] /\ \A t \in SecRules : secrules[t].ver \in Nat /\ Positive(secrules[t].ids)
  BY FieldReads DEF StickyInv, TypeOK, Copies
<1>2. secrules'[s] = IF o = secrules[s] THEN secrules[s] ELSE [o EXCEPT !.ver = secrules[s].ver + 1]
  BY <1>1 DEF Store
<1>3. \A t \in SecRules \ {s} : secrules'[t] = secrules[t]
  BY <1>1 DEF Store
<1>4. [o EXCEPT !.ver = secrules[s].ver + 1].ids = o.ids /\ [o EXCEPT !.ver = secrules[s].ver + 1].ver = secrules[s].ver + 1
  BY DEF SecRule
<1>5. secrules'[s].ids = o.ids /\ CopyOf(secrules[s], secrules'[s])
  BY <1>1, <1>2, <1>4 DEF CopyOf
<1>6. \A t \in SecRules : CopyOf(secrules[t], secrules'[t]) /\ Positive(secrules'[t].ids)
  BY <1>1, <1>3, <1>5 DEF CopyOf
<1> QED
  BY <1>3, <1>5, <1>6 DEF Advances

LEMMA SameAdvances ==
    ASSUME StickyInv, UNCHANGED secrules
    PROVE  Advances /\ IdsKept
  BY FieldReads DEF StickyInv, TypeOK, Copies, Advances, IdsKept, CopyOf

LEMMA CopyTransitive ==
    ASSUME NEW o \in SecRule, NEW a \in SecRule, NEW b \in SecRule, CopyOf(o, a), CopyOf(a, b)
    PROVE  CopyOf(o, b)
<1>1. o.ver \in Nat /\ a.ver \in Nat /\ b.ver \in Nat
  BY FieldReads
<1> QED
  BY <1>1 DEF CopyOf

\* The copies the caches hold stay copies.
LEMMA CopiesAdvance ==
    ASSUME StickyInv, TypeOK', Advances, UNCHANGED <<seen, standby>>
    PROVE  Copies'
<1>1. \A s \in SecRules : secrules[s] \in SecRule /\ secrules'[s] \in SecRule /\ seen[s] \in SecRule
  BY DEF StickyInv, TypeOK
<1>2. \A s \in SecRules : CopyOf(seen[s], secrules'[s]) /\ Positive(seen[s].ids) /\ Positive(secrules'[s].ids)
  BY <1>1, CopyTransitive DEF StickyInv, Copies, Advances
<1>3. ASSUME standby # <<>>, NEW s \in SecRules
      PROVE  CopyOf(standby[1][s], secrules'[s]) /\ Positive(standby[1][s].ids)
  <2>1. standby[1][s] \in SecRule
    BY <1>3 DEF StickyInv, TypeOK
  <2> QED
    BY <1>1, <1>3, <2>1, CopyTransitive DEF StickyInv, Copies, Advances
<1> QED
  BY <1>2, <1>3 DEF Copies

\* A step of somebody else: the reconcile's object and ids are still right.
LEMMA AssigningAdvance ==
    ASSUME StickyInv, TypeOK', Advances, IdsKept, UNCHANGED locals
    PROVE  Assigning'
<1>1. UNCHANGED <<pc, cur, sr, ids>>
  BY DEF locals
<1>2. ASSUME pc \in {"alloc", "labelled"} PROVE CopyOf(sr, secrules'[cur])
  <2>1. cur \in SecRules /\ secrules[cur] \in SecRule /\ secrules'[cur] \in SecRule /\ sr \in SecRule
    BY <1>2 DEF StickyInv, TypeOK
  <2> QED
    BY <1>2, <2>1, CopyTransitive DEF StickyInv, Assigning, Advances
<1>3. ASSUME pc = "labelled" PROVE secrules'[cur].ids \in {sr.ids, <<>>}
  BY <1>3 DEF StickyInv, TypeOK, Assigning, IdsKept
<1> QED
  BY <1>1, <1>2, <1>3 DEF StickyInv, Assigning

LEMMA NoIds == /\ \A v : NoRule(v).ids = <<>> /\ NoRule(v).spec = <<>>
               /\ Positive(<<>>) /\ Len(<<>>) = 0
  BY EmptySeq DEF NoRule, Positive

\* The end of a reconcile.
LEMMA AssigningReset ==
    ASSUME Reset
    PROVE  Assigning'
<1>1. pc' = "idle" /\ sr' = NoRule(0) /\ ids' = <<>>
  BY DEF Reset
<1> QED
  BY <1>1, NoIds DEF Assigning

\* Where no step changes the ids, they stay.
LEMMA KeptStays ==
    ASSUME StickyInv, IdsKept
    PROVE  Stays
<1> SUFFICES ASSUME NEW s \in SecRules, NEW i \in 1..Len(secrules[s].spec), i <= Len(secrules'[s].ids)
             PROVE  secrules'[s].ids[i] = secrules[s].ids[i]
  BY DEF Stays
<1>1. i \in Nat \ {0}
  BY FieldReads DEF StickyInv, TypeOK
<1>2. secrules'[s].ids # <<>>
  BY <1>1, NoIds
<1> QED
  BY <1>2 DEF IdsKept

\* A write of an object with the ids stored, or none.
LEMMA StoreKept ==
    ASSUME StickyInv, NEW s \in SecRules, NEW o \in SecRule, o.ids \in {secrules[s].ids, <<>>}, Store(s, o)
    PROVE  Advances /\ IdsKept
<1>1. Positive(o.ids)
  BY NoIds DEF StickyInv, Copies
<1>2. Advances /\ secrules'[s].ids = o.ids /\ \A t \in SecRules \ {s} : secrules'[t] = secrules[t]
  BY <1>1, StoreAdvances
<1> QED
  BY <1>2 DEF IdsKept

\* The failed end of an allocation writes the object it read, its ids included.
LEMMA AllocFailKept ==
    ASSUME StickyInv, pc = "alloc", AllocFail
    PROVE  Advances /\ IdsKept /\ Assigning' /\ UNCHANGED <<seen, standby>>
<1>1. Reset /\ UNCHANGED <<seen, standby>>
  BY DEF AllocFail, ReturnErr, caches
<1>2. CASE Accepts(cur, sr.ver)
  <2>1. sr = secrules[cur] /\ cur \in SecRules
    BY <1>2 DEF Accepts, StickyInv, TypeOK, Assigning, CopyOf
  <2>2. [sr EXCEPT !.cond = "IDAllocationFailed"] \in SecRule
    BY FieldWrites DEF StickyInv, TypeOK
  <2>3. [sr EXCEPT !.cond = "IDAllocationFailed"].ids = sr.ids
    BY DEF StickyInv, TypeOK, SecRule
  <2>4. Store(cur, [sr EXCEPT !.cond = "IDAllocationFailed"])
    BY <1>2 DEF AllocFail
  <2> QED
    BY <1>1, <2>1, <2>2, <2>3, <2>4, StoreKept, AssigningReset
<1>3. CASE ~Accepts(cur, sr.ver)
  BY <1>1, <1>3, SameAdvances, AssigningReset DEF AllocFail
<1> QED
  BY <1>2, <1>3

\* The allocation starts from a cached object.
LEMMA AllocateAssigning ==
    ASSUME StickyInv, cur' \in SecRules, Allocate(seen[cur']), UNCHANGED secrules
    PROVE  Assigning'
<1>1. pc' = "alloc" /\ sr' = seen[cur'] /\ ids' = <<>>
  BY DEF Allocate
<1>2. CopyOf(sr', secrules'[cur']) /\ Positive(sr'.ids) /\ Len(sr'.spec) \in Nat
  BY <1>1, FieldReads DEF StickyInv, TypeOK, Copies
<1> QED
  BY <1>1, <1>2, NoIds DEF Assigning

\* One more id, which is the one of the status where the status has one.
LEMMA AppendAssigning ==
    ASSUME StickyInv, pc = "alloc", NEW id \in Nat \ {0}, ids' = Append(ids, id),
           Len(ids) < Len(sr.spec),
           sr.spec[Len(ids) + 1] = 0 /\ Len(ids) + 1 <= Len(sr.ids) => id = sr.ids[Len(ids) + 1],
           UNCHANGED <<secrules, pc, cur, sr>>
    PROVE  Assigning'
<1>1. /\ Len(ids) \in Nat /\ Len(ids') = Len(ids) + 1 /\ Len(sr.spec) \in Nat
      /\ \A i \in 1..Len(ids) : ids'[i] = ids[i]
      /\ ids'[Len(ids) + 1] = id
  BY AppendProperties, LenProperties, FieldReads DEF StickyInv, TypeOK
<1>2. \A i \in 1..Len(ids') : i \in 1..Len(ids) \/ i = Len(ids) + 1
  BY <1>1
<1>3. Positive(ids')
  BY <1>1, <1>2 DEF StickyInv, Assigning, Positive
<1>4. \A i \in 1..Len(ids') : sr.spec[i] = 0 /\ i <= Len(sr.ids) => ids'[i] = sr.ids[i]
  BY <1>1, <1>2 DEF StickyInv, Assigning
<1>5. Len(ids') <= Len(sr.spec)
  BY <1>1
<1> QED
  BY <1>3, <1>4, <1>5 DEF StickyInv, Assigning

\* The status update: the object written is the object stored, and each of its
\* ids that is not explicit is repeated.
LEMMA UpdateStatusStays ==
    ASSUME StickyInv, TypeOK', pc \in {"alloc", "labelled"}, Len(ids) = Len(sr.spec) \/ pc = "labelled",
           NEW o \in SecRule, CopyOf(o, secrules[cur]), o = sr \/ pc = "labelled", UpdateStatus(o)
    PROVE  Copies' /\ Assigning' /\ Stays
<1>1. PICK cond \in Conditions :
         /\ IF Accepts(cur, o.ver) THEN Store(cur, [o EXCEPT !.ids = ids, !.cond = cond])
            ELSE UNCHANGED secrules
         /\ Return \/ ReturnErr
  BY DEF UpdateStatus, Conditions
<1>2. Assigning' /\ UNCHANGED <<seen, standby>>
  BY <1>1, AssigningReset DEF Return, ReturnErr, UpdateStatus, caches
<1>3. CASE ~Accepts(cur, o.ver)
  BY <1>1, <1>2, <1>3, SameAdvances, CopiesAdvance, KeptStays
<1>4. CASE Accepts(cur, o.ver)
  <2> DEFINE w == [o EXCEPT !.ids = ids, !.cond = cond]
  <2>1. o = secrules[cur] /\ cur \in SecRules
    BY <1>4 DEF Accepts, CopyOf, StickyInv, TypeOK
  <2>2. w \in SecRule /\ w.ids = ids
    <3>1. ids \in Seq(Nat)
      BY DEF StickyInv, TypeOK
    <3>2. w \in SecRule
      BY <3>1, FieldWrites
    <3>3. w.ids = ids
      BY DEF SecRule
    <3> QED
      BY <3>2, <3>3
  <2>3. Store(cur, w)
    BY <1>1, <1>4
  <2> HIDE DEF w
  <2>4. Advances /\ secrules'[cur].ids = ids /\ \A t \in SecRules \ {cur} : secrules'[t] = secrules[t]
    BY <2>1, <2>2, <2>3, StoreAdvances DEF StickyInv, Assigning
  <2>5. Stays
    <3> SUFFICES ASSUME NEW i \in 1..Len(secrules[cur].spec), secrules[cur].spec[i] = 0,
                        i <= Len(secrules[cur].ids), i <= Len(ids), ~(sr.spec[i] > 0)
                 PROVE  ids[i] = secrules[cur].ids[i]
      BY <2>4 DEF Stays
    <3>1. /\ i \in Nat \ {0} /\ Len(ids) \in Nat /\ Len(sr.spec) \in Nat /\ Len(ids) <= Len(sr.spec)
          /\ \A k \in 1..Len(sr.spec) : sr.spec[k] \in Nat
      BY <2>1, FieldReads, LenProperties DEF StickyInv, TypeOK, Assigning
    <3>2. sr.spec[i] = 0 /\ i \in 1..Len(ids)
      BY <3>1
    <3>3. secrules[cur].ids \in {sr.ids, <<>>}
      BY <2>1 DEF StickyInv, Assigning
    <3>4. secrules[cur].ids = sr.ids
      BY <3>1, <3>3, NoIds
    <3> QED
      BY <3>2, <3>4 DEF StickyInv, Assigning
  <2> QED
    BY <1>2, <2>4, <2>5, CopiesAdvance
<1> QED
  BY <1>3, <1>4

\* The invariant and the property, step by step.
LEMMA StickyStep ==
    ASSUME StickyInv, Next
    PROVE  StickyInv' /\ Stays
<1>t. TypeOK' /\ TypeOK
  BY TypeStep DEF StickyInv
<1> SUFFICES Copies' /\ Assigning' /\ Stays
  BY <1>t DEF StickyInv
<1>g. ASSUME Advances, IdsKept, Assigning', UNCHANGED <<seen, standby>>
      PROVE  Copies' /\ Assigning' /\ Stays
  BY <1>g, <1>t, CopiesAdvance, KeptStays
<1>e. ASSUME Advances, IdsKept, UNCHANGED locals, UNCHANGED <<seen, standby>>
      PROVE  Copies' /\ Assigning' /\ Stays
  BY <1>e, <1>g, <1>t, AssigningAdvance
<1>a. \A s \in SecRules : /\ secrules[s] \in SecRule /\ seen[s] \in SecRule
                          /\ secrules[s].ver \in Nat /\ seen[s].ver \in Nat
                          /\ CopyOf(seen[s], secrules[s])
  BY <1>t, FieldReads DEF TypeOK, StickyInv, Copies
<1>n. \A v \in Nat : /\ NoRule(v) \in SecRule /\ NoRule(v).ids = <<>>
                     /\ \A sp \in Specs : /\ [NoRule(v) EXCEPT !.live = TRUE, !.spec = sp] \in SecRule
                                          /\ [NoRule(v) EXCEPT !.live = TRUE, !.spec = sp].ids = <<>>
  BY NoRuleType, FieldWrites, NoIds DEF NoRule
<1>w. \A o \in SecRule : /\ [o EXCEPT !.fin = TRUE] \in SecRule /\ [o EXCEPT !.fin = TRUE].ids = o.ids
                         /\ [o EXCEPT !.del = TRUE] \in SecRule /\ [o EXCEPT !.del = TRUE].ids = o.ids
                         /\ [o EXCEPT !.ref = TRUE] \in SecRule /\ [o EXCEPT !.ref = TRUE].ids = o.ids
                         /\ \A sp \in Specs : /\ [o EXCEPT !.spec = sp] \in SecRule
                                              /\ [o EXCEPT !.spec = sp].ids = o.ids
  <2> SUFFICES ASSUME NEW o \in SecRule
               PROVE  /\ [o EXCEPT !.fin = TRUE].ids = o.ids /\ [o EXCEPT !.del = TRUE].ids = o.ids
                      /\ [o EXCEPT !.ref = TRUE].ids = o.ids
                      /\ \A sp \in Specs : [o EXCEPT !.spec = sp].ids = o.ids
    BY FieldWrites
  <2> QED
    BY DEF SecRule
<1> USE DEF caches, bounds, history, locals, api
<1>1. ASSUME NEW s \in SecRules, NEW sp \in Specs, CreateRule(s, sp)
      PROVE  Copies' /\ Assigning' /\ Stays
  <2>1. Advances /\ IdsKept
    BY <1>1, <1>a, <1>n, StoreKept DEF CreateRule
  <2> QED
    BY <1>1, <1>e, <2>1 DEF CreateRule
<1>2. ASSUME NEW s \in SecRules, NEW sp \in Specs, EditSpec(s, sp)
      PROVE  Copies' /\ Assigning' /\ Stays
  <2>1. Advances /\ IdsKept
    BY <1>2, <1>a, <1>w, StoreKept DEF EditSpec
  <2> QED
    BY <1>2, <1>e, <2>1 DEF EditSpec
<1>3. ASSUME NEW s \in SecRules, DeleteRule(s)
      PROVE  Copies' /\ Assigning' /\ Stays
  <2>1. Advances /\ IdsKept
    BY <1>3, <1>a, <1>n, <1>w, StoreKept DEF DeleteRule
  <2> QED
    BY <1>3, <1>e, <2>1 DEF DeleteRule
<1>4. ASSUME NEW s \in SecRules, LockRule(s)
      PROVE  Copies' /\ Assigning' /\ Stays
  <2>1. Advances /\ IdsKept
    BY <1>4, <1>a, <1>w, StoreKept DEF LockRule
  <2> QED
    BY <1>4, <1>e, <2>1 DEF LockRule
<1>5. CASE (\E rg \in Ranges : EditRange(rg)) \/ mapDataFileToSecRules \/ SyncPool
  <2>1. UNCHANGED <<secrules, seen, standby, pc, cur, sr, used, ids>>
    BY <1>5 DEF EditRange, mapDataFileToSecRules, SyncPool
  <2> QED
    BY <1>e, <2>1, SameAdvances
<1>6. CASE Lag
  <2>1. UNCHANGED <<secrules, seen, pc, cur, sr, used, ids>> /\ standby' = <<secrules, pool>>
    BY <1>6 DEF Lag
  <2>2. Assigning' /\ Stays
    BY <1>t, <2>1, SameAdvances, AssigningAdvance, KeptStays
  <2>3. \A s \in SecRules : CopyOf(standby'[1][s], secrules[s]) /\ Positive(standby'[1][s].ids)
    BY <1>a, <2>1 DEF CopyOf, StickyInv, Copies
  <2> QED
    BY <2>1, <2>2, <2>3 DEF StickyInv, Copies
<1>7. CASE Failover
  <2>1. /\ UNCHANGED secrules /\ Reset /\ standby' = <<>>
        /\ seen' = IF standby = <<>> THEN secrules ELSE standby[1]
    BY <1>7 DEF Failover
  <2>2. Assigning' /\ Stays
    BY <2>1, SameAdvances, AssigningReset, KeptStays
  <2>3. \A s \in SecRules : CopyOf(seen'[s], secrules[s]) /\ Positive(seen'[s].ids)
    BY <1>a, <2>1 DEF CopyOf, StickyInv, Copies
  <2> QED
    BY <2>1, <2>2, <2>3 DEF StickyInv, Copies
<1>8. ASSUME NEW s \in SecRules, SyncRule(s)
      PROVE  Copies' /\ Assigning' /\ Stays
  <2>1. UNCHANGED <<secrules, standby, pc, cur, sr, used, ids>> /\ seen' = [seen EXCEPT ![s] = secrules[s]]
    BY <1>8 DEF SyncRule
  <2>2. Assigning' /\ Stays
    BY <1>t, <2>1, SameAdvances, AssigningAdvance, KeptStays
  <2>3. \A t \in SecRules : CopyOf(seen'[t], secrules[t]) /\ Positive(seen'[t].ids)
    BY <1>a, <1>t, <2>1 DEF CopyOf, StickyInv, Copies, TypeOK
  <2> QED
    BY <2>1, <2>2, <2>3 DEF StickyInv, Copies
<1>9. ASSUME NEW s \in SecRules, Begin(s)
      PROVE  Copies' /\ Assigning' /\ Stays
  <2>1. UNCHANGED <<seen, standby>> /\ cur' = s /\ pc = "idle"
    BY <1>9 DEF Begin
  <2>2. CASE Allocate(seen[s]) /\ UNCHANGED secrules
    BY <1>g, <2>1, <2>2, SameAdvances, AllocateAssigning
  <2>3. CASE /\ Accepts(s, seen[s].ver) /\ Store(s, [seen[s] EXCEPT !.fin = TRUE])
             /\ pc' = "finalized" /\ UNCHANGED <<sr, used, ids>>
    <3>1. seen[s] = secrules[s]
      BY <1>a, <2>3 DEF Accepts, CopyOf
    <3>2. Advances /\ IdsKept
      BY <1>a, <1>w, <2>3, <3>1, StoreKept
    <3>3. Assigning'
      BY <2>1, <2>3 DEF StickyInv, Assigning
    <3> QED
      BY <1>g, <2>1, <3>2, <3>3
  <2> QED
    BY <1>9, <2>2, <2>3 DEF Begin
<1>10. ASSUME NEW s \in SecRules, Finalize(s)
       PROVE  Copies' /\ Assigning' /\ Stays
  <2>1. Advances /\ IdsKept
    BY <1>10, <1>a, <1>n, StoreKept DEF Finalize
  <2> QED
    BY <1>10, <1>e, <2>1 DEF Finalize
<1>11. CASE Refetch
  <2>1. UNCHANGED <<secrules, seen, standby>> /\ cur \in SecRules
    BY <1>11, <1>t DEF Refetch, TypeOK
  <2>2. CASE Allocate(seen[cur]) /\ UNCHANGED cur
    BY <1>g, <2>1, <2>2, SameAdvances, AllocateAssigning
  <2>3. CASE ReturnErr
    BY <1>g, <2>1, <2>3, SameAdvances, AssigningReset DEF ReturnErr
  <2> QED
    BY <1>11, <2>2, <2>3 DEF Refetch
<1>12. CASE ResolveSticky
  <2> DEFINE i  == Len(ids) + 1
             id == StickyID(sr, i)
  <2>1. /\ pc = "alloc" /\ i <= Len(sr.spec) /\ id > 0 /\ ids' = Append(ids, id)
        /\ UNCHANGED <<secrules, seen, standby, pc, cur, sr>>
    BY <1>12 DEF ResolveSticky
  <2>2. i \in 1..Len(sr.spec) /\ Len(ids) < Len(sr.spec) /\ Len(ids) \in Nat
    BY <1>t, <2>1, LenProperties, FieldReads DEF TypeOK
  <2>3. id \in Nat
    BY <1>t, <2>2, StickyType DEF TypeOK
  <2>4. sr.spec[i] = 0 /\ i <= Len(sr.ids) => id = sr.ids[i]
    <3>1. i <= Len(sr.ids) => sr.ids[i] > 0
      BY <1>t, <2>2, FieldReads DEF StickyInv, Assigning, Positive, TypeOK
    <3> QED
      BY <3>1 DEF StickyID
  <2> HIDE DEF id
  <2>5. Assigning'
    BY <2>1, <2>2, <2>3, <2>4, AppendAssigning
  <2> QED
    BY <1>g, <2>1, <2>5, SameAdvances
<1>13. ASSUME NEW p \in Pool, NeedsPool, GrantFrom(p)
       PROVE  Copies' /\ Assigning' /\ Stays
  <2> DEFINE i  == Len(ids) + 1
             id == PickID(p, used)
  <2>1. /\ pc = "alloc" /\ Len(ids) < Len(sr.spec) /\ id # 0 /\ ids' = Append(ids, id)
        /\ UNCHANGED <<secrules, seen, standby, pc, cur, sr>>
    BY <1>13 DEF GrantFrom, NeedsPool
  <2>2. id \in Nat \ {0}
    BY <2>1, PickIDIsFree
  <2>3. Len(ids) \in Nat /\ Len(sr.ids) \in Nat
    BY <1>t, LenProperties, FieldReads DEF TypeOK
  <2>4. ~(sr.spec[i] = 0 /\ i <= Len(sr.ids))
    <3>1. i <= Len(sr.ids) => sr.ids[i] > 0
      BY <2>3 DEF StickyInv, Assigning, Positive
    <3>2. StickyID(sr, i) = 0
      BY <1>13 DEF NeedsPool
    <3> QED
      BY <3>1, <3>2 DEF StickyID
  <2> HIDE DEF id
  <2>5. Assigning'
    BY <2>1, <2>2, <2>4, AppendAssigning
  <2> QED
    BY <1>g, <2>1, <2>5, SameAdvances
<1>14. CASE Grant
  BY <1>13, <1>14, <1>t DEF Grant, TypeOK
<1>15. CASE CreatePool
  <2> DEFINE created(n) == [NoPool(pool.ver + 1) EXCEPT !.live = TRUE, !.range = DefaultRange, !.next = n]
             fresh == created(DefaultRange[1])
  <2>1. fresh \in Pool
    BY <1>t, PoolWrites, CreatedPool, RangesAssumption DEF TypeOK
  <2>2. \/ GrantFrom(fresh)
        \/ AllocFail
        \/ UNCHANGED <<secrules, seen, standby, pc, cur, sr, used, ids>>
    BY <1>15 DEF CreatePool
  <2>3. NeedsPool /\ pc = "alloc"
    BY <1>15 DEF CreatePool, NeedsPool
  <2> HIDE DEF fresh
  <2> QED
    BY <1>13, <1>e, <1>g, <2>1, <2>2, <2>3, AllocFailKept, SameAdvances
<1>16. CASE PoolUnusable \/ TooManyConflicts
  <2>1. pc = "alloc" /\ AllocFail
    BY <1>16 DEF PoolUnusable, TooManyConflicts, NeedsPool
  <2> QED
    BY <1>g, <2>1, AllocFailKept
<1>17. CASE SyncLabels
  <2>1. UNCHANGED <<seen, standby>> /\ cur \in SecRules /\ pc = "alloc"
    BY <1>17, <1>t DEF SyncLabels, AllResolved, TypeOK
  <2>2. CASE Accepts(cur, sr.ver)
    <3>1. sr = secrules[cur]
      BY <2>1, <2>2 DEF Accepts, StickyInv, Assigning, CopyOf
    <3>2. Labelled \in SecRule /\ Labelled.ids = sr.ids
      BY <1>t, LabelledType DEF Labelled, syncSecRuleLabels, TypeOK, SecRule
    <3>3. Store(cur, Labelled) /\ pc' = "labelled" /\ UNCHANGED <<cur, sr, ids>>
      BY <1>17, <2>2 DEF SyncLabels
    <3>4. Advances /\ IdsKept
      BY <2>1, <3>1, <3>2, <3>3, StoreKept
    <3>5. CopyOf(sr, secrules'[cur]) /\ secrules'[cur].ids \in {sr.ids, <<>>}
      BY <2>1, <3>1, <3>4 DEF Advances, IdsKept
    <3>6. Assigning'
      BY <3>3, <3>5 DEF StickyInv, Assigning
    <3> QED
      BY <1>g, <2>1, <3>4, <3>6
  <2>3. CASE ~Accepts(cur, sr.ver)
    BY <1>17, <1>g, <2>1, <2>3, SameAdvances, AssigningReset DEF SyncLabels, ReturnErr
  <2> QED
    BY <2>2, <2>3
<1>18. CASE WriteStatus
  <2>1. pc = "alloc" /\ Len(ids) = Len(sr.spec) /\ UpdateStatus(sr) /\ sr \in SecRule
    BY <1>18, <1>t DEF WriteStatus, AllResolved, TypeOK
  <2>2. CopyOf(sr, secrules[cur])
    BY <2>1 DEF StickyInv, Assigning
  <2> QED
    BY <1>t, <2>1, <2>2, UpdateStatusStays
<1>19. CASE RefetchWriteStatus
  <2>1. pc = "labelled" /\ cur \in SecRules
    BY <1>19, <1>t DEF RefetchWriteStatus, TypeOK
  <2>2. CASE seen[cur].live
    <3>1. UpdateStatus(seen[cur])
      BY <1>19, <2>2 DEF RefetchWriteStatus
    <3> QED
      BY <1>t, <1>a, <2>1, <3>1, UpdateStatusStays
  <2>3. CASE ~seen[cur].live
    BY <1>19, <1>g, <2>3, SameAdvances, AssigningReset DEF RefetchWriteStatus, ReturnErr
  <2> QED
    BY <2>2, <2>3
<1> QED
  BY <1>t, <1>1, <1>2, <1>3, <1>4, <1>5, <1>6, <1>7, <1>8, <1>9, <1>10, <1>11, <1>12, <1>14,
     <1>15, <1>16, <1>17, <1>18, <1>19
     DEF Next, Environment, Informers, Reconcile, Continue, StickyInv

\* The persisted id of a rule without an explicit one never changes while the
\* object lives: for every set of SecRules and specs, whatever conflicts, stale
\* caches, edits and changes of leader come between the steps of the reconciles
\* (resolveOneID, and the versions that the writes carry).
THEOREM StickyIDsAreStable == Spec => StickyStable
<1>1. Init => StickyInv
  <2> SUFFICES ASSUME Init PROVE Copies /\ Assigning
    BY InitType DEF StickyInv
  <2>1. /\ secrules = [s \in SecRules |-> NoRule(0)] /\ seen = secrules /\ standby = <<>>
        /\ pc = "idle" /\ sr = NoRule(0) /\ ids = <<>>
    BY DEF Init
  <2>2. Copies
    <3>1. \A s \in SecRules : secrules[s] = NoRule(0) /\ seen[s] = NoRule(0)
      BY <2>1
    <3>2. NoRule(0).ver = 0 /\ Positive(NoRule(0).ids)
      BY NoIds DEF NoRule
    <3> QED
      BY <2>1, <3>1, <3>2 DEF Copies, CopyOf
  <2> QED
    BY <2>1, <2>2, NoIds DEF Assigning
<1>2. StickyInv /\ [Next]_vars => StickyInv' /\ [Stays]_vars
  <2>1. CASE Next
    BY <2>1, StickyStep
  <2>2. CASE UNCHANGED vars
    BY <2>2 DEF vars, api, caches, locals, bounds, history, StickyInv, TypeOK, Copies, Assigning
  <2> QED
    BY <2>1, <2>2
<1>3. Spec => [][Stays]_vars
  BY <1>1, <1>2, PTL DEF Spec
<1> QED
  BY <1>3 DEF StickyStable, Stays

=============================================================================
