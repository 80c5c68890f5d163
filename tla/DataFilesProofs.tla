-------------------------- MODULE DataFilesProofs ---------------------------
(***************************************************************************)
(* Proofs about DataFiles: for every set of lists, ConfigMaps and WAFs,    *)
(* every assignment of them to namespaces and every number of user steps,  *)
(* a list at rest reports on what it is made of now, no two lists at rest  *)
(* own one file name, a WAF at rest runs with what discovery finds, and a  *)
(* probe sees the content that the build injects.                          *)
(*                                                                         *)
(* None of these is inductive.  A list is at rest only after its worker    *)
(* has let go of it, so FilesInv says what the worker holds in between:    *)
(* its copy and the body it read are current, or the list is queued again  *)
(* (WorkersCurrent); a list past the name check has no Ready rival that is *)
(* not queued (OwnersAlone).  A WAF learns of a new ConfigMap only through *)
(* the hash in the list's status, so a WAF that is not queued runs with    *)
(* what discovery finds or has a list whose hash is not yet that of its    *)
(* content (Injected); that a write always gives another hash is because   *)
(* no chunk recorded so far has the version being written (Stamped).       *)
(***************************************************************************)
EXTENDS DataFilesSteps

-----------------------------------------------------------------------------
(* Steps, continued.                                                        *)

LEMMA ReadyStep ==
    ASSUME ListInv, NEW k \in Kinds, ListReady(k)
    PROVE  ListInv'
<1>1. PICK l : l = lwork[k].key
  OBVIOUS
<1>2. Busy(k) /\ lwork[k].pc = "status" /\ UNCHANGED <<cmap, pub, steps>>
  BY DEF Busy, ListReady
<1>3. /\ l \in Lists /\ KindOf(l) = k /\ Holds(k, l)
      /\ Past(lwork[k].body) /\ ListShape(list[l])
      /\ lwork[k].fresh => list[l].live /\ lwork[k].spec = list[l].spec /\ lwork[k].gen = list[l].gen
      /\ l \notin lq => /\ lwork[k].fresh /\ lwork[k].pc # "reread"
                        /\ lwork[k].pc # "fail" => Reads(l, lwork[k].body)
  BY ONLY <1>1, <1>2, HeldFacts, ListInv, k \in Kinds
<1>4. CASE lwork[k].fresh
  <2>1. PICK x : x = [list[l] EXCEPT !.ready = "True", !.obs = lwork[k].gen, !.hash = lwork[k].body]
    OBVIOUS
  <2>2. /\ WriteList(l, x) /\ lwork' = [lwork EXCEPT ![k] = IdleWorker]
        /\ lq' = lq \cup IF list' # list THEN {l} ELSE {}
    BY <1>1, <1>4, <2>1 DEF ListReady, WriteList
  <2>3. /\ ListShape(x) /\ x.live = list[l].live /\ x.spec = list[l].spec /\ x.gen = list[l].gen
        /\ x.obs = lwork[k].gen /\ x.ready = "True" /\ x.hash = lwork[k].body
    BY ONLY <1>3, <2>1 DEF ListShape
  <2>4. IdleWorker.fresh \in BOOLEAN
    BY DEF IdleWorker
  <2>5. CASE list' # list
    <3>1. lq' = lq \cup {l}
      BY <2>2, <2>5
    <3>2. /\ x.live = TRUE /\ x.obs \in Nat /\ x.obs <= x.gen /\ Past(x.hash) /\ list[l].live
      <4>1. list[l].live \in BOOLEAN /\ list[l].gen \in Nat
        BY <1>3 DEF ListInv, Shapes
      <4> QED
        BY <1>3, <1>4, <2>3, <4>1
    <3> QED
      BY <1>2, <1>3, <2>2, <2>3, <2>4, <3>1, <3>2, Nothing, WriteStep
  <2>6. CASE list' = list
    <3>1. lq' = lq /\ wq' = wq
      BY <2>2, <2>6 DEF WriteList
    <3>2. list[l] = x
      <4>1. list = [m \in Lists |-> list[m]] /\ list' = [list EXCEPT ![l] = x]
        BY <2>2 DEF ListInv, Shapes, WriteList
      <4> QED
        BY ONLY <2>6, <4>1, <1>3
    <3>3. l \notin lq => list[l].obs = list[l].gen /\ Reads(l, list[l].hash)
      BY <1>2, <1>3, <2>3, <3>2
    <3>4. \A o \in Lists : l \notin lq /\ o \notin lq /\ IsReady(o) => ~Rivals(l, o)
      BY <1>2, <1>3 DEF ListInv, OwnersAlone
    <3> QED
      BY <1>1, <1>2, <1>3, <2>2, <2>4, <2>6, <3>1, <3>3, <3>4, Nothing, QuietStep
  <2> QED
    BY <2>5, <2>6
<1>5. CASE ~lwork[k].fresh
  <2>1. Retry(k)
    BY <1>5 DEF ListReady
  <2> QED
    BY <1>2, <2>1, RetryStep
<1> QED
  BY <1>4, <1>5

LEMMA FailStep ==
    ASSUME ListInv, NEW k \in Kinds, ListFail(k)
    PROVE  ListInv'
<1>1. PICK l : l = lwork[k].key
  OBVIOUS
<1>2. /\ Busy(k) /\ lwork[k].pc = "fail" /\ lwork' = [lwork EXCEPT ![k] = IdleWorker]
      /\ UNCHANGED <<cmap, pub, steps>>
  BY DEF Busy, ListFail
<1>3. /\ l \in Lists /\ KindOf(l) = k /\ Holds(k, l) /\ ListShape(list[l])
      /\ lwork[k].fresh => list[l].live /\ lwork[k].spec = list[l].spec /\ lwork[k].gen = list[l].gen
      /\ l \notin lq => lwork[k].fresh
  BY ONLY <1>1, <1>2, HeldFacts, ListInv, k \in Kinds
<1>4. IdleWorker.fresh \in BOOLEAN
  BY DEF IdleWorker
<1>5. CASE lwork[k].fresh
  <2>1. PICK x : x = [list[l] EXCEPT !.ready = "False", !.obs = lwork[k].gen]
    OBVIOUS
  <2>2. WriteList(l, x) /\ lq' = lq \cup IF list' # list THEN {l} ELSE {}
    BY <1>1, <1>5, <2>1 DEF ListFail, WriteList
  <2>3. /\ ListShape(x) /\ x.live = list[l].live /\ x.spec = list[l].spec /\ x.gen = list[l].gen
        /\ x.obs = lwork[k].gen /\ x.ready = "False" /\ x.hash = list[l].hash
    BY ONLY <1>3, <2>1 DEF ListShape
  <2>5. CASE list' # list
    <3>1. lq' = lq \cup {l}
      BY <2>2, <2>5
    <3>2. /\ x.live = TRUE /\ x.obs \in Nat /\ x.obs <= x.gen /\ Past(x.hash) /\ list[l].live
      <4>1. list[l].live \in BOOLEAN /\ list[l].gen \in Nat /\ Past(list[l].hash)
        BY <1>3 DEF ListInv, Shapes, Stamped
      <4> QED
        BY <1>3, <1>5, <2>3, <4>1
    <3> QED
      BY <1>2, <1>3, <1>4, <2>2, <2>3, <3>1, <3>2, Nothing, WriteStep
  <2>6. CASE list' = list
    <3>1. lq' = lq /\ wq' = wq
      BY <2>2, <2>6 DEF WriteList
    <3>2. list[l] = x
      <4>1. list = [m \in Lists |-> list[m]] /\ list' = [list EXCEPT ![l] = x]
        BY <2>2 DEF ListInv, Shapes, WriteList
      <4> QED
        BY ONLY <2>6, <4>1, <1>3
    <3>3. list[l].obs = list[l].gen /\ ~IsReady(l)
      BY <1>3, <1>5, <2>3, <3>2 DEF IsReady
    <3> QED
      BY <1>1, <1>2, <1>3, <1>4, <2>6, <3>1, <3>3, Nothing, QuietStep
  <2> QED
    BY <2>5, <2>6
<1>6. CASE ~lwork[k].fresh
  <2>1. UNCHANGED <<list, lq, wq>> /\ l \in lq
    BY <1>3, <1>6 DEF ListFail
  <2> QED
    BY <1>1, <1>2, <1>3, <1>4, <2>1, Nothing, QuietStep
<1> QED
  BY <1>5, <1>6

\* Nothing of the lists changes.
LEMMA OtherStep ==
    ASSUME ListInv, UNCHANGED <<list, cmap, lq, lwork, steps>>, wq' \subseteq wq, pub' = [w \in Wafs |-> pub'[w]]
    PROVE  ListInv'
<1>1. TypeOK'
  BY DEF ListInv, TypeOK
<1>2. Shapes'
  BY DEF ListInv, Shapes, ListShape, WorkShape
<1>3. Stamp' = Stamp
  BY DEF Stamp
<1>4. Stamped'
  BY <1>3 DEF ListInv, Stamped, Past, Spelled
<1>5. \A m \in Lists : ComposeBody(m)' = ComposeBody(m)
  BY ComposeSame
<1>6. WorkersCurrent'
  BY <1>5 DEF ListInv, WorkersCurrent, Holds, Busy, Reads
<1>7. Current'
  BY <1>5 DEF ListInv, Current, Holds, Busy, Reads, IsReady
<1>8. OwnersAlone'
  BY DEF ListInv, OwnersAlone, Holds, Busy, IsReady, Rivals
<1> QED
  BY <1>1, <1>2, <1>4, <1>6, <1>7, <1>8 DEF ListInv

LEMMA ApplyStep ==
    ASSUME ListInv, NEW l \in Lists, NEW spec \in ListSpecs, ApplyList(l, spec)
    PROVE  ListInv'
<1>1. TypeOK /\ Shapes /\ Stamped /\ Stamp \in Nat
  BY StampNat DEF ListInv
<1>2. Spelled(spec)
  BY SpecsAssumption DEF Spelled
<1>3. User /\ lq' = lq \cup {l} /\ Touched(l) /\ UNCHANGED <<cmap, pub>>
  BY DEF ApplyList
<1>4. CASE list[l].live
  <2>1. PICK x : x = [list[l] EXCEPT !.spec = spec, !.gen = Stamp]
    OBVIOUS
  <2>2. WriteList(l, x)
    BY <1>4, <2>1 DEF ApplyList, WriteList
  <2>3. ListShape(list[l])
    BY <1>1 DEF Shapes
  <2>4. /\ ListShape(x) /\ x.live = list[l].live /\ x.spec = spec /\ x.gen = Stamp
        /\ x.obs = list[l].obs /\ x.ready = list[l].ready /\ x.hash = list[l].hash
    BY ONLY <2>1, <2>3 DEF ListShape
  <2>5. /\ list[l].live \in BOOLEAN /\ list[l].obs \in 0..Stamp /\ list[l].ready \in {"", "True", "False"}
        /\ Past(list[l].hash) /\ Stamp \in 0..Stamp
    <3>1. list[l].obs \in Nat /\ list[l].gen \in Nat /\ list[l].obs <= list[l].gen /\ list[l].gen < Stamp
      BY <1>1 DEF Shapes, Stamped, TypeOK
    <3>2. list[l].obs \in 0..Stamp /\ Stamp \in 0..Stamp
      BY ONLY <1>1, <3>1
    <3> QED
      BY <1>1, <3>2 DEF Shapes, Stamped, TypeOK
  <2> QED
    BY <1>2, <1>3, <1>4, <2>2, <2>4, <2>5, UserStep
<1>5. CASE ~list[l].live
  <2>1. PICK x : x = [NoList EXCEPT !.live = TRUE, !.spec = spec, !.gen = Stamp]
    OBVIOUS
  <2>2. WriteList(l, x)
    BY <1>5, <2>1 DEF ApplyList, WriteList
  <2>3. /\ ListShape(x) /\ x.live = TRUE /\ x.spec = spec /\ x.gen = Stamp
        /\ x.obs = NoList.obs /\ x.ready = NoList.ready /\ x.hash = NoList.hash
    BY ONLY <2>1, Nothing DEF ListShape
  <2>4. 0 \in 0..Stamp /\ Stamp \in 0..Stamp
    BY ONLY <1>1
  <2> QED
    BY <1>2, <1>3, <2>2, <2>3, <2>4, Nothing, UserStep
<1> QED
  BY <1>4, <1>5

LEMMA RemoveStep ==
    ASSUME ListInv, NEW l \in Lists, RemoveList(l)
    PROVE  ListInv'
<1>1. Stamp \in Nat
  BY StampNat DEF ListInv
<1>2. User /\ WriteList(l, NoList) /\ lq' = lq \cup {l} /\ Touched(l) /\ UNCHANGED <<cmap, pub>>
  BY DEF RemoveList
<1>3. 0 \in 0..Stamp /\ 0 \in 0..0 /\ NoList.live \in BOOLEAN
  BY <1>1 DEF NoList, PhraseList
<1> QED
  BY <1>2, <1>3, Nothing, UserStep

LEMMA ListStep == ASSUME ListInv, [Next]_vars PROVE ListInv'
<1>1. ASSUME NEW l \in Lists, NEW spec \in ListSpecs, ApplyList(l, spec) PROVE ListInv'
  BY <1>1, ApplyStep
<1>2. ASSUME NEW l \in Lists, RemoveList(l) PROVE ListInv'
  BY <1>2, RemoveStep
<1>3. ASSUME NEW l \in Lists, PhraseListBegin(l) \/ IPListBegin(l) PROVE ListInv'
  <2>1. PICK b : b = IF Sources(list[l].spec) # 1 THEN Body(FALSE, <<>>) ELSE ComposeBody(l)
    OBVIOUS
  <2>2. ListBegin(l, b)
    BY <1>3, <2>1 DEF PhraseListBegin, IPListBegin, resolveBody, resolveIPBody
  <2> QED
    BY <2>1, <2>2, BeginStep
<1>4. ASSUME NEW c \in ConfigMaps, WriteConfigMap(c) PROVE ListInv'
  BY <1>4, ConfigMapStep
<1>5. ASSUME PhraseListCheck \/ IPListCheck PROVE ListInv'
  BY <1>5, CheckStep
<1>6. ASSUME NEW k \in Kinds, ListLabels(k) \/ ListReread(k) \/ ListReady(k) \/ ListFail(k) PROVE ListInv'
  BY <1>6, LabelsStep, RereadStep, ReadyStep, FailStep
<1>7. ASSUME NEW w \in Wafs, BuildWaf(w) PROVE ListInv'
  <2>1. UNCHANGED <<list, cmap, lq, lwork, steps>> /\ wq' \subseteq wq
    BY <1>7 DEF BuildWaf
  <2>2. pub' = [v \in Wafs |-> pub'[v]]
    BY <1>7 DEF BuildWaf, ListInv, Shapes
  <2> QED
    BY <2>1, <2>2, OtherStep
<1>8. CASE UNCHANGED vars
  <2>1. pub = [w \in Wafs |-> pub[w]]
    BY DEF ListInv, Shapes
  <2> QED
    BY <1>8, <2>1, OtherStep DEF vars
<1> QED
  BY <1>1, <1>2, <1>3, <1>4, <1>5, <1>6, <1>7, <1>8 DEF Next

LEMMA ListInit == ASSUME Init PROVE ListInv
<1>1. MaxUserSteps \in Nat /\ Stamp = 2
  BY SpecsAssumption DEF Init, Stamp
<1>2. /\ cmap = [c \in ConfigMaps |-> 1] /\ lq = {} /\ wq = {} /\ steps = MaxUserSteps
      /\ lwork = [k \in Kinds |-> IdleWorker] /\ pub = [w \in Wafs |-> DiscoverAndResolvePhraseFiles(w)]
  BY DEF Init
<1>3. list = [l \in Lists |-> list[l]] /\ \A l \in Lists : l \notin DOMAIN StartSpecs => list[l] = NoList
  BY DEF Init
<1>4. \A l \in DOMAIN StartSpecs :
         /\ l \in Lists /\ ListShape(list[l]) /\ list[l].live = TRUE /\ list[l].spec = StartSpecs[l] /\ list[l].gen = 1
         /\ list[l].ready = "True" /\ list[l].obs = 1
         /\ list[l].hash = [i \in DOMAIN StartSpecs[l].parts |-> <<StartSpecs[l].parts[i], 1>>]
  <2>1. ASSUME NEW l \in DOMAIN StartSpecs
        PROVE  l \in Lists /\ list[l] = [live |-> TRUE, spec |-> StartSpecs[l], gen |-> 1,
                                         tag |-> StartSpecs[l].file, ready |-> "True", obs |-> 1,
                                         hash |-> [i \in DOMAIN StartSpecs[l].parts |->
                                                      <<StartSpecs[l].parts[i], 1>>]]
    BY StartAssumption DEF Init
  <2> SUFFICES ASSUME NEW l \in DOMAIN StartSpecs
               PROVE  /\ l \in Lists /\ ListShape(list[l]) /\ list[l].live = TRUE /\ list[l].spec = StartSpecs[l]
                      /\ list[l].gen = 1 /\ list[l].ready = "True" /\ list[l].obs = 1
                      /\ list[l].hash = [i \in DOMAIN StartSpecs[l].parts |-> <<StartSpecs[l].parts[i], 1>>]
    OBVIOUS
  <2>2. PICK h, s : s = StartSpecs[l] /\ h = [i \in DOMAIN s.parts |-> <<s.parts[i], 1>>]
    OBVIOUS
  <2>3. list[l] = [live |-> TRUE, spec |-> s, gen |-> 1, tag |-> s.file, ready |-> "True", obs |-> 1, hash |-> h]
    BY <2>1, <2>2
  <2>4. /\ ListShape(list[l]) /\ list[l].live = TRUE /\ list[l].spec = s
        /\ list[l].gen = 1 /\ list[l].ready = "True" /\ list[l].obs = 1 /\ list[l].hash = h
    BY ONLY <2>3 DEF ListShape
  <2>5. l \in Lists
    BY <2>1
  <2> QED
    BY ONLY <2>2, <2>4, <2>5
<1>5. \A l \in DOMAIN StartSpecs : Spelled(StartSpecs[l])
  BY StartAssumption DEF Spelled
<1>6. \A l \in DOMAIN StartSpecs : Past(list[l].hash)
  <2> SUFFICES ASSUME NEW l \in DOMAIN StartSpecs PROVE Past(list[l].hash)
    OBVIOUS
  <2>1. PICK p : p = StartSpecs[l].parts
    OBVIOUS
  <2>2. list[l].hash = [i \in DOMAIN p |-> <<p[i], 1>>]
    BY <1>4, <2>1
  <2>3. Past([i \in DOMAIN p |-> <<p[i], 1>>])
    BY ONLY <1>1 DEF Past
  <2> QED
    BY ONLY <2>2, <2>3
<1>7. TypeOK
  <2>1. \A l \in Lists : /\ list[l].gen \in 0..(MaxUserSteps + 1) /\ list[l].obs <= list[l].gen
                         /\ list[l].ready \in {"", "True", "False"}
                         /\ ~list[l].live => list[l] = NoList
    <3>1. 0 \in 0..(MaxUserSteps + 1) /\ 1 \in 0..(MaxUserSteps + 1)
      BY ONLY <1>1
    <3> SUFFICES ASSUME NEW l \in Lists
                 PROVE  /\ list[l].gen \in 0..(MaxUserSteps + 1) /\ list[l].obs <= list[l].gen
                        /\ list[l].ready \in {"", "True", "False"} /\ (~list[l].live => list[l] = NoList)
      OBVIOUS
    <3>2. CASE l \in DOMAIN StartSpecs
      <4>1. list[l].gen = 1 /\ list[l].obs = 1
        BY ONLY <1>4, <3>2
      <4>2. list[l].ready = "True" /\ list[l].live
        BY ONLY <1>4, <3>2
      <4>3. list[l].gen \in 0..(MaxUserSteps + 1) /\ list[l].obs <= list[l].gen
        BY ONLY <3>1, <4>1
      <4> QED
        BY ONLY <4>2, <4>3
    <3>3. CASE l \notin DOMAIN StartSpecs
      <4>1. list[l] = NoList
        BY <1>3, <3>3
      <4>2. list[l].gen = 0 /\ list[l].obs = 0
        BY ONLY <4>1, Nothing
      <4>3. list[l].gen \in 0..(MaxUserSteps + 1) /\ list[l].obs <= list[l].gen
        BY ONLY <3>1, <4>2
      <4>4. list[l].ready = ""
        BY ONLY <4>1, Nothing
      <4> QED
        BY ONLY <4>1, <4>3, <4>4
    <3> QED
      BY <3>2, <3>3
  <2>2. steps \in 0..MaxUserSteps /\ \A k \in Kinds : lwork[k] = IdleWorker
    BY <1>1, <1>2
  <2> QED
    BY <1>2, <2>1, <2>2, Nothing DEF TypeOK
<1>8. Shapes
  <2>1. \A l \in Lists : ListShape(list[l]) /\ list[l].live \in BOOLEAN /\ list[l].gen \in Nat /\ list[l].obs \in Nat
    <3> SUFFICES ASSUME NEW l \in Lists
                 PROVE  ListShape(list[l]) /\ list[l].live \in BOOLEAN /\ list[l].gen \in Nat /\ list[l].obs \in Nat
      OBVIOUS
    <3>1. CASE l \in DOMAIN StartSpecs
      <4>1. list[l].gen = 1 /\ list[l].obs = 1 /\ ListShape(list[l])
        BY ONLY <1>4, <3>1
      <4>2. list[l].live \in BOOLEAN
        BY <1>4, <3>1
      <4> QED
        BY ONLY <4>1, <4>2
    <3>2. CASE l \notin DOMAIN StartSpecs
      <4>1. list[l] = NoList /\ NoList.live \in BOOLEAN
        BY <1>3, <3>2 DEF NoList, PhraseList
      <4>2. list[l].gen = 0 /\ list[l].obs = 0 /\ ListShape(list[l])
        BY ONLY <4>1, Nothing
      <4> QED
        BY ONLY <4>1, <4>2
    <3> QED
      BY <3>1, <3>2
  <2>2. \A k \in Kinds : lwork[k] = IdleWorker
    BY <1>2
  <2>3. \A k \in Kinds : WorkShape(lwork[k]) /\ lwork[k].fresh \in BOOLEAN
    <3>1. IdleWorker.fresh \in BOOLEAN
      BY DEF IdleWorker
    <3> QED
      BY ONLY <2>2, <3>1, Nothing
  <2>4. cmap \in [ConfigMaps -> Nat] /\ pub = [w \in Wafs |-> pub[w]] /\ lwork = [k \in Kinds |-> lwork[k]]
    BY <1>2
  <2> QED
    BY ONLY <1>3, <2>1, <2>3, <2>4 DEF Shapes
<1>9. Stamped
  <2>1. \A l \in Lists : list[l].gen < Stamp /\ Past(list[l].hash) /\ Spelled(list[l].spec)
    <3> SUFFICES ASSUME NEW l \in Lists PROVE list[l].gen < Stamp /\ Past(list[l].hash) /\ Spelled(list[l].spec)
      OBVIOUS
    <3>1. CASE l \in DOMAIN StartSpecs
      <4>1. list[l].gen = 1 /\ Past(list[l].hash) /\ Spelled(list[l].spec)
        BY ONLY <1>4, <1>5, <1>6, <3>1
      <4> QED
        BY ONLY <1>1, <4>1
    <3>2. CASE l \notin DOMAIN StartSpecs
      <4>1. list[l] = NoList
        BY <1>3, <3>2
      <4>2. list[l].gen = 0 /\ Past(list[l].hash) /\ Spelled(list[l].spec)
        BY ONLY <4>1, Nothing
      <4> QED
        BY ONLY <1>1, <4>2
    <3> QED
      BY <3>1, <3>2
  <2>2. \A c \in ConfigMaps : cmap[c] < Stamp
    BY <1>1, <1>2
  <2>3. \A k \in Kinds : Past(lwork[k].body)
    BY <1>2, Nothing
  <2> QED
    BY <2>1, <2>2, <2>3 DEF Stamped
<1>10. \A k \in Kinds : ~Busy(k) /\ \A l : ~Holds(k, l)
  BY <1>2, Nothing DEF Busy, Holds
<1>11. WorkersCurrent
  BY <1>10 DEF WorkersCurrent
<1>12. Current
  <2> SUFFICES ASSUME NEW l \in Lists, list[l].live PROVE list[l].obs = list[l].gen /\ Reads(l, list[l].hash)
    BY DEF Current
  <2>1. l \in DOMAIN StartSpecs
    BY <1>3, Nothing
  <2>2. PICK s : s = StartSpecs[l]
    OBVIOUS
  <2>3. /\ list[l].spec = s /\ s.content = <<>> /\ s.cm = {} /\ s.parts # <<>>
        /\ \A i \in DOMAIN s.parts : s.parts[i] \in ConfigMaps /\ HomeOf[s.parts[i]] = HomeOf[l]
    BY <1>4, <2>1, <2>2, StartAssumption
  <2>4. ComposeBody(l) = ReadParts(HomeOf[l], s.parts)
    BY <2>3 DEF ComposeBody
  <2>5. \A i \in DOMAIN s.parts : readCM(HomeOf[l], s.parts[i]).ok /\ cmap[s.parts[i]] = 1
    <3>1. \A c : readCM(HomeOf[l], c).ok = (HomeOf[c] = HomeOf[l] /\ cmap[c] > 0)
      BY DEF readCM, Body
    <3>2. \A c \in ConfigMaps : cmap[c] = 1 /\ cmap[c] > 0
      BY ONLY <1>2
    <3> QED
      BY ONLY <2>3, <3>1, <3>2
  <2>6. ReadParts(HomeOf[l], s.parts) = Body(TRUE, [i \in DOMAIN s.parts |-> <<s.parts[i], 1>>])
    BY <2>5 DEF ReadParts
  <2>7. ComposeBody(l).ok /\ ComposeBody(l).chunks = [i \in DOMAIN s.parts |-> <<s.parts[i], 1>>]
    BY <2>4, <2>6 DEF Body
  <2> QED
    BY <1>4, <2>1, <2>2, <2>7 DEF Reads
<1>13. OwnersAlone
  <2>1. \A l \in Lists : IsReady(l) => l \in DOMAIN StartSpecs
    BY <1>3, Nothing DEF IsReady
  <2>2. \A l, o \in DOMAIN StartSpecs : ~Rivals(l, o)
    <3>1. \A l \in DOMAIN StartSpecs : list[l].spec = StartSpecs[l]
      BY ONLY <1>4
    <3>2. \A l, o \in DOMAIN StartSpecs :
             l # o /\ KindOf(l) = KindOf(o) /\ HomeOf[l] = HomeOf[o] => StartSpecs[l].file # StartSpecs[o].file
      BY ONLY StartAssumption
    <3> QED
      BY ONLY <3>1, <3>2 DEF Rivals
  <2> QED
    BY <1>10, <2>1, <2>2 DEF OwnersAlone
<1> QED
  BY <1>7, <1>8, <1>9, <1>11, <1>12, <1>13 DEF ListInv

\* Discovery for a WAF reads the lists of its namespace, and the bodies of the Ready ones.
LEMMA DiscoverSame ==
    ASSUME NEW w \in Wafs,
           \A l \in Lists : HomeOf[l] = HomeOf[w] =>
              /\ list'[l].live = list[l].live /\ list'[l].spec = list[l].spec /\ IsReady(l)' = IsReady(l)
              /\ IsReady(l) => InjectedBody(l)' = InjectedBody(l)
    PROVE  DiscoverAndResolvePhraseFiles(w)' = DiscoverAndResolvePhraseFiles(w)
<1> DEFINE ns == HomeOf[w]
<1>1. PhraseLists \subseteq Lists /\ IPLists \subseteq Lists
  BY DEF Lists
<1>2. ASSUME NEW f
      PROVE  /\ lookupReadyPhraseList(ns, f)' = lookupReadyPhraseList(ns, f)
             /\ lookupReadyIPList(ns, f)' = lookupReadyIPList(ns, f)
  <2>1. /\ Named(PhraseLists, ns, f)' = Named(PhraseLists, ns, f)
        /\ Named(IPLists, ns, f)' = Named(IPLists, ns, f)
    BY <1>1 DEF Named
  <2>2. ASSUME NEW S, \A l \in S : l \in Lists /\ HomeOf[l] = ns PROVE Found(S)' = Found(S)
    <3>1. {l \in S : IsReady(l)'} = {l \in S : IsReady(l)}
      BY <2>2
    <3> QED
      BY <3>1 DEF Found
  <2>3. PICK P, I : P = Named(PhraseLists, ns, f) /\ I = Named(IPLists, ns, f)
    OBVIOUS
  <2>4. \A l \in P \cup I : l \in Lists /\ HomeOf[l] = ns
    BY <1>1, <2>3 DEF Named
  <2>5. Found(P)' = Found(P) /\ Found(I)' = Found(I)
    BY <2>2, <2>4
  <2>6. /\ lookupReadyPhraseList(ns, f)' = Found(P)' /\ lookupReadyIPList(ns, f)' = Found(I)'
    BY <2>1, <2>3 DEF lookupReadyPhraseList, lookupReadyIPList, Found
  <2> QED
    BY <2>3, <2>5, <2>6 DEF lookupReadyPhraseList, lookupReadyIPList
<1>3. ASSUME NEW f, NEW l \in lookupReadyPhraseList(ns, f).list \cup lookupReadyIPList(ns, f).list
      PROVE  l \in Lists /\ HomeOf[l] = ns /\ IsReady(l)
  BY <1>1, <1>3 DEF lookupReadyPhraseList, lookupReadyIPList, Found, Named
<1>4. ASSUME NEW f PROVE StockBody(ns, f)' = StockBody(ns, f)
  <2>1. PICK p : p = lookupReadyPhraseList(ns, f)
    OBVIOUS
  <2>2. PICK l : l = CHOOSE x \in p.list : TRUE
    OBVIOUS
  <2>3. p.list # {} => l \in Lists /\ HomeOf[l] = ns /\ IsReady(l)
    BY <1>3, <2>1, <2>2
  <2>4. p.list # {} => list'[l].spec = list[l].spec /\ resolvePhraseListBody(l)' = resolvePhraseListBody(l)
    BY <2>3 DEF resolvePhraseListBody
  <2>5. lookupReadyPhraseList(ns, f)' = p
    BY <1>2, <2>1
  <2>6. CASE ~p.ok
    BY <2>1, <2>5, <2>6 DEF StockBody
  <2>7. CASE p.ok /\ p.list = {}
    BY <2>1, <2>5, <2>7 DEF StockBody
  <2>8. CASE p.ok /\ p.list # {}
    <3>1. CASE list[l].spec.stock \/ list[l].spec.allow
      <4>1. list'[l].spec.stock \/ list'[l].spec.allow
        BY <2>4, <2>8, <3>1
      <4>2. StockBody(ns, f) = FileOf(resolvePhraseListBody(l))
        BY <2>1, <2>2, <2>8, <3>1 DEF StockBody
      <4>3. StockBody(ns, f)' = FileOf(resolvePhraseListBody(l)')
        BY <2>2, <2>5, <2>8, <4>1 DEF StockBody
      <4> QED
        BY <2>4, <2>8, <4>2, <4>3
    <3>2. CASE ~(list[l].spec.stock \/ list[l].spec.allow)
      <4>1. ~(list'[l].spec.stock \/ list'[l].spec.allow)
        BY <2>4, <2>8, <3>2
      <4>2. StockBody(ns, f) = LookupError
        BY <2>1, <2>2, <2>8, <3>2 DEF StockBody
      <4>3. StockBody(ns, f)' = LookupError
        BY <2>2, <2>5, <2>8, <4>1 DEF StockBody
      <4> QED
        BY <4>2, <4>3
    <3> QED
      BY <3>1, <3>2
  <2> QED
    BY <2>6, <2>7, <2>8
<1>5. ASSUME NEW f PROVE lookupReadyDataFileBody(ns, f)' = lookupReadyDataFileBody(ns, f)
  <2>1. PICK p, i : p = lookupReadyPhraseList(ns, f) /\ i = lookupReadyIPList(ns, f)
    OBVIOUS
  <2>2. PICK l, o : l = (CHOOSE x \in p.list : TRUE) /\ o = (CHOOSE x \in i.list : TRUE)
    OBVIOUS
  <2>3. /\ p.list # {} => l \in Lists /\ HomeOf[l] = ns /\ IsReady(l)
        /\ i.list # {} => o \in Lists /\ HomeOf[o] = ns /\ IsReady(o)
    BY <1>3, <2>1, <2>2
  <2>4. /\ p.list # {} => resolvePhraseListBody(l)' = resolvePhraseListBody(l)
        /\ i.list # {} => resolveIPListBody(o)' = resolveIPListBody(o)
    BY <2>3 DEF resolvePhraseListBody, resolveIPListBody
  <2>5. lookupReadyPhraseList(ns, f)' = p /\ lookupReadyIPList(ns, f)' = i
    BY <1>2, <2>1
  <2>6. CASE ~p.ok
    BY <2>1, <2>5, <2>6 DEF lookupReadyDataFileBody
  <2>7. CASE p.ok /\ p.list # {}
    <3>1. /\ lookupReadyDataFileBody(ns, f) = FileOf(resolvePhraseListBody(l))
          /\ lookupReadyDataFileBody(ns, f)' = FileOf(resolvePhraseListBody(l)')
      BY <2>1, <2>2, <2>5, <2>7 DEF lookupReadyDataFileBody
    <3> QED
      BY <2>4, <2>7, <3>1
  <2>8. CASE p.ok /\ p.list = {} /\ ~i.ok
    BY <2>1, <2>5, <2>8 DEF lookupReadyDataFileBody
  <2>9. CASE p.ok /\ p.list = {} /\ i.ok /\ i.list = {}
    BY <2>1, <2>5, <2>9 DEF lookupReadyDataFileBody
  <2>10. CASE p.ok /\ p.list = {} /\ i.ok /\ i.list # {}
    <3>1. /\ lookupReadyDataFileBody(ns, f) = FileOf(resolveIPListBody(o))
          /\ lookupReadyDataFileBody(ns, f)' = FileOf(resolveIPListBody(o)')
      BY <2>1, <2>2, <2>5, <2>10 DEF lookupReadyDataFileBody
    <3> QED
      BY <2>4, <2>10, <3>1
  <2> QED
    BY <2>6, <2>7, <2>8, <2>9, <2>10
<1>6. checkPhraseListRefs(w)' = checkPhraseListRefs(w) /\ checkIPListRefs(w)' = checkIPListRefs(w)
  BY <1>1 DEF checkPhraseListRefs, checkIPListRefs
<1> DEFINE names == ScanPmFromFileBasenames(LinesOf[w])
           file(f) == IF f \in StockFiles THEN StockBody(HomeOf[w], f) ELSE lookupReadyDataFileBody(HomeOf[w], f)
           missing == {f \in names : ~file(f).found}
           files == [f \in names \ missing |-> file(f).chunks]
           fails == \/ ~checkPhraseListRefs(w) \/ ~checkIPListRefs(w) \/ \E f \in names : ~file(f).ok
                    \/ (missing # {} /\ PolicyOf[w] # "IgnoreUnknown") \/ Chunks(files) > MaxChunks
<1>7. \A f : file(f)' = file(f)
  BY <1>4, <1>5
<1>8. DiscoverAndResolvePhraseFiles(w) = IF fails THEN Unpublished
         ELSE [ok |-> TRUE, files |-> files, lines |-> DropSecLangLinesWithBasenames(LinesOf[w], missing)]
  BY DEF DiscoverAndResolvePhraseFiles
<1>9. DiscoverAndResolvePhraseFiles(w)' = IF fails' THEN Unpublished
         ELSE [ok |-> TRUE, files |-> files', lines |-> DropSecLangLinesWithBasenames(LinesOf[w], missing')]
  BY DEF DiscoverAndResolvePhraseFiles
<1> HIDE DEF file
<1>10. missing' = missing
  BY <1>7
<1>11. files' = files
  BY <1>7, <1>10
<1>12. fails' = fails
  BY <1>6, <1>7, <1>10, <1>11
<1> HIDE DEF fails, files, missing
<1> QED
  BY <1>8, <1>9, <1>10, <1>11, <1>12

\* A WAF whose namespace a step leaves alone.
LEMMA FedSame ==
    ASSUME NEW w \in Wafs, \A l \in Lists : HomeOf[l] = HomeOf[w] => list'[l] = list[l],
           UNCHANGED cmap, pub'[w] = pub[w], Fed(w)
    PROVE  Fed(w)'
<1>1. \A l \in Lists : HomeOf[l] = HomeOf[w] =>
         IsReady(l)' = IsReady(l) /\ InjectedBody(l)' = InjectedBody(l) /\ Behind(l)' = Behind(l)
  <2> SUFFICES ASSUME NEW l \in Lists, HomeOf[l] = HomeOf[w]
               PROVE  IsReady(l)' = IsReady(l) /\ InjectedBody(l)' = InjectedBody(l) /\ Behind(l)' = Behind(l)
    OBVIOUS
  <2>1. IsReady(l)' = IsReady(l)
    BY DEF IsReady
  <2>2. ComposeBody(l)' = ComposeBody(l) /\ InjectedBody(l)' = InjectedBody(l)
    BY ComposeSame, InjectedSame
  <2> QED
    BY <2>1, <2>2 DEF Behind, Reads
<1>2. DiscoverAndResolvePhraseFiles(w)' = DiscoverAndResolvePhraseFiles(w)
  BY <1>1, DiscoverSame
<1> QED
  BY <1>1, <1>2 DEF Fed

\* A write to a ConfigMap leaves discovery as it is, or a Ready list with a hash that
\* its new content does not have.
LEMMA FedByConfigMaps ==
    ASSUME ListInv, NEW cm \in ConfigMaps, WriteConfigMap(cm), NEW w \in Wafs, Fed(w)
    PROVE  Fed(w)'
<1>1. TypeOK /\ Shapes /\ Stamped /\ Stamp \in Nat /\ steps \in 0..MaxUserSteps
  BY StampNat DEF ListInv, TypeOK
<1>2. PICK v \in {0, Stamp} : cmap' = [cmap EXCEPT ![cm] = v]
  BY DEF WriteConfigMap
<1>3. list' = list /\ pub' = pub
  BY DEF WriteConfigMap
<1>4. \A l \in Lists : IsReady(l)' = IsReady(l)
  BY <1>3 DEF IsReady
<1>5. CASE \E l \in Lists : HomeOf[l] = HomeOf[w] /\ IsReady(l) /\ ComposeBody(l)' # ComposeBody(l)
  <2>1. PICK l \in Lists : HomeOf[l] = HomeOf[w] /\ IsReady(l) /\ ComposeBody(l)' # ComposeBody(l)
    BY <1>5
  <2>2. \/ ~ComposeBody(l)'.ok
        \/ \E i \in DOMAIN ComposeBody(l)'.chunks : ComposeBody(l)'.chunks[i] = <<cm, Stamp>>
    BY <1>1, <1>2, <1>3, <2>1, ComposeChanges
  <2>3. PICK q : q = list[l].hash
    OBVIOUS
  <2>4. Past(q)
    BY <1>1, <2>3 DEF Stamped
  <2>5. \A i \in DOMAIN q : q[i] # <<cm, Stamp>>
    BY <1>1, <2>4 DEF Past
  <2>6. ~(ComposeBody(l)'.ok /\ q = ComposeBody(l)'.chunks)
    BY <2>2, <2>5
  <2>7. Behind(l)'
    BY <1>3, <1>4, <2>1, <2>3, <2>6 DEF Behind, Reads
  <2> QED
    BY <2>1, <2>7 DEF Fed
<1>6. CASE \A l \in Lists : HomeOf[l] = HomeOf[w] /\ IsReady(l) => ComposeBody(l)' = ComposeBody(l)
  <2>1. DiscoverAndResolvePhraseFiles(w)' = DiscoverAndResolvePhraseFiles(w)
    <3>1. ASSUME NEW l \in Lists, ComposeBody(l)' = ComposeBody(l) PROVE InjectedBody(l)' = InjectedBody(l)
      <4>1. cmap \in [ConfigMaps -> Nat] /\ Spelled(list[l].spec)
        BY <1>1 DEF Shapes, Stamped
      <4>2. cmap' \in [ConfigMaps -> Nat] /\ Spelled(list[l].spec)'
        BY <1>1, <1>2, <1>3, <4>1 DEF Spelled
      <4>3. Encoded(l) /\ Encoded(l)'
        BY <4>1, <4>2, InjectsEncodedNow, InjectsEncodedNext DEF InjectsEncoded
      <4> QED
        BY <3>1, <4>3 DEF Encoded, AsInjected, Body
    <3> QED
      BY <1>3, <1>4, <1>6, <3>1, DiscoverSame
  <2>2. \A l \in Lists : HomeOf[l] = HomeOf[w] /\ Behind(l) => Behind(l)'
    BY <1>3, <1>4, <1>6 DEF Behind, Reads
  <2> QED
    BY <1>3, <2>1, <2>2 DEF Fed
<1> QED
  BY <1>5, <1>6

\* What a step writes.
LEMMA StepWrites ==
    ASSUME ListInv, [Next]_vars
    PROVE  \/ \E l \in Lists : \E x : WriteList(l, x) /\ UNCHANGED <<cmap, pub>>
           \/ UNCHANGED <<list, cmap, wq, pub>>
           \/ \E cm \in ConfigMaps : WriteConfigMap(cm)
           \/ \E w \in Wafs : BuildWaf(w)
<1> DEFINE Q == \/ \E l \in Lists : \E x : WriteList(l, x) /\ UNCHANGED <<cmap, pub>>
                \/ UNCHANGED <<list, cmap, wq, pub>>
<1>1. ASSUME NEW l \in Lists, NEW spec \in ListSpecs, ApplyList(l, spec) PROVE Q
  <2>1. PICK x : x = IF list[l].live THEN [list[l] EXCEPT !.spec = spec, !.gen = Stamp]
                     ELSE [NoList EXCEPT !.live = TRUE, !.spec = spec, !.gen = Stamp]
    OBVIOUS
  <2>2. WriteList(l, x) /\ UNCHANGED <<cmap, pub>>
    BY <1>1, <2>1 DEF ApplyList, WriteList
  <2> QED
    BY <2>2
<1>2. ASSUME NEW l \in Lists, RemoveList(l) PROVE Q
  BY <1>2 DEF RemoveList
<1>3. ASSUME NEW l \in Lists, PhraseListBegin(l) \/ IPListBegin(l) PROVE Q
  BY <1>3 DEF PhraseListBegin, IPListBegin, ListBegin
<1>4. ASSUME PhraseListCheck \/ IPListCheck PROVE Q
  BY <1>4 DEF PhraseListCheck, IPListCheck, ListCheck
<1>5. ASSUME NEW k \in Kinds, ListLabels(k) \/ ListReread(k) \/ ListReady(k) \/ ListFail(k) PROVE Q
  <2>1. PICK l : l = lwork[k].key
    OBVIOUS
  <2>2. Busy(k)
    BY <1>5 DEF ListLabels, ListReread, ListReady, ListFail, Busy
  <2>3. l \in Lists
    BY ONLY <2>1, <2>2, HeldFacts, ListInv, k \in Kinds
  <2>4. CASE ListLabels(k)
    <3>1. PICK x : x = [list[l] EXCEPT !.tag = list[l].spec.file]
      OBVIOUS
    <3>2. UNCHANGED <<cmap, pub>> /\ (UNCHANGED <<list, wq>> \/ WriteList(l, x))
      BY <2>1, <2>4, <3>1 DEF ListLabels, Retry, WriteList
    <3> QED
      BY <2>3, <3>2
  <2>5. CASE ListReread(k)
    BY <2>5 DEF ListReread
  <2>6. CASE ListReady(k)
    <3>1. PICK x : x = [list[l] EXCEPT !.ready = "True", !.obs = lwork[k].gen, !.hash = lwork[k].body]
      OBVIOUS
    <3>2. UNCHANGED <<cmap, pub>> /\ (UNCHANGED <<list, wq>> \/ WriteList(l, x))
      BY <2>1, <2>6, <3>1 DEF ListReady, Retry, WriteList
    <3> QED
      BY <2>3, <3>2
  <2>7. CASE ListFail(k)
    <3>1. PICK x : x = [list[l] EXCEPT !.ready = "False", !.obs = lwork[k].gen]
      OBVIOUS
    <3>2. UNCHANGED <<cmap, pub>> /\ (UNCHANGED <<list, wq>> \/ WriteList(l, x))
      BY <2>1, <2>7, <3>1 DEF ListFail, WriteList
    <3> QED
      BY <2>3, <3>2
  <2> QED
    BY <1>5, <2>4, <2>5, <2>6, <2>7
<1>6. CASE UNCHANGED vars
  BY <1>6 DEF vars
<1> QED
  BY <1>1, <1>2, <1>3, <1>4, <1>5, <1>6 DEF Next

LEMMA InjectedStep == ASSUME FilesInv, [Next]_vars PROVE Injected'
<1>1. ListInv /\ Injected
  BY DEF FilesInv
<1> SUFFICES ASSUME NEW w \in Wafs, w \notin wq' PROVE Fed(w)'
  BY DEF Injected
<1>2. CASE UNCHANGED <<list, cmap, wq, pub>>
  BY <1>1, <1>2, FedSame DEF Injected
<1>3. ASSUME NEW l \in Lists, NEW x, WriteList(l, x), UNCHANGED <<cmap, pub>> PROVE Fed(w)'
  <2>1. CASE list' = list
    <3>1. wq' = wq
      BY <1>3, <2>1 DEF WriteList
    <3> QED
      BY <1>1, <1>3, <2>1, <3>1, FedSame DEF Injected
  <2>2. CASE list' # list
    <3>1. w \notin wq /\ HomeOf[w] # HomeOf[l]
      BY <1>3, <2>2 DEF WriteList, MapListToWAFs, MapPhraseListToWAFs, MapIPListToWAFs, mapNamespaceWAFs
    <3>2. \A m \in Lists : m # l => list'[m] = list[m]
      BY <1>1, <1>3 DEF WriteList, ListInv, Shapes
    <3> QED
      BY <1>1, <1>3, <3>1, <3>2, FedSame DEF Injected
  <2> QED
    BY <2>1, <2>2
<1>4. ASSUME NEW cm \in ConfigMaps, WriteConfigMap(cm) PROVE Fed(w)'
  <2>1. w \notin wq
    BY <1>4 DEF WriteConfigMap
  <2> QED
    BY <1>1, <1>4, <2>1, FedByConfigMaps DEF Injected
<1>5. ASSUME NEW v \in Wafs, BuildWaf(v) PROVE Fed(w)'
  <2>1. list' = list /\ cmap' = cmap
    BY <1>5 DEF BuildWaf
  <2>2. CASE w \notin wq /\ pub'[w] = pub[w]
    BY <1>1, <2>1, <2>2, FedSame DEF Injected
  <2>3. CASE pub'[w] = DiscoverAndResolvePhraseFiles(w)
    <3>1. \A l \in Lists : IsReady(l)' = IsReady(l) /\ InjectedBody(l)' = InjectedBody(l)
      BY <2>1, InjectedSame DEF IsReady
    <3>2. DiscoverAndResolvePhraseFiles(w)' = DiscoverAndResolvePhraseFiles(w)
      BY <2>1, <3>1, DiscoverSame
    <3> QED
      BY <2>3, <3>2 DEF Fed
  <2>4. \/ w \notin wq /\ pub'[w] = pub[w]
        \/ pub'[w] = DiscoverAndResolvePhraseFiles(w)
    <3>1. pub = [u \in Wafs |-> pub[u]]
      BY <1>1 DEF ListInv, Shapes
    <3>2. CASE w = v /\ DiscoverAndResolvePhraseFiles(v).ok
      BY <1>5, <3>1, <3>2 DEF BuildWaf
    <3>3. CASE ~(w = v /\ DiscoverAndResolvePhraseFiles(v).ok)
      BY <1>5, <3>1, <3>3 DEF BuildWaf
    <3> QED
      BY <3>2, <3>3
  <2> QED
    BY <2>2, <2>3, <2>4
<1> QED
  BY <1>1, <1>2, <1>3, <1>4, <1>5, StepWrites

-----------------------------------------------------------------------------
(* Results.                                                                 *)

\* The two list controllers, the ConfigMap events and the builds keep FilesInv: what a
\* worker holds is current or its list is queued, and what a WAF runs with is what
\* discovery finds or a list of its namespace is still to report.
THEOREM FilesInvHolds == Spec => []FilesInv
<1>1. Init => FilesInv
  <2> SUFFICES ASSUME Init PROVE FilesInv
    OBVIOUS
  <2>1. \A w \in Wafs : pub[w] = DiscoverAndResolvePhraseFiles(w)
    BY DEF Init
  <2> QED
    BY <2>1, ListInit DEF FilesInv, Injected, Fed
<1>2. FilesInv /\ [Next]_vars => FilesInv'
  <2> SUFFICES ASSUME FilesInv, [Next]_vars PROVE FilesInv'
    OBVIOUS
  <2>1. ListInv'
    BY ListStep DEF FilesInv
  <2>2. Injected'
    BY InjectedStep
  <2> QED
    BY <2>1, <2>2 DEF FilesInv
<1> QED
  BY <1>1, <1>2, PTL DEF Spec

\* Types: a worker that holds nothing remembers nothing, and a deleted list leaves
\* nothing, whatever the order of edits, deletions and Reconcile steps.
THEOREM TypeCorrect == Spec => []TypeOK
<1>1. FilesInv => TypeOK
  BY DEF FilesInv, ListInv
<1> QED
  BY <1>1, FilesInvHolds, PTL

\* A list that is neither queued nor held is held by no worker.
LEMMA RestIsFree == ASSUME NEW l, AtRest(l) PROVE l \notin lq /\ \A k \in Kinds : ~Holds(k, l)
  BY DEF AtRest, Holds

\* A list at rest reports on its current spec and content: no edit, ConfigMap change,
\* label write or ignored status error between two reads of the two Reconcile loops
\* leaves it with an older verdict.
THEOREM ListsAtRestAreCurrent == Spec => []RestIsCurrent
<1>1. FilesInv => RestIsCurrent
  <2> SUFFICES ASSUME FilesInv, NEW l \in Lists, list[l].live, AtRest(l)
               PROVE  /\ list[l].obs = list[l].gen
                      /\ IsReady(l) => list[l].hash = ComposeBody(l).chunks /\ ComposeBody(l).ok
    BY DEF RestIsCurrent
  <2>1. Current
    BY DEF FilesInv, ListInv
  <2> QED
    BY <2>1, RestIsFree DEF Current, Reads
<1> QED
  BY <1>1, FilesInvHolds, PTL

\* Two lists of one kind and namespace at rest are not both Ready for one file name:
\* fileNameConflict and ipFileNameConflict, which read the other lists in a step of
\* their own, never let a pair through for good.
THEOREM ListsAtRestOwnAlone == Spec => []RestOwnsAlone
<1>1. FilesInv => RestOwnsAlone
  <2> SUFFICES ASSUME FilesInv, NEW l \in Lists, NEW o \in Lists, l # o, KindOf(l) = KindOf(o), HomeOf[l] = HomeOf[o],
                      AtRest(l), AtRest(o), IsReady(l), IsReady(o), list[l].spec.file = list[o].spec.file
               PROVE  FALSE
    BY DEF RestOwnsAlone
  <2>1. OwnersAlone
    BY DEF FilesInv, ListInv
  <2>2. Rivals(l, o)
    BY DEF Rivals
  <2>3. /\ l \notin lq /\ \A k \in Kinds : ~Holds(k, l)
        /\ o \notin lq /\ \A k \in Kinds : ~Holds(k, o)
    BY RestIsFree
  <2> QED
    BY <2>1, <2>2, <2>3 DEF OwnersAlone
<1> QED
  BY <1>1, FilesInvHolds, PTL

\* With no build and no list of its namespace pending, a WAF runs with the files that
\* DiscoverAndResolvePhraseFiles finds now: no ConfigMap change is lost between the two
\* watches, mapConfigMapToPhraseLists and MapPhraseListToWAFs.
THEOREM WAFsAtRestAreFed == Spec => []RestInjects
<1>1. FilesInv => RestInjects
  <2> SUFFICES ASSUME FilesInv, NEW w \in Wafs, w \notin wq, \A l \in Lists : HomeOf[l] = HomeOf[w] => AtRest(l)
               PROVE  pub[w] = DiscoverAndResolvePhraseFiles(w)
    BY DEF RestInjects
  <2>1. Current /\ Fed(w)
    BY DEF FilesInv, ListInv, Injected
  <2>2. \A l \in Lists : HomeOf[l] = HomeOf[w] => ~Behind(l)
    <3> SUFFICES ASSUME NEW l \in Lists, HomeOf[l] = HomeOf[w], Behind(l) PROVE FALSE
      OBVIOUS
    <3>1. list[l].live /\ IsReady(l) /\ ~Reads(l, list[l].hash)
      BY DEF Behind, IsReady
    <3>2. l \notin lq /\ \A k \in Kinds : ~Holds(k, l)
      BY RestIsFree
    <3> QED
      BY <2>1, <3>1, <3>2 DEF Current
  <2> QED
    BY <2>1, <2>2 DEF Fed
<1> QED
  BY <1>1, FilesInvHolds, PTL

\* Where the probe's Lookup finds a file ready, lookupReadyDataFileBody of the build
\* takes the same body, with binaryData encoded.
LEMMA LookupsAgree ==
    ASSUME Shapes, Stamped, NEW ns, NEW f, Lookup(ns, f).ok, Lookup(ns, f).ready
    PROVE  lookupReadyDataFileBody(ns, f).chunks = AsInjected(Lookup(ns, f).chunks)
<1>0. \A l \in Lists : Encoded(l)
  BY InjectsEncodedNow DEF InjectsEncoded, Shapes, Stamped
<1>1. PICK p, i : p = lookupReadyPhraseList(ns, f) /\ i = lookupReadyIPList(ns, f)
  OBVIOUS
<1>2. PICK P, I : P = pickReadyPhraseList(ns, f) /\ I = pickReadyIPList(ns, f)
  OBVIOUS
<1>3. (P.ok <=> p.ok) /\ P.list = p.list /\ (I.ok <=> i.ok) /\ I.list = i.list
  BY <1>1, <1>2 DEF pickReadyPhraseList, pickReadyIPList, Pick, lookupReadyPhraseList, lookupReadyIPList
<1>4. P.found = (Named(PhraseLists, ns, f) # {})
  BY <1>2 DEF pickReadyPhraseList, Pick
<1>5. p.list \subseteq Named(PhraseLists, ns, f)
  BY <1>1 DEF lookupReadyPhraseList, Found
<1>6. PICK b, c : b = ComposeBody(CHOOSE l \in p.list : TRUE) /\ c = ComposeBody(CHOOSE l \in i.list : TRUE)
  OBVIOUS
<1>e. /\ p.list # {} => InjectedBody(CHOOSE l \in p.list : TRUE) = Body(b.ok, AsInjected(b.chunks))
      /\ i.list # {} => InjectedBody(CHOOSE l \in i.list : TRUE) = Body(c.ok, AsInjected(c.chunks))
  <2>1. p.list \subseteq Lists /\ i.list \subseteq Lists
    BY <1>1 DEF lookupReadyPhraseList, lookupReadyIPList, Found, Named, Lists
  <2> QED
    BY <1>0, <1>6, <2>1 DEF Encoded
<1>7. ASSUME NEW X, NEW d, Lookup(ns, f) = ProbeBody(X, d)
      PROVE  X.list # {} /\ d.ok /\ Lookup(ns, f).chunks = d.chunks
  <2>1. X.list # {}
    <3> SUFFICES ASSUME X.list = {} PROVE FALSE
      OBVIOUS
    <3>1. Lookup(ns, f) = [ok |-> TRUE, found |-> TRUE, ready |-> FALSE, chunks |-> <<>>]
      BY <1>7 DEF ProbeBody
    <3> QED
      BY ONLY <3>1, Lookup(ns, f).ready
  <2>2. Lookup(ns, f) = [ok |-> d.ok, found |-> TRUE, ready |-> d.ok /\ d.chunks # <<>>, chunks |-> d.chunks]
    BY <1>7, <2>1 DEF ProbeBody
  <2> QED
    BY ONLY <2>1, <2>2, Lookup(ns, f).ok, Lookup(ns, f).ready
<1>8. Lookup(ns, f) # ProbeNone(FALSE) /\ Lookup(ns, f) # ProbeNone(TRUE)
  BY DEF ProbeNone
<1>9. /\ ~P.ok => Lookup(ns, f) = ProbeNone(FALSE)
      /\ P.ok /\ P.found => Lookup(ns, f) = ProbeBody(P, ProbePhraseListBody(CHOOSE l \in P.list : TRUE))
      /\ P.ok /\ ~P.found /\ ~I.ok => Lookup(ns, f) = ProbeNone(FALSE)
      /\ P.ok /\ ~P.found /\ I.ok /\ I.found =>
            Lookup(ns, f) = ProbeBody(I, ProbeIPListBody(CHOOSE l \in I.list : TRUE))
      /\ P.ok /\ ~P.found /\ I.ok /\ ~I.found => Lookup(ns, f) = ProbeNone(TRUE)
  BY ONLY <1>2 DEF Lookup
<1>10. p.ok
  BY ONLY <1>3, <1>8, <1>9
<1>11. CASE P.found
  <2>1. Lookup(ns, f) = ProbeBody(P, b)
    BY ONLY <1>3, <1>6, <1>9, <1>10, <1>11 DEF ProbePhraseListBody
  <2>2. p.list # {} /\ b.ok /\ Lookup(ns, f).chunks = b.chunks
    BY <1>3, <1>7, <2>1
  <2>3. lookupReadyDataFileBody(ns, f) = FileOf(Body(b.ok, AsInjected(b.chunks)))
    BY ONLY <1>1, <1>e, <1>10, <2>2 DEF lookupReadyDataFileBody, resolvePhraseListBody
  <2> QED
    BY ONLY <2>2, <2>3 DEF FileOf, Body
<1>12. CASE ~P.found
  <2>1. p.list = {}
    BY <1>4, <1>5, <1>12
  <2>2. I.ok /\ I.found
    BY ONLY <1>3, <1>8, <1>9, <1>10, <1>12
  <2>3. Lookup(ns, f) = ProbeBody(I, c)
    BY ONLY <1>3, <1>6, <1>9, <1>10, <1>12, <2>2 DEF ProbeIPListBody
  <2>4. i.ok /\ i.list # {} /\ c.ok /\ Lookup(ns, f).chunks = c.chunks
    BY <1>3, <1>7, <2>2, <2>3
  <2>5. lookupReadyDataFileBody(ns, f) = FileOf(Body(c.ok, AsInjected(c.chunks)))
    BY ONLY <1>1, <1>e, <1>10, <2>1, <2>4 DEF lookupReadyDataFileBody, resolveIPListBody
  <2> QED
    BY ONLY <2>4, <2>5 DEF FileOf, Body
<1> QED
  BY <1>11, <1>12

\* A probe that assembles evaluates a custom file with the content that the build
\* injects for it, binaryData excepted, which the build injects encoded.  The two
\* discoveries, ResolveDataFiles of probeassemble and DiscoverAndResolvePhraseFiles of
\* the dataplane, were written apart and read ConfigMaps in different ways.
THEOREM ProbesAgree == Spec => []ProbeAgrees
<1>1. FilesInv => ProbeAgrees
  <2> SUFFICES ASSUME FilesInv, NEW w \in Wafs, DiscoverAndResolvePhraseFiles(w).ok, ResolveDataFiles(w).ok,
                      NEW f \in DOMAIN DiscoverAndResolvePhraseFiles(w).files,
                      f \in DOMAIN ResolveDataFiles(w).files, f \notin StockFiles
               PROVE  DiscoverAndResolvePhraseFiles(w).files[f] = AsInjected(ResolveDataFiles(w).files[f])
    BY DEF ProbeAgrees
  <2> DEFINE names == ScanPmFromFileBasenames(LinesOf[w])
             file(g) == IF g \in StockFiles THEN StockBody(HomeOf[w], g) ELSE lookupReadyDataFileBody(HomeOf[w], g)
             missing == {g \in names : ~file(g).found}
             files == [g \in names \ missing |-> file(g).chunks]
             absent == {g \in names : ~Lookup(HomeOf[w], g).ready}
             probed == [g \in names \ absent |-> Lookup(HomeOf[w], g).chunks]
  <2>1. DiscoverAndResolvePhraseFiles(w).files = files
    <3>1. \/ DiscoverAndResolvePhraseFiles(w) = Unpublished
          \/ DiscoverAndResolvePhraseFiles(w) =
                [ok |-> TRUE, files |-> files, lines |-> DropSecLangLinesWithBasenames(LinesOf[w], missing)]
      BY DEF DiscoverAndResolvePhraseFiles
    <3>2. ~Unpublished.ok
      BY DEF Unpublished
    <3> HIDE DEF files, missing
    <3> QED
      BY <3>1, <3>2
  <2>2. ResolveDataFiles(w).files = probed /\ \A g \in names : Lookup(HomeOf[w], g).ok
    <3>1. \/ ResolveDataFiles(w) = Unpublished
          \/ /\ ResolveDataFiles(w) =
                  [ok |-> TRUE, files |-> probed, lines |-> DropSecLangLinesWithBasenames(LinesOf[w], absent)]
             /\ \A g \in names : Lookup(HomeOf[w], g).ok
      BY DEF ResolveDataFiles
    <3>2. ~Unpublished.ok
      BY DEF Unpublished
    <3> HIDE DEF probed, absent
    <3> QED
      BY <3>1, <3>2
  <2>3. f \in names \ missing /\ files[f] = file(f).chunks
    BY <2>1
  <2>4. f \in names \ absent /\ probed[f] = Lookup(HomeOf[w], f).chunks
    BY <2>2
  <2>5. Lookup(HomeOf[w], f).ok /\ Lookup(HomeOf[w], f).ready
    BY <2>2, <2>4
  <2>6. lookupReadyDataFileBody(HomeOf[w], f).chunks = AsInjected(Lookup(HomeOf[w], f).chunks)
    BY <2>5, LookupsAgree DEF FilesInv, ListInv
  <2> HIDE DEF files, probed, missing, absent
  <2> QED
    BY <2>1, <2>2, <2>3, <2>4, <2>6
<1> QED
  BY <1>1, FilesInvHolds, PTL
=============================================================================
