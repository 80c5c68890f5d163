--------------------------- MODULE DataFilesSteps ---------------------------
(***************************************************************************)
(* The invariant of DataFiles that DataFilesProofs rests on, and lemmas:   *)
(* what a body is made of, and that a write by a user, a write to a        *)
(* ConfigMap and the steps of the two workers keep ListInv.                *)
(***************************************************************************)
EXTENDS DataFiles, TLAPS

-----------------------------------------------------------------------------
(* The inductive invariant.                                                 *)

\* The fields of a list and of a worker.
ListShape(x) ==
    x = [live |-> x.live, spec |-> x.spec, gen |-> x.gen, tag |-> x.tag, ready |-> x.ready,
         obs |-> x.obs, hash |-> x.hash]
WorkShape(x) ==
    x = [pc |-> x.pc, key |-> x.key, fresh |-> x.fresh, spec |-> x.spec, gen |-> x.gen, body |-> x.body]

Shapes ==
    /\ list = [l \in Lists |-> list[l]] /\ \A l \in Lists : ListShape(list[l])
    /\ lwork = [k \in Kinds |-> lwork[k]] /\ \A k \in Kinds : WorkShape(lwork[k])
    /\ cmap \in [ConfigMaps -> Nat]
    /\ pub = [w \in Wafs |-> pub[w]]
    /\ \A l \in Lists : list[l].live \in BOOLEAN /\ list[l].gen \in Nat /\ list[l].obs \in Nat
    /\ \A k \in Kinds : lwork[k].fresh \in BOOLEAN

\* A spec that is stored was written by a user or was there at the start.
Spelled(s) ==
    /\ s.cm \subseteq ConfigMaps /\ \A i \in DOMAIN s.parts : s.parts[i] \in ConfigMaps
    /\ s.content = [i \in DOMAIN s.content |-> s.content[i]]
    /\ \A i \in DOMAIN s.content : s.content[i] \notin ConfigMaps \X Nat

\* No chunk of q is of a ConfigMap as it will be written from now on.
Past(q) == \A i \in DOMAIN q : q[i] \in ConfigMaps \X Nat => q[i][2] < Stamp

Stamped ==
    /\ \A l \in Lists : list[l].gen < Stamp /\ Past(list[l].hash) /\ Spelled(list[l].spec)
    /\ \A c \in ConfigMaps : cmap[c] < Stamp
    /\ \A k \in Kinds : Past(lwork[k].body)

Busy(k) == lwork[k].pc # "idle"
Holds(k, l) == Busy(k) /\ lwork[k].key = l

\* The body the list has now.
Reads(l, q) == ComposeBody(l).ok /\ q = ComposeBody(l).chunks

\* What a worker holds is current, or the list is queued again.
WorkersCurrent ==
    /\ \A k \in Kinds : Busy(k) => lwork[k].key \in Lists
    /\ \A k \in Kinds, l \in Lists : Holds(k, l) =>
          /\ lwork[k].fresh => list[l].live /\ lwork[k].spec = list[l].spec /\ lwork[k].gen = list[l].gen
          /\ l \notin lq => /\ lwork[k].fresh /\ lwork[k].pc # "reread"
                            /\ lwork[k].pc # "fail" => Reads(l, lwork[k].body)

Current ==
    \A l \in Lists : list[l].live /\ l \notin lq /\ (\A k \in Kinds : ~Holds(k, l)) =>
       list[l].obs = list[l].gen /\ (IsReady(l) => Reads(l, list[l].hash))

\* Two lists that compete for a name.
Rivals(l, o) == l # o /\ KindOf(l) = KindOf(o) /\ HomeOf[l] = HomeOf[o] /\ list[l].spec.file = list[o].spec.file

\* Where both are Ready one is queued, or about to be refused; and a list that has
\* passed the check has no rival that is Ready and not queued.
OwnersAlone ==
    /\ \A l, o \in Lists : Rivals(l, o) /\ IsReady(l) /\ IsReady(o) /\ l \notin lq /\ o \notin lq =>
          \E k \in Kinds : (Holds(k, l) \/ Holds(k, o)) /\ lwork[k].pc \in {"check", "fail"}
    /\ \A k \in Kinds : \A l, o \in Lists :
          Holds(k, l) /\ lwork[k].pc \in {"labels", "status"} /\ l \notin lq /\ o \notin lq /\ IsReady(o) =>
             ~Rivals(l, o)

ListInv == TypeOK /\ Shapes /\ Stamped /\ WorkersCurrent /\ Current /\ OwnersAlone

\* A list whose status lags behind its content.
Behind(l) == IsReady(l) /\ ~Reads(l, list[l].hash)

\* The WAF runs with what discovery finds now, or a list of its namespace is still to
\* report new content.
Fed(w) == \/ pub[w] = DiscoverAndResolvePhraseFiles(w)
          \/ \E l \in Lists : HomeOf[l] = HomeOf[w] /\ Behind(l)
Injected == \A w \in Wafs : w \notin wq => Fed(w)

FilesInv == ListInv /\ Injected

-----------------------------------------------------------------------------
(* Bodies.                                                                  *)

\* The body of a list depends on its spec and on the ConfigMaps only.
LEMMA ComposeSame ==
    ASSUME NEW l, list'[l].spec = list[l].spec, UNCHANGED cmap
    PROVE  ComposeBody(l)' = ComposeBody(l)
  BY DEF ComposeBody, readCM, ReadParts, Body

LEMMA ReadsSame ==
    ASSUME NEW l, NEW q, list'[l].spec = list[l].spec, UNCHANGED cmap
    PROVE  Reads(l, q)' = Reads(l, q)
  BY ComposeSame DEF Reads

\* So does the body that the build injects,
LEMMA InjectedSame ==
    ASSUME NEW l, list'[l].spec = list[l].spec, UNCHANGED cmap
    PROVE  InjectedBody(l)' = InjectedBody(l)
  BY DEF InjectedBody, readConfigMapKey, AsSent, Body

\* which is the one that the controllers and the probes read, with binaryData encoded.
Encoded(l) == InjectedBody(l) = Body(ComposeBody(l).ok, AsInjected(ComposeBody(l).chunks))
InjectsEncoded == \A l \in Lists : cmap \in [ConfigMaps -> Nat] /\ Spelled(list[l].spec) => Encoded(l)

\* In every state,
LEMMA InjectsEncodedNow == InjectsEncoded
<1> SUFFICES ASSUME NEW l \in Lists, cmap \in [ConfigMaps -> Nat], Spelled(list[l].spec) PROVE Encoded(l)
  BY DEF InjectsEncoded
<1> DEFINE s == list[l].spec
<1>1. BinaryMaps \subseteq ConfigMaps
  BY SpecsAssumption
<1>2. Spelled(s)
  OBVIOUS
<1> HIDE DEF s
<1>a. ASSUME NEW ok \in BOOLEAN, NEW q, NEW r, ok => r = AsInjected(q), ComposeBody(l) = Body(ok, q), InjectedBody(l) = Body(ok, r)
      PROVE  Encoded(l)
  <2>1. ComposeBody(l).ok = ok /\ ComposeBody(l).chunks = IF ok THEN q ELSE <<>>
    BY <1>a DEF Body
  <2> QED
    BY <1>a, <2>1 DEF Encoded, Body
<1>b. \A c \in ConfigMaps : AsSent(c) = IF <<c, cmap[c]>> \in BinaryMaps \X Nat THEN <<c, cmap[c], "base64">> ELSE <<c, cmap[c]>>
  BY DEF AsSent
<1>3. CASE s.content # <<>>
  <2>1. ComposeBody(l) = Body(TRUE, s.content) /\ InjectedBody(l) = Body(TRUE, s.content)
    BY <1>3 DEF ComposeBody, InjectedBody, s
  <2>2. AsInjected(s.content) = s.content
    BY <1>1, <1>2 DEF AsInjected, Spelled
  <2> QED
    BY <1>a, <2>1, <2>2
<1>4. CASE s.content = <<>> /\ s.cm # {}
  <2>1. PICK c : c = CHOOSE x \in s.cm : TRUE
    OBVIOUS
  <2>2. c \in ConfigMaps
    BY <1>2, <1>4, <2>1 DEF Spelled
  <2>3. /\ ComposeBody(l) = Body(HomeOf[c] = HomeOf[l] /\ cmap[c] > 0, <<<<c, cmap[c]>>>>)
        /\ InjectedBody(l) = Body(HomeOf[c] = HomeOf[l] /\ cmap[c] > 0, <<AsSent(c)>>)
    BY <1>4, <2>1 DEF ComposeBody, InjectedBody, readCM, readConfigMapKey, s
  <2>4. AsInjected(<<<<c, cmap[c]>>>>) = <<AsSent(c)>>
    BY <1>b, <2>2 DEF AsInjected
  <2> QED
    BY <1>a, <2>3, <2>4
<1>5. CASE s.content = <<>> /\ s.cm = {}
  <2> DEFINE read == s.parts # <<>> /\ \A i \in DOMAIN s.parts : HomeOf[s.parts[i]] = HomeOf[l] /\ cmap[s.parts[i]] > 0
             q == [i \in DOMAIN s.parts |-> <<s.parts[i], cmap[s.parts[i]]>>]
             r == [i \in DOMAIN s.parts |-> AsSent(s.parts[i])]
  <2>1. /\ \A c : readCM(HomeOf[l], c).ok = (HomeOf[c] = HomeOf[l] /\ cmap[c] > 0)
        /\ \A c : readConfigMapKey(HomeOf[l], c).ok = (HomeOf[c] = HomeOf[l] /\ cmap[c] > 0)
    BY DEF readCM, readConfigMapKey, Body
  <2>2. ComposeBody(l) = Body(read, q)
    <3>1. CASE s.parts # <<>>
      <4>1. ComposeBody(l) = ReadParts(HomeOf[l], s.parts)
        BY <1>5, <3>1 DEF ComposeBody, s
      <4> QED
        BY <2>1, <3>1, <4>1 DEF ReadParts
    <3>2. CASE s.parts = <<>>
      BY <1>5, <3>2 DEF ComposeBody, Body, s
    <3> QED
      BY <3>1, <3>2
  <2>3. InjectedBody(l) = Body(read, r)
    <3>1. InjectedBody(l) = Body(s.parts # <<>> /\ \A i \in DOMAIN s.parts : readConfigMapKey(HomeOf[l], s.parts[i]).ok, r)
      BY <1>5 DEF InjectedBody, s
    <3> QED
      BY <2>1, <3>1
  <2>4. r = AsInjected(q)
    BY <1>2, <1>b DEF AsInjected, Spelled
  <2>5. read \in BOOLEAN
    OBVIOUS
  <2> HIDE DEF read, q, r
  <2> QED
    BY <1>a, <2>2, <2>3, <2>4, <2>5
<1> QED
  BY <1>3, <1>4, <1>5

\* and so in the next one.
LEMMA InjectsEncodedNext == InjectsEncoded'
  BY InjectsEncodedNow, PTL

\* A body is made of what was written before now.
LEMMA ComposePast ==
    ASSUME Shapes, Stamped, NEW l \in Lists
    PROVE  Past(ComposeBody(l).chunks)
<1> DEFINE s == list[l].spec
<1>1. Spelled(s) /\ cmap \in [ConfigMaps -> Nat] /\ \A c \in ConfigMaps : cmap[c] < Stamp
  BY DEF Shapes, Stamped
<1> HIDE DEF s
<1>2. \A c \in ConfigMaps : Past(<<<<c, cmap[c]>>>>)
  BY <1>1 DEF Past
<1>3. Past(<<>>)
  BY DEF Past
<1>4. Past([i \in DOMAIN s.parts |-> <<s.parts[i], cmap[s.parts[i]]>>])
  BY <1>1 DEF Past, Spelled
<1>5. Past(s.content)
  BY <1>1 DEF Past, Spelled
<1>6. s.cm # {} => (CHOOSE c \in s.cm : TRUE) \in ConfigMaps
  BY <1>1 DEF Spelled
<1>7. ComposeBody(l).chunks \in
         {s.content, <<>>, [i \in DOMAIN s.parts |-> <<s.parts[i], cmap[s.parts[i]]>>]}
         \cup {<<<<c, cmap[c]>>>> : c \in ConfigMaps}
  <2>1. CASE s.content # <<>>
    BY <2>1 DEF ComposeBody, Body, s
  <2>2. CASE s.content = <<>> /\ s.cm # {}
    <3>1. ComposeBody(l) = readCM(HomeOf[l], CHOOSE c \in s.cm : TRUE)
      BY <2>2 DEF ComposeBody, s
    <3>2. \A c \in ConfigMaps : readCM(HomeOf[l], c).chunks \in {<<>>, <<<<c, cmap[c]>>>>}
      BY DEF readCM, Body
    <3>3. PICK c \in ConfigMaps : ComposeBody(l) = readCM(HomeOf[l], c)
      BY <1>6, <2>2, <3>1
    <3> QED
      BY <3>2, <3>3
  <2>3. CASE s.content = <<>> /\ s.cm = {}
    BY <2>3 DEF ComposeBody, Body, ReadParts, s
  <2> QED
    BY <2>1, <2>2, <2>3
<1> QED
  BY <1>2, <1>3, <1>4, <1>5, <1>7

\* A write to a ConfigMap changes the body of a list into one with the new version in
\* it, or into none; and only of a list that names the ConfigMap in its namespace.
LEMMA ComposeChanges ==
    ASSUME Shapes, Stamped, NEW l \in Lists, NEW cm \in ConfigMaps, NEW v \in {0, Stamp}, steps \in 0..MaxUserSteps,
           cmap' = [cmap EXCEPT ![cm] = v], UNCHANGED list
    PROVE  \/ ComposeBody(l)' = ComposeBody(l)
           \/ /\ cm \in list[l].spec.cm \/ cm \in Range(list[l].spec.parts)
              /\ HomeOf[l] = HomeOf[cm]
              /\ \/ ~ComposeBody(l)'.ok
                 \/ \E i \in DOMAIN ComposeBody(l)'.chunks : ComposeBody(l)'.chunks[i] = <<cm, Stamp>>
<1> DEFINE s == list[l].spec
<1>1. /\ Spelled(s) /\ cmap \in [ConfigMaps -> Nat] /\ list'[l].spec = s
      /\ cmap'[cm] = v /\ \A c \in ConfigMaps \ {cm} : cmap'[c] = cmap[c]
      /\ v # 0 => v = Stamp
      /\ Stamp \in Nat
  BY SpecsAssumption DEF Shapes, Stamped, Stamp
<1> HIDE DEF s
<1>2. CASE s.content # <<>>
  BY <1>1, <1>2 DEF ComposeBody, Body, s
<1>3. CASE s.content = <<>> /\ s.cm # {}
  <2>1. PICK c : c = CHOOSE x \in s.cm : TRUE
    OBVIOUS
  <2>2. c \in s.cm /\ c \in ConfigMaps
    BY <1>1, <1>3, <2>1 DEF Spelled
  <2>3. /\ ComposeBody(l) = Body(HomeOf[c] = HomeOf[l] /\ cmap[c] > 0, <<<<c, cmap[c]>>>>)
        /\ ComposeBody(l)' = Body(HomeOf[c] = HomeOf[l] /\ cmap'[c] > 0, <<<<c, cmap'[c]>>>>)
    BY <1>1, <1>3, <2>1 DEF ComposeBody, readCM, s
  <2>4. CASE c # cm
    BY <1>1, <2>2, <2>3, <2>4
  <2>5. CASE c = cm /\ HomeOf[c] # HomeOf[l]
    BY <1>1, <2>3, <2>5 DEF Body
  <2>6. CASE c = cm /\ HomeOf[c] = HomeOf[l] /\ v = 0
    <3>1. ~(cmap'[c] > 0)
      BY <1>1, <2>6
    <3>2. ~ComposeBody(l)'.ok
      <4>1. ComposeBody(l)' = Body(FALSE, <<<<c, cmap'[c]>>>>)
        BY <2>3, <3>1
      <4> QED
        BY <4>1 DEF Body
    <3> QED
      BY <2>2, <2>6, <3>2 DEF s
  <2>7. CASE c = cm /\ HomeOf[c] = HomeOf[l] /\ v # 0
    <3>1. ComposeBody(l)'.chunks = <<<<cm, Stamp>>>>
      BY <1>1, <2>3, <2>7 DEF Body
    <3>2. 1 \in DOMAIN ComposeBody(l)'.chunks /\ ComposeBody(l)'.chunks[1] = <<cm, Stamp>>
      BY <3>1
    <3> QED
      BY <2>2, <2>7, <3>2 DEF s
  <2> QED
    BY <2>4, <2>5, <2>6, <2>7
<1>4. CASE s.content = <<>> /\ s.cm = {} /\ s.parts # <<>>
  <2> DEFINE old == [i \in DOMAIN s.parts |-> <<s.parts[i], cmap[s.parts[i]]>>]
             new == [i \in DOMAIN s.parts |-> <<s.parts[i], cmap'[s.parts[i]]>>]
  <2>1. /\ ComposeBody(l) = Body(\A i \in DOMAIN s.parts : HomeOf[s.parts[i]] = HomeOf[l] /\ cmap[s.parts[i]] > 0, old)
        /\ ComposeBody(l)' = Body(\A i \in DOMAIN s.parts : HomeOf[s.parts[i]] = HomeOf[l] /\ cmap'[s.parts[i]] > 0, new)
    <3>1. ComposeBody(l) = ReadParts(HomeOf[l], s.parts)
      BY <1>4 DEF ComposeBody, s
    <3>2. PICK p : p = s.parts
      OBVIOUS
    <3>3. ComposeBody(l)' = ReadParts(HomeOf[l], p)'
      <4>1. list'[l].spec.content = <<>> /\ list'[l].spec.cm = {} /\ list'[l].spec.parts = p /\ p # <<>>
        BY <1>1, <1>4, <3>2
      <4> QED
        BY <4>1 DEF ComposeBody
    <3>4. /\ \A c : readCM(HomeOf[l], c).ok = (HomeOf[c] = HomeOf[l] /\ cmap[c] > 0)
          /\ \A c : readCM(HomeOf[l], c)'.ok = (HomeOf[c] = HomeOf[l] /\ cmap'[c] > 0)
      BY DEF readCM, Body
    <3>5. ReadParts(HomeOf[l], s.parts) =
              Body(\A i \in DOMAIN s.parts : HomeOf[s.parts[i]] = HomeOf[l] /\ cmap[s.parts[i]] > 0, old)
      BY <3>4 DEF ReadParts
    <3>6. ReadParts(HomeOf[l], p)' =
              Body(\A i \in DOMAIN p : HomeOf[p[i]] = HomeOf[l] /\ cmap'[p[i]] > 0,
                   [i \in DOMAIN p |-> <<p[i], cmap'[p[i]]>>])
      BY <3>4 DEF ReadParts
    <3> QED
      BY <3>1, <3>2, <3>3, <3>5, <3>6
  <2>2. CASE \A i \in DOMAIN s.parts : s.parts[i] # cm
    <3>1. \A i \in DOMAIN s.parts : cmap'[s.parts[i]] = cmap[s.parts[i]]
      BY <1>1, <2>2 DEF Spelled
    <3>2. old = new
      BY <3>1
    <3> QED
      BY <2>1, <3>1, <3>2
  <2>3. ASSUME NEW i \in DOMAIN s.parts, s.parts[i] = cm, HomeOf[cm] # HomeOf[l]
        PROVE  ComposeBody(l)' = ComposeBody(l)
    BY <2>1, <2>3 DEF Body
  <2>4. ASSUME NEW i \in DOMAIN s.parts, s.parts[i] = cm, HomeOf[cm] = HomeOf[l]
        PROVE  \/ ~ComposeBody(l)'.ok
               \/ \E j \in DOMAIN ComposeBody(l)'.chunks : ComposeBody(l)'.chunks[j] = <<cm, Stamp>>
    <3>1. CASE ComposeBody(l)'.ok
      <4>1. /\ ComposeBody(l)'.chunks = new
            /\ \A j \in DOMAIN s.parts : HomeOf[s.parts[j]] = HomeOf[l] /\ cmap'[s.parts[j]] > 0
        BY <2>1, <3>1 DEF Body
      <4>2. i \in DOMAIN new /\ new[i] = <<cm, Stamp>>
        BY <1>1, <2>4, <4>1
      <4> QED
        BY <4>1, <4>2
    <3> QED
      BY <3>1
  <2>5. \A i \in DOMAIN s.parts : s.parts[i] \in Range(s.parts)
    BY DEF Range
  <2> HIDE DEF old, new
  <2> QED
    BY <2>2, <2>3, <2>4, <2>5 DEF s
<1>5. CASE s.content = <<>> /\ s.cm = {} /\ s.parts = <<>>
  BY <1>1, <1>5 DEF ComposeBody, Body, s
<1> QED
  BY <1>2, <1>3, <1>4, <1>5

-----------------------------------------------------------------------------
(* Steps.                                                                   *)

LEMMA StampNat == ASSUME TypeOK PROVE Stamp \in Nat /\ MaxUserSteps \in Nat
<1>1. MaxUserSteps \in Nat
  BY SpecsAssumption
<1>2. steps \in 0..MaxUserSteps
  BY DEF TypeOK
<1> QED
  BY <1>1, <1>2 DEF Stamp

\* A user's step.
LEMMA UserFacts ==
    ASSUME TypeOK, User
    PROVE  steps' \in 0..MaxUserSteps /\ Stamp' = Stamp + 1 /\ Stamp \in 0..(MaxUserSteps + 1)
<1>1. MaxUserSteps \in Nat
  BY SpecsAssumption
<1>2. steps \in 0..MaxUserSteps
  BY DEF TypeOK
<1> QED
  BY <1>1, <1>2 DEF User, Stamp

LEMMA PastGrows ==
    ASSUME TypeOK, Stamp' \in {Stamp, Stamp + 1}, NEW q, Past(q)
    PROVE  Past(q)'
<1>1. Stamp \in Nat
  BY StampNat
<1> SUFFICES ASSUME NEW i \in DOMAIN q, q[i] \in ConfigMaps \X Nat PROVE q[i][2] < Stamp'
  BY DEF Past
<1>2. q[i][2] < Stamp /\ q[i][2] \in Nat
  BY DEF Past
<1> QED
  BY <1>1, <1>2

LEMMA Numbers ==
    /\ \A m, s \in Nat : \A g, o : s \in 0..(m + 1) /\ g \in 0..s /\ o \in 0..g =>
          g \in Nat /\ o \in Nat /\ g \in 0..(m + 1) /\ g < s + 1 /\ o <= g
    /\ \A s, g \in Nat : g < s => g < s + 1
<1>1. ASSUME NEW m \in Nat, NEW s \in Nat, NEW g, NEW o, s \in 0..(m + 1), g \in 0..s, o \in 0..g
      PROVE  g \in Nat /\ o \in Nat /\ g \in 0..(m + 1) /\ g < s + 1 /\ o <= g
  <2>1. g \in Nat /\ g <= s /\ s <= m + 1
    BY <1>1
  <2>2. o \in Nat /\ o <= g
    BY <1>1, <2>1
  <2> QED
    BY <2>1, <2>2
<1> QED
  BY <1>1

LEMMA KindsAre == /\ \A l : KindOf(l) \in Kinds
                  /\ \A k \in Kinds : k \in {"PhraseList", "IPList"}
  BY DEF KindOf, Kinds

LEMMA Nothing ==
    /\ ListShape(NoList) /\ WorkShape(IdleWorker) /\ Past(NoList.hash) /\ Spelled(NoList.spec)
    /\ ~NoList.live /\ NoList.gen = 0 /\ NoList.obs = 0 /\ NoList.ready = ""
    /\ IdleWorker.pc = "idle" /\ ~IdleWorker.fresh /\ Past(IdleWorker.body)
<1>1. /\ ListShape(NoList) /\ ~NoList.live /\ NoList.gen = 0 /\ NoList.obs = 0 /\ NoList.ready = ""
      /\ NoList.hash = <<>> /\ NoList.spec = NoSpec
  BY DEF ListShape, NoList, PhraseList
<1>2. WorkShape(IdleWorker) /\ IdleWorker.pc = "idle" /\ ~IdleWorker.fresh /\ IdleWorker.body = <<>>
  BY DEF WorkShape, IdleWorker
<1>3. NoSpec.content = <<>> /\ NoSpec.cm = {} /\ NoSpec.parts = <<>>
  BY DEF NoSpec
<1>4. Past(<<>>) /\ Spelled(NoSpec)
  BY <1>3 DEF Past, Spelled
<1> QED
  BY <1>1, <1>2, <1>4

\* A list is written by a user: it is queued, and a worker that holds it learns that its
\* copy is old (ApplyList, RemoveList).
LEMMA UserStep ==
    ASSUME ListInv, NEW l \in Lists, NEW x, ListShape(x), x.live \in BOOLEAN, x.gen \in 0..Stamp,
           x.obs \in 0..x.gen, x.ready \in {"", "True", "False"}, ~x.live => x = NoList,
           Past(x.hash), Spelled(x.spec), User, WriteList(l, x), lq' = lq \cup {l}, Touched(l),
           UNCHANGED <<cmap, pub>>
    PROVE  ListInv'
<1>1. /\ TypeOK /\ Shapes /\ Stamped /\ WorkersCurrent /\ Current /\ OwnersAlone
      /\ steps' \in 0..MaxUserSteps /\ Stamp' = Stamp + 1 /\ Stamp \in 0..(MaxUserSteps + 1)
      /\ Stamp \in Nat /\ MaxUserSteps \in Nat
  BY UserFacts, StampNat DEF ListInv
<1>x. x.gen \in Nat /\ x.obs \in Nat /\ x.gen \in 0..(MaxUserSteps + 1) /\ x.gen < Stamp + 1 /\ x.obs <= x.gen
  BY ONLY <1>1, Numbers, x.gen \in 0..Stamp, x.obs \in 0..x.gen
<1>2. /\ list' = [m \in Lists |-> list'[m]] /\ list'[l] = x /\ \A m \in Lists \ {l} : list'[m] = list[m]
  BY <1>1 DEF WriteList, Shapes
<1>s. /\ lwork = [k \in Kinds |-> lwork[k]] /\ KindOf(l) \in Kinds
      /\ \A k \in Kinds : WorkShape(lwork[k]) /\ lwork[k].fresh \in BOOLEAN
  BY <1>1, KindsAre DEF Shapes
<1>k. lwork[KindOf(l)].key # l => lwork' = lwork
  <2> SUFFICES ASSUME lwork[KindOf(l)].key # l PROVE lwork' = lwork
    OBVIOUS
  <2>1. (lwork[KindOf(l)].fresh /\ lwork[KindOf(l)].key # l) = lwork[KindOf(l)].fresh
    BY <1>s
  <2>2. lwork' = [lwork EXCEPT ![KindOf(l)] = [lwork[KindOf(l)] EXCEPT !.fresh = lwork[KindOf(l)].fresh]]
    BY <1>s, <2>1 DEF Touched
  <2>3. [lwork[KindOf(l)] EXCEPT !.fresh = lwork[KindOf(l)].fresh] = lwork[KindOf(l)]
    BY ONLY <1>s DEF WorkShape
  <2> QED
    BY ONLY <1>s, <2>2, <2>3
<1>g. lwork[KindOf(l)].key = l =>
         /\ lwork' = [k \in Kinds |-> lwork'[k]] /\ lwork'[KindOf(l)] = [lwork[KindOf(l)] EXCEPT !.fresh = FALSE]
         /\ \A k \in Kinds \ {KindOf(l)} : lwork'[k] = lwork[k]
  <2> SUFFICES ASSUME lwork[KindOf(l)].key = l
               PROVE  /\ lwork' = [k \in Kinds |-> lwork'[k]]
                      /\ lwork'[KindOf(l)] = [lwork[KindOf(l)] EXCEPT !.fresh = FALSE]
                      /\ \A k \in Kinds \ {KindOf(l)} : lwork'[k] = lwork[k]
    OBVIOUS
  <2>1. lwork' = [lwork EXCEPT ![KindOf(l)] = [lwork[KindOf(l)] EXCEPT !.fresh = FALSE]]
    BY <1>s DEF Touched
  <2> QED
    BY ONLY <1>s, <2>1
<1>3. /\ lwork' = [k \in Kinds |-> lwork'[k]]
      /\ \A k \in Kinds : /\ WorkShape(lwork'[k]) /\ lwork'[k].pc = lwork[k].pc /\ lwork'[k].key = lwork[k].key
                          /\ lwork'[k].spec = lwork[k].spec /\ lwork'[k].gen = lwork[k].gen
                          /\ lwork'[k].body = lwork[k].body
  BY ONLY <1>s, <1>k, <1>g DEF WorkShape
<1>f. \A k \in Kinds : /\ k # KindOf(l) \/ lwork[k].key # l => lwork'[k].fresh = lwork[k].fresh
                       /\ k = KindOf(l) /\ lwork[k].key = l => ~lwork'[k].fresh
                       /\ lwork'[k].fresh \in BOOLEAN
  <2>1. lwork[KindOf(l)].key = l => lwork'[KindOf(l)].fresh = FALSE
    BY ONLY <1>s, <1>g DEF WorkShape
  <2>2. \A k \in Kinds : k # KindOf(l) \/ lwork[k].key # l => lwork'[k] = lwork[k]
    BY ONLY <1>k, <1>g
  <2> QED
    BY ONLY <1>s, <2>1, <2>2
<1>4. \A k \in Kinds : ~Holds(k, l) \/ k = KindOf(l)
  BY <1>1 DEF Holds, Busy, TypeOK
<1>5. wq' \subseteq Wafs
  BY <1>1 DEF TypeOK, WriteList, MapListToWAFs, MapPhraseListToWAFs, MapIPListToWAFs, mapNamespaceWAFs
<1>6. \A k \in Kinds : lwork[k].pc = "idle" => lwork'[k] = lwork[k]
  <2> SUFFICES ASSUME NEW k \in Kinds, lwork[k].pc = "idle" PROVE lwork'[k] = lwork[k]
    OBVIOUS
  <2>1. ~lwork[k].fresh
    BY <1>1, Nothing DEF TypeOK
  <2>2. ~lwork'[k].fresh
    BY <1>f, <2>1
  <2>3. lwork'[k].fresh = lwork[k].fresh
    BY <1>1, <1>f, <2>1, <2>2 DEF Shapes
  <2> QED
    BY <1>1, <1>3, <2>3 DEF WorkShape, Shapes
<1>7. TypeOK'
  <2>1. \A m \in Lists \ {l} : /\ list'[m].gen \in 0..(MaxUserSteps + 1) /\ list'[m].obs <= list'[m].gen
                               /\ list'[m].ready \in {"", "True", "False"}
                               /\ ~list'[m].live => list'[m] = NoList
    BY <1>1, <1>2 DEF TypeOK
  <2>2. /\ list'[l].gen \in 0..(MaxUserSteps + 1) /\ list'[l].obs <= list'[l].gen
        /\ list'[l].ready \in {"", "True", "False"} /\ (~list'[l].live => list'[l] = NoList)
    BY <1>2, <1>x
  <2>3. \A k \in Kinds : /\ lwork'[k].pc \in {"idle", "check", "labels", "reread", "status", "fail"}
                         /\ lwork'[k].pc = "idle" <=> lwork'[k] = IdleWorker
                         /\ lwork'[k].pc # "idle" => KindOf(lwork'[k].key) = k
    BY <1>1, <1>3, <1>6, Nothing DEF TypeOK
  <2> QED
    BY <1>1, <1>5, <2>1, <2>2, <2>3 DEF TypeOK
<1>8. Shapes'
  <2>1. \A m \in Lists : ListShape(list'[m]) /\ list'[m].live \in BOOLEAN /\ list'[m].gen \in Nat /\ list'[m].obs \in Nat
    BY <1>1, <1>2, <1>x DEF Shapes
  <2> QED
    BY <1>1, <1>2, <1>3, <1>f, <2>1 DEF Shapes, ListShape, WorkShape
<1>9. Stamped'
  <2>1. \A m \in Lists : list'[m].gen < Stamp' /\ Spelled(list'[m].spec)
    <3>1. \A m \in Lists \ {l} : list'[m].gen < Stamp' /\ Spelled(list'[m].spec)
      <4>1. \A m \in Lists : list[m].gen \in Nat /\ list[m].gen < Stamp /\ Spelled(list[m].spec)
        BY <1>1 DEF Stamped, Shapes
      <4>2. \A m \in Lists : list[m].gen < Stamp + 1
        BY ONLY <1>1, <4>1, Numbers
      <4> QED
        BY <1>1, <1>2, <4>1, <4>2
    <3> QED
      BY <1>1, <1>2, <1>x, <3>1
  <2>2. ASSUME NEW m \in Lists PROVE Past(list[m].hash)'
    <3>1. PICK q : q = list'[m].hash
      OBVIOUS
    <3>2. Past(q)
      BY <1>1, <1>2, <3>1 DEF Stamped
    <3>3. Past(q)'
      BY <1>1, <3>2, PastGrows
    <3> QED
      BY <3>1, <3>3 DEF Past
  <2>3. ASSUME NEW k \in Kinds PROVE Past(lwork[k].body)'
    <3>1. PICK q : q = lwork'[k].body
      OBVIOUS
    <3>2. Past(q)
      BY <1>1, <1>3, <3>1 DEF Stamped
    <3>3. Past(q)'
      BY <1>1, <3>2, PastGrows
    <3> QED
      BY <3>1, <3>3 DEF Past
  <2>4. \A c \in ConfigMaps : cmap'[c] < Stamp'
    <3>1. \A c \in ConfigMaps : cmap[c] \in Nat /\ cmap[c] < Stamp
      BY <1>1 DEF Stamped, Shapes
    <3> QED
      BY ONLY <1>1, <3>1, Numbers, cmap' = cmap
  <2> QED
    BY <2>1, <2>2, <2>3, <2>4 DEF Stamped, Spelled
<1>c. \A m \in Lists \ {l} : ComposeBody(m)' = ComposeBody(m)
  BY <1>2, ComposeSame
<1>h. \A k \in Kinds, m \in Lists : Holds(k, m)' <=> Holds(k, m)
  BY <1>3 DEF Holds, Busy
<1>10. WorkersCurrent'
  <2> SUFFICES ASSUME NEW k \in Kinds, NEW m \in Lists, Holds(k, m)
               PROVE  /\ lwork'[k].fresh => list'[m].live /\ lwork'[k].spec = list'[m].spec /\ lwork'[k].gen = list'[m].gen
                      /\ m \notin lq' => /\ lwork'[k].fresh /\ lwork'[k].pc # "reread"
                                         /\ lwork'[k].pc # "fail" => Reads(m, lwork[k].body)'
    BY <1>1, <1>3, <1>h DEF WorkersCurrent, Busy
  <2>3. CASE m = l
    <3>1. ~lwork'[k].fresh
      BY <1>4, <1>f, <2>3 DEF Holds
    <3> QED
      BY <2>3, <3>1
  <2>4. CASE m # l
    <3>1. lwork'[k].fresh = lwork[k].fresh
      BY <1>f, <2>4 DEF Holds
    <3>2. Reads(m, lwork[k].body)' <=> Reads(m, lwork[k].body)
      BY <1>c, <1>3, <2>4 DEF Reads
    <3>3. list'[m] = list[m] /\ (m \notin lq' => m \notin lq)
      BY <1>2, <2>4
    <3>4. /\ lwork[k].fresh => list[m].live /\ lwork[k].spec = list[m].spec /\ lwork[k].gen = list[m].gen
          /\ m \notin lq => /\ lwork[k].fresh /\ lwork[k].pc # "reread"
                            /\ lwork[k].pc # "fail" => Reads(m, lwork[k].body)
      BY ONLY <1>1, k \in Kinds, m \in Lists, Holds(k, m) DEF WorkersCurrent
    <3> QED
      BY ONLY <1>3, <3>1, <3>2, <3>3, <3>4, k \in Kinds
  <2> QED
    BY <2>3, <2>4
<1>11. Current'
  <2> SUFFICES ASSUME NEW m \in Lists, list'[m].live, m \notin lq', \A k \in Kinds : ~Holds(k, m)'
               PROVE  list'[m].obs = list'[m].gen /\ (IsReady(m)' => Reads(m, list[m].hash)')
    BY DEF Current
  <2>1. m # l /\ list'[m] = list[m] /\ \A k \in Kinds : ~Holds(k, m)
    BY <1>2, <1>h
  <2>2. Reads(m, list[m].hash)' <=> Reads(m, list[m].hash)
    BY <1>c, <2>1 DEF Reads
  <2> QED
    BY <1>1, <2>1, <2>2 DEF Current, IsReady
<1>12. OwnersAlone'
  <2>1. \A m, o \in Lists \ {l} : Rivals(m, o)' <=> Rivals(m, o)
    BY <1>2 DEF Rivals
  <2>2. \A m \in Lists \ {l} : IsReady(m)' <=> IsReady(m)
    BY <1>2 DEF IsReady
  <2>3. \A m \in Lists : m \notin lq' => m \in Lists \ {l} /\ m \notin lq
    OBVIOUS
  <2>4. \A k \in Kinds : lwork'[k].pc = lwork[k].pc
    BY <1>3
  <2> QED
    BY <1>1, <1>h, <2>1, <2>2, <2>3, <2>4 DEF OwnersAlone
<1> QED
  BY <1>7, <1>8, <1>9, <1>10, <1>11, <1>12 DEF ListInv

\* A worker moves on and writes nothing: what is left to show is about the list it holds.
LEMMA QuietStep ==
    ASSUME ListInv, NEW k \in Kinds, NEW l \in Lists, KindOf(l) = k, NEW y,
           UNCHANGED <<list, cmap, wq, pub, steps>>, lwork' = [lwork EXCEPT ![k] = y],
           WorkShape(y), y.fresh \in BOOLEAN, Past(y.body),
           y.pc \in {"idle", "check", "labels", "reread", "status", "fail"}, y.pc = "idle" <=> y = IdleWorker,
           Busy(k) => lwork[k].key = l, y.pc # "idle" => y.key = l,
           lq' \in {lq, lq \cup {l}, lq \ {l}},
           y.pc # "idle" /\ y.fresh => list[l].live /\ y.spec = list[l].spec /\ y.gen = list[l].gen,
           y.pc # "idle" /\ l \notin lq' => y.fresh /\ y.pc # "reread" /\ (y.pc # "fail" => Reads(l, y.body)),
           y.pc = "idle" /\ list[l].live /\ l \notin lq' =>
              list[l].obs = list[l].gen /\ (IsReady(l) => Reads(l, list[l].hash)),
           \A o \in Lists : Rivals(l, o) /\ IsReady(o) /\ l \notin lq' /\ o \notin lq' =>
              y.pc \notin {"labels", "status"} /\ (IsReady(l) => y.pc \in {"check", "fail"})
    PROVE  ListInv'
<1>1. TypeOK /\ Shapes /\ Stamped /\ WorkersCurrent /\ Current /\ OwnersAlone
  BY DEF ListInv
<1>2. lwork' = [j \in Kinds |-> lwork'[j]] /\ lwork'[k] = y /\ \A j \in Kinds \ {k} : lwork'[j] = lwork[j]
  <2>1. lwork = [j \in Kinds |-> lwork[j]]
    BY <1>1 DEF Shapes
  <2> QED
    BY ONLY <2>1, k \in Kinds, lwork' = [lwork EXCEPT ![k] = y]
<1>3. /\ \A j \in Kinds \ {k}, m \in Lists : Holds(j, m)' <=> Holds(j, m)
      /\ \A m \in Lists : Holds(k, m)' <=> y.pc # "idle" /\ m = l
      /\ \A m \in Lists : Holds(k, m) => m = l
      /\ \A j \in Kinds, m \in Lists : Holds(j, m) => KindOf(m) = j
  <2>1. \A j \in Kinds \ {k}, m \in Lists : Holds(j, m)' <=> Holds(j, m)
    BY ONLY <1>2 DEF Holds, Busy
  <2>2. \A m \in Lists : Holds(k, m)' <=> y.pc # "idle" /\ m = l
    BY <1>2 DEF Holds, Busy
  <2>3. \A m \in Lists : Holds(k, m) => m = l
    BY DEF Holds
  <2>4. \A j \in Kinds, m \in Lists : Holds(j, m) => KindOf(m) = j
    BY <1>1 DEF Holds, Busy, TypeOK
  <2> QED
    BY <2>1, <2>2, <2>3, <2>4
<1>4. \A m \in Lists : /\ ComposeBody(m)' = ComposeBody(m) /\ IsReady(m)' = IsReady(m)
                       /\ \A o \in Lists : Rivals(m, o)' = Rivals(m, o)
  BY ComposeSame DEF IsReady, Rivals
<1>5. \A m \in Lists \ {l} : m \in lq' <=> m \in lq
  OBVIOUS
<1>6. TypeOK'
  <2>1. lq' \subseteq Lists
    BY <1>1 DEF TypeOK
  <2>2. \A j \in Kinds : /\ lwork'[j].pc \in {"idle", "check", "labels", "reread", "status", "fail"}
                         /\ lwork'[j].pc = "idle" <=> lwork'[j] = IdleWorker
                         /\ lwork'[j].pc # "idle" => KindOf(lwork'[j].key) = j
    BY <1>1, <1>2 DEF TypeOK
  <2> QED
    BY <1>1, <2>1, <2>2 DEF TypeOK
<1>7. Shapes'
  <2>1. \A j \in Kinds : WorkShape(lwork'[j]) /\ lwork'[j].fresh \in BOOLEAN
    BY <1>1, <1>2 DEF Shapes
  <2> QED
    BY <1>1, <1>2, <2>1 DEF Shapes, WorkShape, ListShape
<1>8. Stamped'
  <2>1. Stamp' = Stamp
    BY DEF Stamp
  <2>2. \A j \in Kinds : Past(lwork[j].body)'
    <3>1. \A j \in Kinds : Past(lwork'[j].body)
      BY <1>1, <1>2 DEF Stamped
    <3> QED
      BY ONLY <2>1, <3>1 DEF Past
  <2>3. \A m \in Lists : list[m].gen < Stamp /\ Past(list[m].hash) /\ Spelled(list[m].spec)
    BY <1>1 DEF Stamped
  <2>4. \A c \in ConfigMaps : cmap[c] < Stamp
    BY <1>1 DEF Stamped
  <2>5. list' = list /\ cmap' = cmap
    OBVIOUS
  <2>6. \A m \in Lists : list'[m].gen < Stamp' /\ Past(list[m].hash)' /\ Spelled(list[m].spec)'
    BY ONLY <2>1, <2>3, <2>5 DEF Past, Spelled
  <2> QED
    BY ONLY <2>1, <2>2, <2>4, <2>5, <2>6 DEF Stamped
<1>9. WorkersCurrent'
  <2>1. ASSUME NEW j \in Kinds, Busy(j)' PROVE lwork'[j].key \in Lists
    BY <1>1, <1>2, <2>1 DEF WorkersCurrent, Busy
  <2>2. ASSUME NEW j \in Kinds, NEW m \in Lists, Holds(j, m)'
        PROVE  /\ lwork'[j].fresh => list'[m].live /\ lwork'[j].spec = list'[m].spec /\ lwork'[j].gen = list'[m].gen
               /\ m \notin lq' => /\ lwork'[j].fresh /\ lwork'[j].pc # "reread"
                                  /\ lwork'[j].pc # "fail" => Reads(m, lwork[j].body)'
    <3>1. CASE j = k
      <4>1. m = l /\ y.pc # "idle"
        BY <1>3, <2>2, <3>1
      <4>2. Reads(m, lwork[j].body)' <=> Reads(l, y.body)
        BY <1>2, <1>4, <3>1, <4>1 DEF Reads
      <4> QED
        BY <1>2, <3>1, <4>1, <4>2
    <3>2. CASE j # k
      <4>1. Holds(j, m) /\ lwork'[j] = lwork[j] /\ (m \in lq' <=> m \in lq)
        BY ONLY <1>2, <1>3, <1>5, <2>2, <3>2, KindOf(l) = k, j \in Kinds, m \in Lists
      <4>2. Reads(m, lwork[j].body)' <=> Reads(m, lwork[j].body)
        BY <1>4, <4>1 DEF Reads
      <4>3. /\ lwork[j].fresh => list[m].live /\ lwork[j].spec = list[m].spec /\ lwork[j].gen = list[m].gen
            /\ m \notin lq => /\ lwork[j].fresh /\ lwork[j].pc # "reread"
                              /\ lwork[j].pc # "fail" => Reads(m, lwork[j].body)
        BY ONLY <1>1, <4>1, j \in Kinds, m \in Lists DEF WorkersCurrent
      <4> QED
        BY ONLY <4>1, <4>2, <4>3, UNCHANGED <<list, cmap, wq, pub, steps>>
    <3> QED
      BY <3>1, <3>2
  <2> QED
    BY <2>1, <2>2 DEF WorkersCurrent
<1>10. Current'
  <2> SUFFICES ASSUME NEW m \in Lists, list'[m].live, m \notin lq', \A j \in Kinds : ~Holds(j, m)'
               PROVE  list'[m].obs = list'[m].gen /\ (IsReady(m)' => Reads(m, list[m].hash)')
    BY DEF Current
  <2>1. Reads(m, list[m].hash)' <=> Reads(m, list[m].hash)
    BY <1>4 DEF Reads
  <2>2. CASE m = l
    <3>1. y.pc = "idle"
      BY <1>3, <2>2
    <3> QED
      BY <1>4, <2>1, <2>2, <3>1
  <2>3. CASE m # l
    <3>1. \A j \in Kinds : ~Holds(j, m)
      BY <1>3, <2>3
    <3> QED
      BY <1>1, <1>4, <1>5, <2>1, <2>3, <3>1 DEF Current
  <2> QED
    BY <2>2, <2>3
<1>11. OwnersAlone'
  <2>1. ASSUME NEW m \in Lists, NEW o \in Lists, Rivals(m, o), IsReady(m), IsReady(o), m \notin lq', o \notin lq'
        PROVE  \E j \in Kinds : (Holds(j, m)' \/ Holds(j, o)') /\ lwork'[j].pc \in {"check", "fail"}
    <3>1. Rivals(o, m)
      BY <2>1 DEF Rivals
    <3>2. CASE m = l \/ o = l
      <4>1. y.pc \in {"check", "fail"}
        BY <2>1, <3>1, <3>2
      <4> QED
        BY <1>2, <1>3, <3>2, <4>1
    <3>3. CASE m # l /\ o # l
      <4>1. PICK j \in Kinds : (Holds(j, m) \/ Holds(j, o)) /\ lwork[j].pc \in {"check", "fail"}
        BY <1>1, <1>5, <2>1, <3>3 DEF OwnersAlone
      <4>2. j # k
        BY <1>3, <3>3, <4>1
      <4> QED
        BY <1>2, <1>3, <4>1, <4>2
    <3> QED
      BY <3>2, <3>3
  <2>2. ASSUME NEW j \in Kinds, NEW m \in Lists, NEW o \in Lists, Holds(j, m)',
               lwork'[j].pc \in {"labels", "status"}, m \notin lq', o \notin lq', IsReady(o)
        PROVE  ~Rivals(m, o)
    <3>1. CASE j = k
      BY <1>2, <1>3, <2>2, <3>1
    <3>2. CASE j # k
      <4>1. Holds(j, m) /\ lwork[j].pc \in {"labels", "status"} /\ m # l
        BY <1>2, <1>3, <2>2, <3>2
      <4>2. CASE o = l
        BY <1>3, <3>2, <4>1, <4>2 DEF Rivals
      <4>3. CASE o # l
        BY <1>1, <1>5, <2>2, <4>1, <4>3 DEF OwnersAlone
      <4> QED
        BY <4>2, <4>3
    <3> QED
      BY <3>1, <3>2
  <2> QED
    BY <1>4, <2>1, <2>2 DEF OwnersAlone
<1> QED
  BY <1>6, <1>7, <1>8, <1>9, <1>10, <1>11 DEF ListInv

\* A worker writes the list it holds: the list is queued for the event of that write.
LEMMA WriteStep ==
    ASSUME ListInv, NEW k \in Kinds, NEW l \in Lists, Holds(k, l), NEW x, NEW y,
           UNCHANGED <<cmap, pub, steps>>, WriteList(l, x), lq' = lq \cup {l}, lwork' = [lwork EXCEPT ![k] = y],
           ListShape(x), list[l].live, x.live = TRUE, x.spec = list[l].spec, x.gen = list[l].gen, x.obs \in Nat, x.obs <= x.gen,
           x.ready \in {"", "True", "False"}, Past(x.hash),
           WorkShape(y), y.fresh \in BOOLEAN, Past(y.body), y.pc \in {"idle", "reread"}, y.pc = "idle" <=> y = IdleWorker,
           y.pc # "idle" => y.key = l /\ (y.fresh => y.spec = list[l].spec /\ y.gen = list[l].gen)
    PROVE  ListInv'
<1>1. TypeOK /\ Shapes /\ Stamped /\ WorkersCurrent /\ Current /\ OwnersAlone
  BY DEF ListInv
<1>2. lwork' = [j \in Kinds |-> lwork'[j]] /\ lwork'[k] = y /\ \A j \in Kinds \ {k} : lwork'[j] = lwork[j]
  <2>1. lwork = [j \in Kinds |-> lwork[j]]
    BY <1>1 DEF Shapes
  <2> QED
    BY ONLY <2>1, k \in Kinds, lwork' = [lwork EXCEPT ![k] = y]
<1>3. list' = [m \in Lists |-> list'[m]] /\ list'[l] = x /\ \A m \in Lists \ {l} : list'[m] = list[m]
  <2>1. list = [m \in Lists |-> list[m]] /\ list' = [list EXCEPT ![l] = x]
    BY <1>1 DEF Shapes, WriteList
  <2> QED
    BY ONLY <2>1, l \in Lists
<1>4. /\ KindOf(l) = k
      /\ \A j \in Kinds \ {k}, m \in Lists : Holds(j, m)' <=> Holds(j, m)
      /\ \A m \in Lists : Holds(k, m)' <=> y.pc # "idle" /\ m = l
      /\ \A m \in Lists : Holds(k, m) => m = l
      /\ \A j \in Kinds, m \in Lists : Holds(j, m) => KindOf(m) = j
  <2>1. \A j \in Kinds \ {k}, m \in Lists : Holds(j, m)' <=> Holds(j, m)
    BY ONLY <1>2 DEF Holds, Busy
  <2>2. \A m \in Lists : Holds(k, m)' <=> y.pc # "idle" /\ m = l
    BY <1>2 DEF Holds, Busy
  <2>3. \A m \in Lists : Holds(k, m) => m = l
    BY DEF Holds
  <2>4. \A j \in Kinds, m \in Lists : Holds(j, m) => KindOf(m) = j
    BY <1>1 DEF Holds, Busy, TypeOK
  <2> QED
    BY <2>1, <2>2, <2>3, <2>4
<1>5. /\ \A m \in Lists : /\ ComposeBody(m)' = ComposeBody(m)
                          /\ \A o \in Lists : Rivals(m, o)' = Rivals(m, o)
      /\ \A m \in Lists \ {l} : IsReady(m)' = IsReady(m)
  <2>1. \A m \in Lists : list'[m].spec = list[m].spec
    BY <1>3
  <2>2. \A m \in Lists : ComposeBody(m)' = ComposeBody(m)
    BY <2>1, ComposeSame
  <2>3. \A m, o \in Lists : Rivals(m, o)' = Rivals(m, o)
    BY ONLY <2>1 DEF Rivals
  <2>4. \A m \in Lists \ {l} : IsReady(m)' = IsReady(m)
    BY ONLY <1>3 DEF IsReady
  <2> QED
    BY <2>2, <2>3, <2>4
<1>6. TypeOK'
  <2>1. lq' \subseteq Lists /\ steps' \in 0..MaxUserSteps
    BY <1>1 DEF TypeOK
  <2>2. wq' \subseteq Wafs
    BY <1>1 DEF TypeOK, WriteList, MapListToWAFs, MapPhraseListToWAFs, MapIPListToWAFs, mapNamespaceWAFs
  <2>3. \A j \in Kinds : /\ lwork'[j].pc \in {"idle", "check", "labels", "reread", "status", "fail"}
                         /\ lwork'[j].pc = "idle" <=> lwork'[j] = IdleWorker
                         /\ lwork'[j].pc # "idle" => KindOf(lwork'[j].key) = j
    <3>1. KindOf(l) = k
      BY <1>4
    <3>2. \A j \in Kinds : /\ lwork[j].pc \in {"idle", "check", "labels", "reread", "status", "fail"}
                           /\ lwork[j].pc = "idle" <=> lwork[j] = IdleWorker
                           /\ lwork[j].pc # "idle" => KindOf(lwork[j].key) = j
      BY <1>1 DEF TypeOK
    <3>3. /\ y.pc \in {"idle", "check", "labels", "reread", "status", "fail"} /\ (y.pc = "idle" <=> y = IdleWorker)
          /\ y.pc # "idle" => KindOf(y.key) = k
      BY <3>1
    <3> QED
      BY ONLY <1>2, <3>2, <3>3
  <2>4. \A m \in Lists : /\ list'[m].gen \in 0..(MaxUserSteps + 1) /\ list'[m].obs <= list'[m].gen
                         /\ list'[m].ready \in {"", "True", "False"}
                         /\ ~list'[m].live => list'[m] = NoList
    <3>1. \A m \in Lists : /\ list[m].gen \in 0..(MaxUserSteps + 1) /\ list[m].obs <= list[m].gen
                           /\ list[m].ready \in {"", "True", "False"}
                           /\ ~list[m].live => list[m] = NoList
      BY <1>1 DEF TypeOK
    <3>2. x.gen \in 0..(MaxUserSteps + 1) /\ x.obs <= x.gen /\ x.ready \in {"", "True", "False"} /\ x.live
      BY <3>1
    <3> QED
      BY ONLY <1>3, <3>1, <3>2
  <2> QED
    BY ONLY <2>1, <2>2, <2>3, <2>4 DEF TypeOK
<1>7. Shapes'
  <2>1. \A j \in Kinds : WorkShape(lwork'[j]) /\ lwork'[j].fresh \in BOOLEAN
    BY <1>1, <1>2 DEF Shapes
  <2>2. \A m \in Lists : ListShape(list'[m]) /\ list'[m].live \in BOOLEAN /\ list'[m].gen \in Nat /\ list'[m].obs \in Nat
    BY <1>1, <1>3 DEF Shapes
  <2> QED
    BY <1>1, <1>2, <1>3, <2>1, <2>2 DEF Shapes, WorkShape, ListShape
<1>8. Stamped'
  <2>1. Stamp' = Stamp
    BY DEF Stamp
  <2>2. \A j \in Kinds : Past(lwork[j].body)'
    <3>1. \A j \in Kinds : Past(lwork'[j].body)
      BY <1>1, <1>2 DEF Stamped
    <3> QED
      BY ONLY <2>1, <3>1 DEF Past
  <2>3. \A m \in Lists : list'[m].gen < Stamp /\ Past(list'[m].hash) /\ Spelled(list'[m].spec)
    <3>1. \A m \in Lists : list[m].gen < Stamp /\ Past(list[m].hash) /\ Spelled(list[m].spec)
      BY <1>1 DEF Stamped
    <3> QED
      BY <1>3, <3>1
  <2>4. \A c \in ConfigMaps : cmap'[c] < Stamp
    BY <1>1 DEF Stamped
  <2>6. \A m \in Lists : list'[m].gen < Stamp' /\ Past(list[m].hash)' /\ Spelled(list[m].spec)'
    BY ONLY <2>1, <2>3 DEF Past, Spelled
  <2> QED
    BY ONLY <2>1, <2>2, <2>4, <2>6 DEF Stamped
<1>9. WorkersCurrent'
  <2>1. ASSUME NEW j \in Kinds, Busy(j)' PROVE lwork'[j].key \in Lists
    BY <1>1, <1>2, <2>1 DEF WorkersCurrent, Busy
  <2>2. ASSUME NEW j \in Kinds, NEW m \in Lists, Holds(j, m)'
        PROVE  /\ lwork'[j].fresh => list'[m].live /\ lwork'[j].spec = list'[m].spec /\ lwork'[j].gen = list'[m].gen
               /\ m \notin lq' => /\ lwork'[j].fresh /\ lwork'[j].pc # "reread"
                                  /\ lwork'[j].pc # "fail" => Reads(m, lwork[j].body)'
    <3>1. CASE j = k
      <4>1. m = l /\ y.pc # "idle"
        BY <1>4, <2>2, <3>1
      <4> QED
        <5>1. y.fresh => x.live /\ y.spec = x.spec /\ y.gen = x.gen
          BY <4>1
        <5> QED
          BY ONLY <1>2, <1>3, <3>1, <4>1, <5>1, lq' = lq \cup {l}
    <3>2. CASE j # k
      <4>1. Holds(j, m) /\ lwork'[j] = lwork[j] /\ m # l
        BY ONLY <1>2, <1>4, <2>2, <3>2, j \in Kinds, m \in Lists
      <4>2. Reads(m, lwork[j].body)' <=> Reads(m, lwork[j].body)
        BY <1>5, <4>1 DEF Reads
      <4>3. /\ lwork[j].fresh => list[m].live /\ lwork[j].spec = list[m].spec /\ lwork[j].gen = list[m].gen
            /\ m \notin lq => /\ lwork[j].fresh /\ lwork[j].pc # "reread"
                              /\ lwork[j].pc # "fail" => Reads(m, lwork[j].body)
        BY ONLY <1>1, <4>1, j \in Kinds, m \in Lists DEF WorkersCurrent
      <4>4. list'[m] = list[m] /\ (m \notin lq' => m \notin lq)
        BY <1>3, <4>1
      <4> QED
        BY ONLY <4>1, <4>2, <4>3, <4>4
    <3> QED
      BY <3>1, <3>2
  <2> QED
    BY <2>1, <2>2 DEF WorkersCurrent
<1>10. Current'
  <2> SUFFICES ASSUME NEW m \in Lists, list'[m].live, m \notin lq', \A j \in Kinds : ~Holds(j, m)'
               PROVE  list'[m].obs = list'[m].gen /\ (IsReady(m)' => Reads(m, list[m].hash)')
    BY DEF Current
  <2>1. m # l /\ list'[m] = list[m] /\ m \notin lq
    BY <1>3
  <2>2. Reads(m, list[m].hash)' <=> Reads(m, list[m].hash)
    BY <1>5, <2>1 DEF Reads
  <2>3. \A j \in Kinds : ~Holds(j, m)
    BY ONLY <1>4, <2>1, m \in Lists, \A j \in Kinds : ~Holds(j, m)'
  <2> QED
    BY <1>1, <1>5, <2>1, <2>2, <2>3 DEF Current
<1>11. OwnersAlone'
  <2>1. ASSUME NEW m \in Lists, NEW o \in Lists, Rivals(m, o), IsReady(m), IsReady(o), m \notin lq', o \notin lq'
        PROVE  \E j \in Kinds : (Holds(j, m)' \/ Holds(j, o)') /\ lwork'[j].pc \in {"check", "fail"}
    <3>1. PICK j \in Kinds : (Holds(j, m) \/ Holds(j, o)) /\ lwork[j].pc \in {"check", "fail"}
      BY <1>1, <2>1 DEF OwnersAlone
    <3>2. j # k
      BY <1>4, <2>1, <3>1
    <3> QED
      BY <1>2, <1>4, <3>1, <3>2
  <2>2. ASSUME NEW j \in Kinds, NEW m \in Lists, NEW o \in Lists, Holds(j, m)',
               lwork'[j].pc \in {"labels", "status"}, m \notin lq', o \notin lq', IsReady(o)
        PROVE  ~Rivals(m, o)
    <3>1. j # k
      BY <1>2, <2>2
    <3>2. Holds(j, m) /\ lwork[j].pc \in {"labels", "status"} /\ m \notin lq /\ o \notin lq
      BY <1>2, <1>4, <2>2, <3>1
    <3> QED
      BY ONLY <1>1, <2>2, <3>2, j \in Kinds, m \in Lists, o \in Lists DEF OwnersAlone
  <2>3. \A m \in Lists : m \notin lq' => m \in Lists \ {l}
    OBVIOUS
  <2> QED
    BY <1>5, <2>1, <2>2, <2>3 DEF OwnersAlone
<1> QED
  BY <1>6, <1>7, <1>8, <1>9, <1>10, <1>11 DEF ListInv

\* A ConfigMap is written: the lists whose body changes are queued.
LEMMA ConfigMapStep ==
    ASSUME ListInv, NEW cm \in ConfigMaps, WriteConfigMap(cm)
    PROVE  ListInv'
<1>1. /\ TypeOK /\ Shapes /\ Stamped /\ WorkersCurrent /\ Current /\ OwnersAlone
      /\ steps' \in 0..MaxUserSteps /\ Stamp' = Stamp + 1 /\ Stamp \in Nat
  BY UserFacts, StampNat DEF ListInv, WriteConfigMap
<1>2. PICK v \in {0, Stamp} : cmap' = [cmap EXCEPT ![cm] = v]
  BY DEF WriteConfigMap
<1>3. /\ list' = list /\ lwork' = lwork /\ wq' = wq /\ pub' = pub
      /\ lq' = lq \cup mapConfigMapToPhraseLists(cm) \cup mapConfigMapToIPLists(cm)
  BY DEF WriteConfigMap
<1>4. ASSUME NEW l \in Lists, list[l].live, l \notin lq' PROVE ComposeBody(l)' = ComposeBody(l)
  <2>1. steps \in 0..MaxUserSteps
    BY <1>1 DEF TypeOK
  <2>2. ~(/\ cm \in list[l].spec.cm \/ cm \in Range(list[l].spec.parts)
          /\ HomeOf[l] = HomeOf[cm])
    BY <1>3, <1>4 DEF Lists, mapConfigMapToPhraseLists, mapConfigMapToIPLists, phraseListUsesConfigMap,
                      ipListUsesConfigMap
  <2> QED
    BY <1>1, <1>2, <1>3, <2>1, <2>2, ComposeChanges
<1>5. /\ lq \subseteq lq' /\ lq' \subseteq Lists
      /\ \A k \in Kinds, m \in Lists : Holds(k, m)' = Holds(k, m)
      /\ \A m \in Lists : IsReady(m)' = IsReady(m) /\ \A o \in Lists : Rivals(m, o)' = Rivals(m, o)
  <2>1. lq \subseteq lq' /\ lq' \subseteq Lists
    BY <1>1, <1>3 DEF TypeOK, Lists, mapConfigMapToPhraseLists, mapConfigMapToIPLists
  <2> QED
    BY <1>3, <2>1 DEF Holds, Busy, IsReady, Rivals
<1>6. TypeOK'
  BY <1>1, <1>3, <1>5 DEF TypeOK
<1>7. Shapes'
  <2>1. cmap' \in [ConfigMaps -> Nat]
    <3>1. cmap \in [ConfigMaps -> Nat] /\ v \in Nat
      BY <1>1 DEF Shapes
    <3> QED
      BY ONLY <1>2, <3>1
  <2> QED
    BY <1>1, <1>3, <2>1 DEF Shapes, ListShape, WorkShape
<1>8. Stamped'
  <2>1. \A c \in ConfigMaps : cmap'[c] < Stamp'
    <3>1. \A c \in ConfigMaps : cmap[c] \in Nat /\ cmap[c] < Stamp
      BY <1>1 DEF Stamped, Shapes
    <3>2. cmap \in [ConfigMaps -> Nat] /\ v \in Nat
      BY <1>1 DEF Shapes
    <3>3. \A c \in ConfigMaps : cmap'[c] = v \/ cmap'[c] = cmap[c]
      BY ONLY <1>2, <3>2
    <3>4. v < Stamp + 1
      BY <1>1
    <3> QED
      BY ONLY <1>1, <3>1, <3>3, <3>4, Numbers
  <2>2. \A m \in Lists : list'[m].gen < Stamp' /\ Spelled(list'[m].spec)
    <3>1. \A m \in Lists : list[m].gen \in Nat /\ list[m].gen < Stamp /\ Spelled(list[m].spec)
      BY <1>1 DEF Stamped, Shapes
    <3> QED
      BY ONLY <1>1, <1>3, <3>1, Numbers
  <2>3. ASSUME NEW m \in Lists PROVE Past(list[m].hash)'
    <3>1. PICK q : q = list'[m].hash
      OBVIOUS
    <3>2. Past(q)
      BY <1>1, <1>3, <3>1 DEF Stamped
    <3>3. Past(q)'
      BY <1>1, <3>2, PastGrows
    <3> QED
      BY <3>1, <3>3 DEF Past
  <2>4. ASSUME NEW k \in Kinds PROVE Past(lwork[k].body)'
    <3>1. PICK q : q = lwork'[k].body
      OBVIOUS
    <3>2. Past(q)
      BY <1>1, <1>3, <3>1 DEF Stamped
    <3>3. Past(q)'
      BY <1>1, <3>2, PastGrows
    <3> QED
      BY <3>1, <3>3 DEF Past
  <2> QED
    BY <2>1, <2>2, <2>3, <2>4 DEF Stamped, Spelled
<1>9. WorkersCurrent'
  <2>1. ASSUME NEW k \in Kinds, NEW m \in Lists, Holds(k, m)
        PROVE  /\ lwork[k].fresh => list[m].live /\ lwork[k].spec = list[m].spec /\ lwork[k].gen = list[m].gen
               /\ m \notin lq' => /\ lwork[k].fresh /\ lwork[k].pc # "reread"
                                  /\ lwork[k].pc # "fail" => Reads(m, lwork[k].body)'
    <3>1. /\ lwork[k].fresh => list[m].live /\ lwork[k].spec = list[m].spec /\ lwork[k].gen = list[m].gen
          /\ m \notin lq => /\ lwork[k].fresh /\ lwork[k].pc # "reread"
                            /\ lwork[k].pc # "fail" => Reads(m, lwork[k].body)
      BY ONLY <1>1, <2>1, k \in Kinds, m \in Lists DEF WorkersCurrent
    <3>2. m \notin lq' => m \notin lq
      BY <1>5
    <3>3. m \notin lq' => (Reads(m, lwork[k].body)' <=> Reads(m, lwork[k].body))
      BY <1>3, <1>4, <3>1, <3>2 DEF Reads
    <3> QED
      BY ONLY <3>1, <3>2, <3>3
  <2> QED
    BY <1>1, <1>3, <1>5, <2>1 DEF WorkersCurrent, Busy
<1>10. Current'
  <2> SUFFICES ASSUME NEW m \in Lists, list'[m].live, m \notin lq', \A j \in Kinds : ~Holds(j, m)'
               PROVE  list'[m].obs = list'[m].gen /\ (IsReady(m)' => Reads(m, list[m].hash)')
    BY DEF Current
  <2>1. list'[m] = list[m] /\ m \notin lq /\ ComposeBody(m)' = ComposeBody(m)
    BY <1>3, <1>4, <1>5
  <2>2. Reads(m, list[m].hash)' <=> Reads(m, list[m].hash)
    BY <2>1 DEF Reads
  <2> QED
    BY <1>1, <1>5, <2>1, <2>2 DEF Current
<1>11. OwnersAlone'
  <2>1. ASSUME NEW m \in Lists, NEW o \in Lists, Rivals(m, o)', IsReady(m)', IsReady(o)', m \notin lq', o \notin lq'
        PROVE  \E j \in Kinds : (Holds(j, m)' \/ Holds(j, o)') /\ lwork'[j].pc \in {"check", "fail"}
    <3>1. Rivals(m, o) /\ IsReady(m) /\ IsReady(o) /\ m \notin lq /\ o \notin lq
      BY <1>5, <2>1
    <3>2. PICK j \in Kinds : (Holds(j, m) \/ Holds(j, o)) /\ lwork[j].pc \in {"check", "fail"}
      BY <1>1, <3>1 DEF OwnersAlone
    <3> QED
      BY <1>3, <1>5, <3>2
  <2>2. ASSUME NEW j \in Kinds, NEW m \in Lists, NEW o \in Lists, Holds(j, m)',
               lwork'[j].pc \in {"labels", "status"}, m \notin lq', o \notin lq', IsReady(o)'
        PROVE  ~Rivals(m, o)'
    <3>1. /\ Holds(j, m) /\ lwork[j].pc \in {"labels", "status"} /\ m \notin lq /\ o \notin lq /\ IsReady(o)
          /\ Rivals(m, o)' = Rivals(m, o)
      BY <1>3, <1>5, <2>2
    <3> QED
      BY <1>1, <3>1 DEF OwnersAlone
  <2> QED
    BY ONLY <2>1, <2>2 DEF OwnersAlone
<1> QED
  BY <1>6, <1>7, <1>8, <1>9, <1>10, <1>11 DEF ListInv

\* What a worker that holds a list knows.
LEMMA HeldFacts ==
    ASSUME ListInv, NEW k \in Kinds, Busy(k), NEW l, l = lwork[k].key
    PROVE  /\ l \in Lists /\ KindOf(l) = k /\ Holds(k, l) /\ WorkShape(lwork[k]) /\ lwork[k].fresh \in BOOLEAN
           /\ Past(lwork[k].body) /\ ListShape(list[l])
           /\ lwork[k].fresh => list[l].live /\ lwork[k].spec = list[l].spec /\ lwork[k].gen = list[l].gen
           /\ l \notin lq => /\ lwork[k].fresh /\ lwork[k].pc # "reread"
                             /\ lwork[k].pc # "fail" => Reads(l, lwork[k].body)
<1>1. TypeOK /\ Shapes /\ Stamped /\ WorkersCurrent
  BY DEF ListInv
<1>2. l \in Lists /\ KindOf(l) = k /\ Holds(k, l)
  BY <1>1 DEF WorkersCurrent, TypeOK, Holds, Busy
<1>3. WorkShape(lwork[k]) /\ lwork[k].fresh \in BOOLEAN /\ ListShape(list[l])
  BY <1>1, <1>2 DEF Shapes
<1>4. Past(lwork[k].body)
  BY <1>1 DEF Stamped
<1>5. /\ lwork[k].fresh => list[l].live /\ lwork[k].spec = list[l].spec /\ lwork[k].gen = list[l].gen
      /\ l \notin lq => /\ lwork[k].fresh /\ lwork[k].pc # "reread"
                        /\ lwork[k].pc # "fail" => Reads(l, lwork[k].body)
  BY ONLY <1>1, <1>2, k \in Kinds DEF WorkersCurrent
<1> QED
  BY <1>2, <1>3, <1>4, <1>5

LEMMA BeginStep ==
    ASSUME ListInv, NEW l \in Lists, NEW b,
           b = IF Sources(list[l].spec) # 1 THEN Body(FALSE, <<>>) ELSE ComposeBody(l), ListBegin(l, b)
    PROVE  ListInv'
<1>1. TypeOK /\ Shapes /\ Stamped
  BY DEF ListInv
<1> DEFINE k == KindOf(l)
<1>2. k \in Kinds /\ l \in lq /\ lwork[k].pc = "idle" /\ lwork[k] = IdleWorker /\ lq' = lq \ {l}
  BY <1>1, KindsAre DEF ListBegin, TypeOK
<1>3. UNCHANGED <<list, cmap, wq, pub, steps>>
  BY DEF ListBegin
<1>4. ~IsReady(l) \/ list[l].live
  BY DEF IsReady
<1>5. CASE ~list[l].live
  <2>1. lwork' = [lwork EXCEPT ![k] = IdleWorker]
    <3>1. lwork' = lwork
      BY <1>5 DEF ListBegin
    <3> QED
      BY <1>1, <1>2, <3>1 DEF Shapes
  <2>2. ~IsReady(l) /\ IdleWorker.fresh \in BOOLEAN /\ ~Busy(k)
    BY <1>2, <1>5, Nothing DEF IsReady, IdleWorker, Busy
  <2> HIDE DEF k
  <2> QED
    BY <1>2, <1>3, <1>5, <2>1, <2>2, QuietStep, Nothing DEF k
<1>6. CASE list[l].live
  <2> DEFINE p == IF b.ok /\ Len(b.chunks) <= MaxChunks THEN "check" ELSE "fail"
             y == [pc |-> p, key |-> l, fresh |-> TRUE, spec |-> list[l].spec, gen |-> list[l].gen, body |-> b.chunks]
  <2>1. lwork' = [lwork EXCEPT ![k] = y]
    BY <1>6 DEF ListBegin
  <2>2. p \in {"check", "fail"} /\ (p # "fail" => b.ok)
    OBVIOUS
  <2>3. Past(b.chunks) /\ (b.ok => Reads(l, b.chunks))
    <3>1. CASE Sources(list[l].spec) # 1
      BY <3>1 DEF Body, Past
    <3>2. CASE Sources(list[l].spec) = 1
      <4>1. b = ComposeBody(l)
        BY <3>2
      <4> QED
        BY <1>1, <4>1, ComposePast DEF Reads
    <3> QED
      BY <3>1, <3>2
  <2> HIDE DEF p
  <2>4. /\ WorkShape(y) /\ y.fresh = TRUE /\ y.pc = p /\ y.key = l /\ y.spec = list[l].spec
        /\ y.gen = list[l].gen /\ y.body = b.chunks
    BY DEF WorkShape
  <2>5. ~Busy(k)
    BY <1>2 DEF Busy
  <2>6. y # IdleWorker /\ y.pc # "idle"
    BY <2>2, <2>4, Nothing
  <2> HIDE DEF k, y
  <2>7. l \notin lq'
    BY <1>2
  <2> QED
    BY <1>2, <1>3, <1>6, <2>1, <2>2, <2>3, <2>4, <2>5, <2>6, <2>7, QuietStep DEF k
<1> QED
  BY <1>5, <1>6

LEMMA CheckStep ==
    ASSUME ListInv, PhraseListCheck \/ IPListCheck
    PROVE  ListInv'
<1>1. PICK k \in Kinds :
         /\ lwork[k].pc = "check" /\ UNCHANGED <<list, cmap, lq, wq, pub, steps>>
         /\ lwork' = [lwork EXCEPT ![k].pc = IF Owners(lwork[k].key, lwork[k].spec.file) # {} THEN "fail" ELSE "labels"]
  BY DEF PhraseListCheck, IPListCheck, ListCheck, fileNameConflict, ipFileNameConflict, Kinds
<1>2. PICK l : l = lwork[k].key
  OBVIOUS
<1>3. Busy(k)
  BY <1>1 DEF Busy
<1>4. /\ l \in Lists /\ KindOf(l) = k /\ Holds(k, l) /\ WorkShape(lwork[k]) /\ lwork[k].fresh \in BOOLEAN
      /\ Past(lwork[k].body) /\ ListShape(list[l])
      /\ lwork[k].fresh => list[l].live /\ lwork[k].spec = list[l].spec /\ lwork[k].gen = list[l].gen
      /\ l \notin lq => /\ lwork[k].fresh /\ lwork[k].pc # "reread"
                        /\ lwork[k].pc # "fail" => Reads(l, lwork[k].body)
  BY ONLY <1>2, <1>3, HeldFacts, ListInv, k \in Kinds
<1> DEFINE p == IF Owners(l, lwork[k].spec.file) # {} THEN "fail" ELSE "labels"
           y == [lwork[k] EXCEPT !.pc = p]
<1>5. lwork' = [lwork EXCEPT ![k] = y]
  BY <1>1, <1>2 DEF ListInv, Shapes
<1>6. p \in {"fail", "labels"}
  OBVIOUS
<1>7. \A o \in Lists : Rivals(l, o) /\ IsReady(o) /\ l \notin lq => p = "fail"
  <2> SUFFICES ASSUME NEW o \in Lists, Rivals(l, o), IsReady(o), l \notin lq PROVE p = "fail"
    OBVIOUS
  <2>1. lwork[k].spec.file = list[o].spec.file
    BY <1>4 DEF Rivals
  <2>2. o \in Owners(l, lwork[k].spec.file)
    BY <2>1 DEF Owners, Rivals
  <2> QED
    BY <2>2
<1> HIDE DEF p
<1>8. /\ WorkShape(y) /\ y.pc = p /\ y.key = lwork[k].key /\ y.fresh = lwork[k].fresh /\ y.spec = lwork[k].spec
      /\ y.gen = lwork[k].gen /\ y.body = lwork[k].body
  BY ONLY <1>4 DEF WorkShape
<1>9. y # IdleWorker /\ y.pc # "idle"
  BY <1>6, <1>8, Nothing
<1> HIDE DEF y
<1>10. lq' = lq /\ y.fresh \in BOOLEAN /\ Past(y.body) /\ y.key = l
  BY <1>1, <1>2, <1>4, <1>8
<1>11. /\ y.fresh => list[l].live /\ y.spec = list[l].spec /\ y.gen = list[l].gen
       /\ l \notin lq' => y.fresh /\ y.pc # "reread" /\ (y.pc # "fail" => Reads(l, y.body))
  BY <1>1, <1>4, <1>6, <1>8, <1>10
<1> QED
  BY <1>1, <1>2, <1>4, <1>5, <1>6, <1>7, <1>8, <1>9, <1>10, <1>11, QuietStep

\* A worker gives up and queues its list again.
LEMMA RetryStep ==
    ASSUME ListInv, NEW k \in Kinds, Busy(k), Retry(k), UNCHANGED <<cmap, pub, steps>>
    PROVE  ListInv'
<1>1. PICK l : l = lwork[k].key
  OBVIOUS
<1>2. l \in Lists /\ KindOf(l) = k
  BY ONLY <1>1, HeldFacts, ListInv, k \in Kinds, Busy(k)
<1>3. lq' = lq \cup {l} /\ lwork' = [lwork EXCEPT ![k] = IdleWorker] /\ UNCHANGED <<list, wq>>
  BY <1>1 DEF Retry
<1>4. IdleWorker.fresh \in BOOLEAN
  BY DEF IdleWorker
<1> QED
  BY <1>1, <1>2, <1>3, <1>4, Nothing, QuietStep

LEMMA LabelsStep ==
    ASSUME ListInv, NEW k \in Kinds, ListLabels(k)
    PROVE  ListInv'
<1>1. PICK l : l = lwork[k].key
  OBVIOUS
<1>2. Busy(k) /\ lwork[k].pc = "labels" /\ UNCHANGED <<cmap, pub, steps>>
  BY DEF Busy, ListLabels
<1>3. /\ l \in Lists /\ KindOf(l) = k /\ Holds(k, l) /\ WorkShape(lwork[k]) /\ lwork[k].fresh \in BOOLEAN
      /\ Past(lwork[k].body) /\ ListShape(list[l])
      /\ lwork[k].fresh => list[l].live /\ lwork[k].spec = list[l].spec /\ lwork[k].gen = list[l].gen
      /\ l \notin lq => /\ lwork[k].fresh /\ lwork[k].pc # "reread"
                        /\ lwork[k].pc # "fail" => Reads(l, lwork[k].body)
  BY ONLY <1>1, <1>2, HeldFacts, ListInv, k \in Kinds
<1>4. ASSUME NEW p \in {"status", "reread"}, NEW y, y = [lwork[k] EXCEPT !.pc = p]
      PROVE  /\ WorkShape(y) /\ y.pc = p /\ y.key = l /\ y.fresh = lwork[k].fresh /\ y.spec = lwork[k].spec
             /\ y.gen = lwork[k].gen /\ y.body = lwork[k].body /\ y # IdleWorker /\ y.pc # "idle"
  <2>1. /\ WorkShape(y) /\ y.pc = p /\ y.key = lwork[k].key /\ y.fresh = lwork[k].fresh /\ y.spec = lwork[k].spec
        /\ y.gen = lwork[k].gen /\ y.body = lwork[k].body
    BY ONLY <1>3, <1>4 DEF WorkShape
  <2> QED
    BY <1>1, <2>1, Nothing
<1>5. lwork = [j \in Kinds |-> lwork[j]]
  BY DEF ListInv, Shapes
<1>6. CASE lwork[k].fresh /\ list[l].tag = list[l].spec.file
  <2>1. PICK y : y = [lwork[k] EXCEPT !.pc = "status"]
    OBVIOUS
  <2>2. lwork' = [lwork EXCEPT ![k] = y] /\ UNCHANGED <<list, lq, wq>>
    BY <1>1, <1>5, <1>6, <2>1 DEF ListLabels
  <2>3. /\ WorkShape(y) /\ y.pc = "status" /\ y.key = l /\ y.fresh = lwork[k].fresh /\ y.spec = lwork[k].spec
        /\ y.gen = lwork[k].gen /\ y.body = lwork[k].body /\ y # IdleWorker /\ y.pc # "idle"
    BY <1>4, <2>1
  <2>4. y.fresh \in BOOLEAN /\ Past(y.body)
    BY <1>3, <2>3
  <2>5. /\ y.fresh => list[l].live /\ y.spec = list[l].spec /\ y.gen = list[l].gen
        /\ l \notin lq' => y.fresh /\ y.pc # "reread" /\ (y.pc # "fail" => Reads(l, y.body))
    BY <1>2, <1>3, <2>2, <2>3
  <2>6. \A o \in Lists : l \notin lq' /\ o \notin lq' /\ IsReady(o) => ~Rivals(l, o)
    BY <1>2, <1>3, <2>2 DEF ListInv, OwnersAlone
  <2> QED
    BY <1>1, <1>2, <1>3, <2>2, <2>3, <2>4, <2>5, <2>6, QuietStep
<1>7. CASE lwork[k].fresh /\ list[l].tag # list[l].spec.file
  <2>1. PICK y : y = [lwork[k] EXCEPT !.pc = "reread"]
    OBVIOUS
  <2>2. PICK x : x = [list[l] EXCEPT !.tag = list[l].spec.file]
    OBVIOUS
  <2>3. lwork' = [lwork EXCEPT ![k] = y] /\ lq' = lq \cup {l}
    BY <1>1, <1>5, <1>7, <2>1 DEF ListLabels
  <2>4. WriteList(l, x)
    BY <1>1, <1>7, <2>2 DEF ListLabels, WriteList
  <2>5. /\ WorkShape(y) /\ y.pc = "reread" /\ y.key = l /\ y.fresh = lwork[k].fresh /\ y.spec = lwork[k].spec
        /\ y.gen = lwork[k].gen /\ y.body = lwork[k].body /\ y # IdleWorker /\ y.pc # "idle"
    BY <1>4, <2>1
  <2>6. y.fresh \in BOOLEAN /\ Past(y.body) /\ y.spec = list[l].spec /\ y.gen = list[l].gen /\ list[l].live
    BY <1>3, <1>7, <2>5
  <2>7. /\ ListShape(x) /\ x.live = list[l].live /\ x.spec = list[l].spec /\ x.gen = list[l].gen /\ x.obs = list[l].obs
        /\ x.ready = list[l].ready /\ x.hash = list[l].hash
    BY ONLY <1>3, <2>2 DEF ListShape
  <2>8. /\ x.live = TRUE /\ x.obs \in Nat /\ x.obs <= x.gen /\ x.ready \in {"", "True", "False"} /\ Past(x.hash)
    <3>1. list[l].obs \in Nat /\ list[l].obs <= list[l].gen /\ list[l].ready \in {"", "True", "False"}
      BY <1>3 DEF ListInv, Shapes, TypeOK
    <3>2. Past(list[l].hash) /\ list[l].live \in BOOLEAN
      BY <1>3 DEF ListInv, Stamped, Shapes
    <3> QED
      BY <2>6, <2>7, <3>1, <3>2
  <2> QED
    BY <1>2, <1>3, <2>3, <2>4, <2>5, <2>6, <2>7, <2>8, WriteStep
<1>8. CASE ~lwork[k].fresh
  <2>1. Retry(k)
    BY <1>8 DEF ListLabels
  <2> QED
    BY <1>2, <2>1, RetryStep
<1> QED
  BY <1>6, <1>7, <1>8

LEMMA RereadStep ==
    ASSUME ListInv, NEW k \in Kinds, ListReread(k)
    PROVE  ListInv'
<1>1. PICK l : l = lwork[k].key
  OBVIOUS
<1>2. Busy(k) /\ lwork[k].pc = "reread" /\ UNCHANGED <<list, cmap, wq, pub, steps>>
  BY DEF Busy, ListReread
<1>3. /\ l \in Lists /\ KindOf(l) = k /\ Holds(k, l) /\ WorkShape(lwork[k]) /\ Past(lwork[k].body) /\ l \in lq
  BY ONLY <1>1, <1>2, HeldFacts, ListInv, k \in Kinds
<1>4. CASE list[l].live
  <2>1. PICK y : y = [lwork[k] EXCEPT !.pc = "status", !.fresh = TRUE, !.spec = list[l].spec, !.gen = list[l].gen]
    OBVIOUS
  <2>2. lwork' = [lwork EXCEPT ![k] = y] /\ lq' = lq
    <3>1. lwork = [j \in Kinds |-> lwork[j]]
      BY DEF ListInv, Shapes
    <3> QED
      BY <1>1, <1>4, <2>1, <3>1 DEF ListReread
  <2>3. /\ WorkShape(y) /\ y.pc = "status" /\ y.key = lwork[k].key /\ y.fresh = TRUE /\ y.spec = list[l].spec
        /\ y.gen = list[l].gen /\ y.body = lwork[k].body
    BY ONLY <1>3, <2>1 DEF WorkShape
  <2>4. y # IdleWorker /\ y.pc # "idle" /\ y.key = l /\ Past(y.body)
    BY <1>1, <1>3, <2>3, Nothing
  <2> QED
    BY <1>1, <1>2, <1>3, <1>4, <2>2, <2>3, <2>4, QuietStep
<1>5. CASE ~list[l].live
  <2>1. Retry(k)
    BY <1>1, <1>5 DEF ListReread, Retry
  <2> QED
    BY <1>2, <2>1, RetryStep
<1> QED
  BY <1>4, <1>5
=============================================================================
