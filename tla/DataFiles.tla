----------------------------- MODULE DataFiles ------------------------------
(***************************************************************************)
(* Data files for @pmFromFile and @ipMatchFromFile: PhraseLists and        *)
(* IPLists, their two controllers, the ConfigMaps they are made of, and    *)
(* what the dataplane build and the probes take from them.                 *)
(*                                                                         *)
(* Each controller has one worker and reads a list, the ConfigMaps, the    *)
(* other lists and the list again in separate steps; users, ConfigMaps and *)
(* the other controller move in between.  A list reaches Envoy through the *)
(* watches: a ConfigMap event queues the lists that use it, a list event   *)
(* queues the WAFs of its namespace.                                       *)
(*                                                                         *)
(* The body of a file is a sequence of chunks, a chunk the version of the  *)
(* inline content or of the ConfigMap key it was read from, and the length *)
(* of a body is its number of chunks.                                      *)
(***************************************************************************)
EXTENDS Integers, FiniteSets, Sequences, Functions, FiniteSetsExt

CONSTANTS
    PhraseLists, IPLists, ConfigMaps, Wafs,
    BinaryMaps,  \* the ConfigMaps whose key is in binaryData
    HomeOf,      \* namespace of every list, ConfigMap and WAF
    StockFiles,  \* basenames of the embedded CRS pack
    LinesOf,     \* the SecLang lines of every WAF: each the set of basenames it names
    PolicyOf,    \* spec.phraseListPolicy of every WAF
    PacksOf,     \* the PhraseLists that the WAF's RuleSets declare
    ListSpecs,   \* the list specs users write
    StartSpecs,  \* the lists that exist at the start, made of parts
    MaxChunks,   \* MaxPhraseFilesRawBytes, also the limit of one list
    MaxUserSteps

Lists == PhraseLists \cup IPLists
KindLists(l) == IF l \in PhraseLists THEN PhraseLists ELSE IPLists

VARIABLES
    list,      \* API server: lists
    cmap,      \* API server: version of every ConfigMap, 0 for none
    lq, lwork, \* the two list controllers: queued lists; the worker of each kind
    wq, pub,   \* dataplane: queued WAFs; what was last published for each
    steps      \* user steps left

vars == <<list, cmap, lq, lwork, wq, pub, steps>>

Kinds == {"PhraseList", "IPList"}
KindOf(l) == IF l \in PhraseLists THEN "PhraseList" ELSE "IPList"

-----------------------------------------------------------------------------
(* Lists.  Of content, configMapRef and parts one is set; stock and allow    *)
(* are the label crs-data and the annotation allow-crs-override.             *)

NoSpec == [file |-> "", content |-> <<>>, cm |-> {}, parts |-> <<>>, stock |-> FALSE, allow |-> FALSE]
PhraseList == [live |-> FALSE, spec |-> NoSpec, gen |-> 0, tag |-> "", ready |-> "", obs |-> 0,
               hash |-> <<>>]
IPList == PhraseList
NoList == PhraseList

Sources(spec) == Cardinality({x \in {1, 2, 3} : \/ x = 1 /\ spec.content # <<>>
                                                \/ x = 2 /\ spec.cm # {}
                                                \/ x = 3 /\ spec.parts # <<>>})
ValidatePhraseList(spec) == spec.file # "" /\ Sources(spec) = 1
\* An IPList line that is no address draws a warning, no refusal.
ValidateIPList(spec) == spec.file # "" /\ Sources(spec) = 1
Validate(l, spec) == IF l \in PhraseLists THEN ValidatePhraseList(spec) ELSE ValidateIPList(spec)

\* Lists are made of ConfigMaps; inline content is told apart from that of a ConfigMap.
ASSUME SpecsAssumption ==
    /\ MaxUserSteps \in Nat /\ BinaryMaps \subseteq ConfigMaps
    /\ \A s \in ListSpecs :
          /\ s.cm \subseteq ConfigMaps /\ \A i \in DOMAIN s.parts : s.parts[i] \in ConfigMaps
          /\ s.content = [i \in DOMAIN s.content |-> s.content[i]]
          /\ \A i \in DOMAIN s.content : s.content[i] \notin ConfigMaps \X Nat

\* The lists at the start are made of parts that exist, and were given their file names
\* one after the other.
ASSUME StartAssumption ==
    /\ DOMAIN StartSpecs \subseteq Lists
    /\ \A l \in DOMAIN StartSpecs :
          /\ StartSpecs[l].content = <<>> /\ StartSpecs[l].cm = {} /\ StartSpecs[l].parts # <<>>
          /\ \A i \in DOMAIN StartSpecs[l].parts :
                StartSpecs[l].parts[i] \in ConfigMaps /\ HomeOf[StartSpecs[l].parts[i]] = HomeOf[l]
    /\ \A l, o \in DOMAIN StartSpecs :
          l # o /\ KindOf(l) = KindOf(o) /\ HomeOf[l] = HomeOf[o] => StartSpecs[l].file # StartSpecs[o].file

-----------------------------------------------------------------------------
(* Bodies.                                                                  *)

Body(ok, chunks) == [ok |-> ok, chunks |-> IF ok THEN chunks ELSE <<>>]

\* A ConfigMap that is missing, or in another namespace, has no key.  The controllers'
\* readCM and the probes' readConfigMapKey read a ConfigMap, which decodes binaryData.
readCM(ns, cm) == Body(HomeOf[cm] = ns /\ cmap[cm] > 0, <<<<cm, cmap[cm]>>>>)
ReadParts(ns, parts) ==
    Body(\A i \in DOMAIN parts : readCM(ns, parts[i]).ok,
         [i \in DOMAIN parts |-> <<parts[i], cmap[parts[i]]>>])
ComposeBody(l) ==
    LET spec == list[l].spec IN
    CASE spec.content # <<>> -> Body(TRUE, spec.content)
      [] spec.content = <<>> /\ spec.cm # {} -> readCM(HomeOf[l], CHOOSE c \in spec.cm : TRUE)
      [] OTHER -> IF spec.parts # <<>> THEN ReadParts(HomeOf[l], spec.parts) ELSE Body(FALSE, <<>>)

\* The build reads an unstructured object, with binaryData as the API server sends it.
AsSent(cm) == IF cm \in BinaryMaps THEN <<cm, cmap[cm], "base64">> ELSE <<cm, cmap[cm]>>
readConfigMapKey(ns, cm) == Body(HomeOf[cm] = ns /\ cmap[cm] > 0, <<AsSent(cm)>>)
InjectedBody(l) ==
    LET spec == list[l].spec IN
    CASE spec.content # <<>> -> Body(TRUE, spec.content)
      [] spec.content = <<>> /\ spec.cm # {} ->
            readConfigMapKey(HomeOf[l], CHOOSE c \in spec.cm : TRUE)
      [] OTHER -> Body(/\ spec.parts # <<>>
                       /\ \A i \in DOMAIN spec.parts : readConfigMapKey(HomeOf[l], spec.parts[i]).ok,
                       [i \in DOMAIN spec.parts |-> AsSent(spec.parts[i])])

\* The controllers ask for exactly one source first, the builders do not.
resolveBody(l) == IF Sources(list[l].spec) # 1 THEN Body(FALSE, <<>>) ELSE ComposeBody(l)
resolveIPBody(l) == IF Sources(list[l].spec) # 1 THEN Body(FALSE, <<>>) ELSE ComposeBody(l)
resolvePhraseListBody(l) == InjectedBody(l)
resolveIPListBody(l) == InjectedBody(l)

-----------------------------------------------------------------------------
(* Discovery in the dataplane build (internal/dataplane/config).            *)

IsReady(l) == list[l].live /\ list[l].ready = "True"
Named(lists, ns, file) == {l \in lists : list[l].live /\ HomeOf[l] = ns /\ list[l].spec.file = file}

\* Several Ready lists of one kind for a basename are an error, none is not.
Found(lists) ==
    LET r == {l \in lists : IsReady(l)} IN
    [ok |-> Cardinality(r) <= 1, list |-> IF Cardinality(r) = 1 THEN r ELSE {}]
lookupReadyPhraseList(ns, file) == Found(Named(PhraseLists, ns, file))
lookupReadyIPList(ns, file) == Found(Named(IPLists, ns, file))

NoFile == [ok |-> TRUE, found |-> FALSE, chunks |-> <<>>]
LookupError == [NoFile EXCEPT !.ok = FALSE]
FileOf(body) == IF body.ok THEN [ok |-> TRUE, found |-> TRUE, chunks |-> body.chunks] ELSE LookupError

lookupReadyDataFileBody(ns, file) ==
    LET p == lookupReadyPhraseList(ns, file)
        i == lookupReadyIPList(ns, file)
    IN IF ~p.ok THEN LookupError
       ELSE IF p.list # {} THEN FileOf(resolvePhraseListBody(CHOOSE l \in p.list : TRUE))
       ELSE IF ~i.ok THEN LookupError
       ELSE IF i.list # {} THEN FileOf(resolveIPListBody(CHOOSE l \in i.list : TRUE))
       ELSE NoFile

\* A stock file comes from a Ready PhraseList of the pack or one that may override
\* it, else from the operator's own pack; any other PhraseList of that name fails.
StockBody(ns, file) ==
    LET p == lookupReadyPhraseList(ns, file)
        l == CHOOSE x \in p.list : TRUE
    IN IF ~p.ok THEN LookupError
       ELSE IF p.list = {} THEN FileOf(Body(TRUE, <<<<file, 1>>>>))
       ELSE IF list[l].spec.stock \/ list[l].spec.allow THEN FileOf(resolvePhraseListBody(l))
       ELSE LookupError

ScanPmFromFileBasenames(lines) == UNION {lines[i] : i \in DOMAIN lines}
\* Fault: a line goes only when every file it names is missing.
DropWholly(lines, missing) == SelectSeq(lines, LAMBDA x : x = {} \/ ~(x \subseteq missing))
DropSecLangLinesWithBasenames(lines, missing) ==
    SelectSeq(lines, LAMBDA x : x \cap missing = {})

\* The lists a RuleSet packages must exist in the WAF's namespace and be Ready.
checkPhraseListRefs(w) == \A l \in PacksOf[w] \cap PhraseLists : HomeOf[l] = HomeOf[w] /\ IsReady(l)
checkIPListRefs(w) == \A l \in PacksOf[w] \cap IPLists : HomeOf[l] = HomeOf[w] /\ IsReady(l)

Unpublished == [ok |-> FALSE, files |-> <<>>, lines |-> <<>>]
Chunks(files) == MapThenSumSet(LAMBDA f : Len(files[f]), DOMAIN files)

DiscoverAndResolvePhraseFiles(w) ==
    LET names == ScanPmFromFileBasenames(LinesOf[w])
        file(f) == IF f \in StockFiles THEN StockBody(HomeOf[w], f)
                   ELSE lookupReadyDataFileBody(HomeOf[w], f)
        missing == {f \in names : ~file(f).found}
        files == [f \in names \ missing |-> file(f).chunks]
    IN IF \/ ~checkPhraseListRefs(w) \/ ~checkIPListRefs(w)
          \/ \E f \in names : ~file(f).ok
          \/ missing # {} /\ PolicyOf[w] # "IgnoreUnknown"
          \/ Chunks(files) > MaxChunks
       THEN Unpublished
       ELSE [ok |-> TRUE, files |-> files,
             lines |-> DropSecLangLinesWithBasenames(LinesOf[w], missing)]

-----------------------------------------------------------------------------
(* Discovery for probes (internal/probeassemble).                           *)

\* A list that exists and is not Ready is found, and ends the search.
Pick(lists) ==
    [ok |-> Found(lists).ok, found |-> lists # {}, list |-> Found(lists).list]
\* Fault: any list of that name will do, Ready or not.
pickAnyPhraseList(ns, file) ==
    LET ls == Named(PhraseLists, ns, file)
    IN [ok |-> TRUE, found |-> ls # {}, list |-> IF ls = {} THEN {} ELSE {CHOOSE l \in ls : TRUE}]
pickReadyPhraseList(ns, file) == Pick(Named(PhraseLists, ns, file))
pickReadyIPList(ns, file) == Pick(Named(IPLists, ns, file))

ProbeBody(picked, body) ==
    IF picked.list = {} THEN [ok |-> TRUE, found |-> TRUE, ready |-> FALSE, chunks |-> <<>>]
    ELSE [ok |-> body.ok, found |-> TRUE, ready |-> body.ok /\ body.chunks # <<>>, chunks |-> body.chunks]
ProbeNone(ok) == [ok |-> ok, found |-> FALSE, ready |-> FALSE, chunks |-> <<>>]

ProbePhraseListBody(l) == ComposeBody(l)
ProbeIPListBody(l) == ComposeBody(l)
Lookup(ns, file) ==
    LET p == pickReadyPhraseList(ns, file)
        i == pickReadyIPList(ns, file)
    IN IF ~p.ok THEN ProbeNone(FALSE)
       ELSE IF p.found THEN ProbeBody(p, ProbePhraseListBody(CHOOSE l \in p.list : TRUE))
       ELSE IF ~i.ok THEN ProbeNone(FALSE)
       ELSE IF i.found THEN ProbeBody(i, ProbeIPListBody(CHOOSE l \in i.list : TRUE))
       ELSE ProbeNone(TRUE)

\* There is no embedded pack here: a stock file needs a list like any other.
ResolveDataFiles(w) ==
    LET names == ScanPmFromFileBasenames(LinesOf[w])
        missing == {f \in names : ~Lookup(HomeOf[w], f).ready}
        files == [f \in names \ missing |-> Lookup(HomeOf[w], f).chunks]
    IN IF \/ \E f \in names : ~Lookup(HomeOf[w], f).ok
          \/ missing # {} /\ PolicyOf[w] # "IgnoreUnknown"
          \/ Chunks(files) > MaxChunks
       THEN Unpublished
       ELSE [ok |-> TRUE, files |-> files,
             lines |-> DropSecLangLinesWithBasenames(LinesOf[w], missing)]

-----------------------------------------------------------------------------
(* Events.                                                                  *)

mapNamespaceWAFs(ns) == {w \in Wafs : HomeOf[w] = ns}
MapPhraseListToWAFs(l) == mapNamespaceWAFs(HomeOf[l])
MapIPListToWAFs(l) == mapNamespaceWAFs(HomeOf[l])
MapListToWAFs(l) == IF l \in PhraseLists THEN MapPhraseListToWAFs(l) ELSE MapIPListToWAFs(l)

\* Fault: a list composed of parts is not queued by their ConfigMaps.
phraseListUsesRef(l, cm) == cm \in list[l].spec.cm
phraseListUsesConfigMap(l, cm) == cm \in list[l].spec.cm \/ cm \in Range(list[l].spec.parts)
ipListUsesConfigMap(l, cm) == cm \in list[l].spec.cm \/ cm \in Range(list[l].spec.parts)
mapConfigMapToPhraseLists(cm) == {l \in PhraseLists : list[l].live /\ HomeOf[l] = HomeOf[cm] /\ phraseListUsesConfigMap(l, cm)}
mapConfigMapToIPLists(cm) == {l \in IPLists : list[l].live /\ HomeOf[l] = HomeOf[cm] /\ ipListUsesConfigMap(l, cm)}

\* fresh: the copy the worker holds is the current version of the list.
IdleWorker == [pc |-> "idle", key |-> "", fresh |-> FALSE, spec |-> NoSpec, gen |-> 0, body |-> <<>>]

\* List l becomes x: an event for the WAFs of its namespace, if anything changed.
WriteList(l, x) ==
    /\ list' = [list EXCEPT ![l] = x]
    /\ IF list' = list THEN UNCHANGED wq ELSE wq' = wq \cup MapListToWAFs(l)

-----------------------------------------------------------------------------
\* The lists there are have been reconciled and the WAFs built.
Init ==
    /\ cmap = [c \in ConfigMaps |-> 1]
    /\ list = [l \in Lists |-> IF l \notin DOMAIN StartSpecs THEN NoList
                               ELSE [live |-> TRUE, spec |-> StartSpecs[l], gen |-> 1,
                                     tag |-> StartSpecs[l].file, ready |-> "True", obs |-> 1,
                                     hash |-> [i \in DOMAIN StartSpecs[l].parts |->
                                                  <<StartSpecs[l].parts[i], 1>>]]]
    /\ lq = {} /\ lwork = [k \in Kinds |-> IdleWorker]
    /\ wq = {} /\ pub = [w \in Wafs |-> DiscoverAndResolvePhraseFiles(w)]
    /\ steps = MaxUserSteps

User == steps > 0 /\ steps' = steps - 1
Stamp == MaxUserSteps + 2 - steps
Touched(l) == lwork' = [lwork EXCEPT ![KindOf(l)].fresh = @ /\ lwork[KindOf(l)].key # l]

ApplyList(l, spec) ==
    /\ User /\ Validate(l, spec)
    /\ spec # list[l].spec
    /\ WriteList(l, IF list[l].live THEN [list[l] EXCEPT !.spec = spec, !.gen = Stamp]
                    ELSE [NoList EXCEPT !.live = TRUE, !.spec = spec, !.gen = Stamp])
    /\ lq' = lq \cup {l} /\ Touched(l)
    /\ UNCHANGED <<cmap, pub>>

RemoveList(l) ==
    /\ User /\ list[l].live
    /\ WriteList(l, NoList)
    /\ lq' = lq \cup {l} /\ Touched(l)
    /\ UNCHANGED <<cmap, pub>>

\* A ConfigMap is deleted, created or changed.
WriteConfigMap(cm) ==
    /\ User
    /\ \E v \in {0, Stamp} : v # cmap[cm] /\ cmap' = [cmap EXCEPT ![cm] = v]
    /\ lq' = lq \cup mapConfigMapToPhraseLists(cm) \cup mapConfigMapToIPLists(cm)
    /\ UNCHANGED <<list, lwork, wq, pub>>

-----------------------------------------------------------------------------
(* The list controllers.                                                    *)

\* Get and resolveBody; a key whose list is gone ends here.
ListBegin(l, body) ==
    LET k == KindOf(l) IN
    /\ l \in lq /\ lwork[k].pc = "idle"
    /\ lq' = lq \ {l}
    /\ lwork' = IF ~list[l].live THEN lwork
                ELSE [lwork EXCEPT ![k] = [pc |-> IF body.ok /\ Len(body.chunks) <= MaxChunks
                                                  THEN "check" ELSE "fail",
                          key |-> l, fresh |-> TRUE, spec |-> list[l].spec, gen |-> list[l].gen,
                          body |-> body.chunks]]
    /\ UNCHANGED <<list, cmap, wq, pub, steps>>
PhraseListBegin(l) == l \in PhraseLists /\ ListBegin(l, resolveBody(l))
IPListBegin(l) == l \in IPLists /\ ListBegin(l, resolveIPBody(l))

\* Another Ready list has the file name: of the same kind, or of the other one.
Owners(l, file) == {o \in Lists \ {l} : HomeOf[o] = HomeOf[l] /\ list[o].spec.file = file /\ IsReady(o)}
\* Fault: only lists of the other kind are looked at.
crossKindConflict(l, file) == Owners(l, file) \ KindLists(l) # {}
fileNameConflict(l, file) == Owners(l, file) # {}
ipFileNameConflict(l, file) == Owners(l, file) # {}

ListCheck(k, conflict(_, _)) ==
    /\ lwork[k].pc = "check"
    /\ lwork' = [lwork EXCEPT ![k].pc = IF conflict(lwork[k].key, lwork[k].spec.file)
                                        THEN "fail" ELSE "labels"]
    /\ UNCHANGED <<list, cmap, lq, wq, pub, steps>>
PhraseListCheck == ListCheck("PhraseList", fileNameConflict)
IPListCheck == ListCheck("IPList", ipFileNameConflict)

Retry(k) == /\ lq' = lq \cup {lwork[k].key} /\ lwork' = [lwork EXCEPT ![k] = IdleWorker]
            /\ UNCHANGED <<list, wq>>

\* The label with the file name is written when it differs, and the list read again.
ListLabels(k) ==
    LET l == lwork[k].key IN
    /\ lwork[k].pc = "labels"
    /\ IF lwork[k].fresh /\ list[l].tag = list[l].spec.file
       THEN lwork' = [lwork EXCEPT ![k].pc = "status"] /\ UNCHANGED <<list, lq, wq>>
       ELSE IF lwork[k].fresh
       THEN /\ WriteList(l, [list[l] EXCEPT !.tag = list[l].spec.file]) /\ lq' = lq \cup {l}
            /\ lwork' = [lwork EXCEPT ![k].pc = "reread"]
       ELSE Retry(k)
    /\ UNCHANGED <<cmap, pub, steps>>

\* The new copy may carry a newer generation than the one the body came from.
ListReread(k) ==
    LET l == lwork[k].key IN
    /\ lwork[k].pc = "reread"
    /\ IF list[l].live
       THEN lwork' = [lwork EXCEPT ![k].pc = "status", ![k].fresh = TRUE, ![k].spec = list[l].spec,
                                   ![k].gen = list[l].gen] /\ UNCHANGED lq
       ELSE lq' = lq \cup {l} /\ lwork' = [lwork EXCEPT ![k] = IdleWorker]
    /\ UNCHANGED <<list, cmap, wq, pub, steps>>

\* Fault: the status does not tell one content from another.
ListReadyNoHash(k) ==
    LET l == lwork[k].key IN
    /\ lwork[k].pc = "status"
    /\ IF lwork[k].fresh
       THEN /\ WriteList(l, [list[l] EXCEPT !.ready = "True", !.obs = lwork[k].gen])
            /\ lq' = lq \cup IF list' # list THEN {l} ELSE {}
            /\ lwork' = [lwork EXCEPT ![k] = IdleWorker]
       ELSE Retry(k)
    /\ UNCHANGED <<cmap, pub, steps>>
\* Fault: the version of the list is not compared.
ListReadyBlind(k) ==
    LET l == lwork[k].key IN
    /\ lwork[k].pc = "status"
    /\ WriteList(l, [list[l] EXCEPT !.ready = "True", !.obs = lwork[k].gen, !.hash = lwork[k].body])
    /\ lq' = lq \cup IF list' # list THEN {l} ELSE {}
    /\ lwork' = [lwork EXCEPT ![k] = IdleWorker]
    /\ UNCHANGED <<cmap, pub, steps>>
\* Fault: the status carries the time it was written, so every write is an event.
ListReadyTimed(k) ==
    LET l == lwork[k].key IN
    /\ lwork[k].pc = "status"
    /\ IF lwork[k].fresh
       THEN /\ WriteList(l, [list[l] EXCEPT !.ready = "True", !.obs = lwork[k].gen,
                                            !.hash = lwork[k].body])
            /\ lq' = lq \cup {l} /\ lwork' = [lwork EXCEPT ![k] = IdleWorker]
       ELSE Retry(k)
    /\ UNCHANGED <<cmap, pub, steps>>
ListReady(k) ==
    LET l == lwork[k].key IN
    /\ lwork[k].pc = "status"
    /\ IF lwork[k].fresh
       THEN /\ WriteList(l, [list[l] EXCEPT !.ready = "True", !.obs = lwork[k].gen,
                                            !.hash = lwork[k].body])
            /\ lq' = lq \cup IF list' # list THEN {l} ELSE {}
            /\ lwork' = [lwork EXCEPT ![k] = IdleWorker]
       ELSE Retry(k)
    /\ UNCHANGED <<cmap, pub, steps>>

\* fail: the result of the status update is ignored, and nothing is retried.
ListFail(k) ==
    LET l == lwork[k].key IN
    /\ lwork[k].pc = "fail"
    /\ IF lwork[k].fresh
       THEN /\ WriteList(l, [list[l] EXCEPT !.ready = "False", !.obs = lwork[k].gen])
            /\ lq' = lq \cup IF list' # list THEN {l} ELSE {}
       ELSE UNCHANGED <<list, lq, wq>>
    /\ lwork' = [lwork EXCEPT ![k] = IdleWorker]
    /\ UNCHANGED <<cmap, pub, steps>>

-----------------------------------------------------------------------------
\* The build of a WAF, as far as data files go: an error leaves what is published
\* and is retried.
BuildWaf(w) ==
    LET res == DiscoverAndResolvePhraseFiles(w) IN
    /\ w \in wq
    /\ IF res.ok THEN pub' = [pub EXCEPT ![w] = res] /\ wq' = wq \ {w}
       ELSE UNCHANGED <<pub, wq>>
    /\ UNCHANGED <<list, cmap, lq, lwork, steps>>

Next ==
    \/ \E l \in Lists, spec \in ListSpecs : ApplyList(l, spec)
    \/ \E l \in Lists : RemoveList(l) \/ PhraseListBegin(l) \/ IPListBegin(l)
    \/ \E c \in ConfigMaps : WriteConfigMap(c)
    \/ PhraseListCheck \/ IPListCheck
    \/ \E k \in Kinds : ListLabels(k) \/ ListReread(k) \/ ListReady(k) \/ ListFail(k)
    \/ \E w \in Wafs : BuildWaf(w)

\* Every queued list is taken up, and what is taken up is finished; a WAF is built
\* again until the build succeeds.
Fairness ==
    /\ \A l \in PhraseLists : SF_vars(PhraseListBegin(l))
    /\ \A l \in IPLists : SF_vars(IPListBegin(l))
    /\ \A k \in Kinds : []<>(lwork[k].pc = "idle")
    /\ \A w \in Wafs : []<>(w \notin wq \/ ~DiscoverAndResolvePhraseFiles(w).ok)

Spec == Init /\ [][Next]_vars /\ Fairness

-----------------------------------------------------------------------------
(* Properties.                                                              *)

\* Types; a worker that holds nothing remembers nothing; a list that is gone left nothing.
TypeOK ==
    /\ \A l \in Lists : /\ list[l].gen \in 0..(MaxUserSteps + 1) /\ list[l].obs <= list[l].gen
                        /\ list[l].ready \in {"", "True", "False"}
                        /\ ~list[l].live => list[l] = NoList
    /\ lq \subseteq Lists /\ wq \subseteq Wafs /\ steps \in 0..MaxUserSteps
    /\ \A k \in Kinds : /\ lwork[k].pc \in {"idle", "check", "labels", "reread", "status", "fail"}
                        /\ lwork[k].pc = "idle" <=> lwork[k] = IdleWorker
                        /\ lwork[k].pc # "idle" => KindOf(lwork[k].key) = k

\* l is not queued and no worker holds it.
AtRest(l) == l \notin lq /\ \A k \in Kinds : lwork[k].key # l

\* A list at rest reports on its current spec, and if it is Ready its content hash
\* is that of the content it has now: no edit, ConfigMap change, label write or
\* ignored status error in between leaves it with an older verdict.
RestIsCurrent ==
    \A l \in Lists : list[l].live /\ AtRest(l) =>
        /\ list[l].obs = list[l].gen
        /\ IsReady(l) => list[l].hash = ComposeBody(l).chunks /\ ComposeBody(l).ok

\* Two lists of one kind at rest are never both Ready for one file name, so the
\* lookups of the dataplane do not fail on an ambiguous file for good.
RestOwnsAlone ==
    \A l, o \in Lists :
        l # o /\ KindOf(l) = KindOf(o) /\ HomeOf[l] = HomeOf[o] /\ AtRest(l) /\ AtRest(o)
            /\ IsReady(l) /\ IsReady(o) => list[l].spec.file # list[o].spec.file

\* A WAF with no build pending, and no list of its namespace pending, runs with the
\* files that discovery finds now: a ConfigMap change reaches Envoy through the
\* list's hash, and nothing is lost between the two watches.
RestInjects ==
    \A w \in Wafs : w \notin wq /\ (\A l \in Lists : HomeOf[l] = HomeOf[w] => AtRest(l))
        => pub[w] = DiscoverAndResolvePhraseFiles(w)

\* The chunks of a probe's file as the build injects them.
AsInjected(chunks) ==
    [i \in DOMAIN chunks |-> IF chunks[i] \in BinaryMaps \X Nat
                             THEN <<chunks[i][1], chunks[i][2], "base64">> ELSE chunks[i]]

\* A probe that assembles evaluates a custom file made of the list, the sources and the
\* versions the dataplane injects for it; what comes from binaryData, and only that, is
\* decoded for the probe and injected in base64.
ProbeAgrees ==
    (\A k \in Kinds : lwork[k].pc = "idle") => \A w \in Wafs :
        LET d == DiscoverAndResolvePhraseFiles(w)
            p == ResolveDataFiles(w)
        IN d.ok /\ p.ok => \A f \in (DOMAIN d.files \cap DOMAIN p.files) \ StockFiles :
                               d.files[f] = AsInjected(p.files[f])

\* The SecLang that goes to Envoy names only files that go with it.
PublishedClosed ==
    \A w \in Wafs : \A i \in DOMAIN pub[w].lines : pub[w].lines[i] \subseteq DOMAIN pub[w].files

\* A PhraseList and an IPList of one namespace want the same file name.
Contended == \E p \in PhraseLists, i \in IPLists :
    list[p].live /\ list[i].live /\ HomeOf[p] = HomeOf[i] /\ list[p].spec.file = list[i].spec.file

\* The list controllers come to rest and every WAF whose files can be found ends up
\* running with them, unless a PhraseList and an IPList stay in contention for a
\* name: in step with each other, both become Ready, both fail, and so on for ever.
FilesConverge ==
    <>[](~Contended) =>
        \A w \in Wafs :
            <>[](/\ \A l \in Lists : AtRest(l)
                 /\ DiscoverAndResolvePhraseFiles(w).ok => pub[w] = DiscoverAndResolvePhraseFiles(w))
=============================================================================
