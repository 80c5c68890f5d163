---------------------------- MODULE RequestRules ----------------------------
(***************************************************************************)
(* What the subresource API (internal/subresourceapi) decides about one     *)
(* request: the checks of every handler in their order, and the document a   *)
(* probe evaluates (internal/probeassemble), beside the one the data plane   *)
(* is given (internal/references2, internal/dataplane/config).               *)
(*                                                                          *)
(* A request carries what its path parses to; a SecLang line is the kind, id *)
(* and data files of a rule; sizes are in units.  The text of a metrics or   *)
(* traces query, and what a backend returns for it, are left out: a query is  *)
(* accepted or refused.                                                      *)
(***************************************************************************)
EXTENDS Integers, Sequences, FiniteSets, SequencesExt, TLC

CONSTANTS
    Objects,     \* SecRules, RuleSets and WAFs by <<kind, ns, name>>
    Access,      \* user :> the objects they may get
    SARBroken,   \* users whose SubjectAccessReview fails
    FilesOf,     \* the phrase and IP lists: basename :> "ready" or "notready"
    Disabled,    \* the subresources switched off: "probes", "query", "directives"
    AuthMode,    \* "requestheader" or "insecure-dev"
    MaxBody, MaxLines

\* The code of the first check that fails, 0 if all pass.
Refusal(checks) ==
    LET bad == SelectSeq(checks, LAMBDA c : c[1]) IN IF bad = <<>> THEN 0 ELSE bad[1][2]

-----------------------------------------------------------------------------
(* The checks of a request.                                                 *)

\* The handler of a path: a WAF path that does not parse has none, a probe path that
\* does not parse is refused by its handler.
handleVersionPaths(q) ==
    IF q.sub \in {"directives", "metrics", "traces"} /\ q.parse # 0 THEN "none" ELSE q.sub

\* 401 without a verified certificate of an allowed name, or without a user.
authenticate(q) ==
    IF AuthMode = "insecure-dev" THEN 0
    ELSE Refusal(<< <<q.cert # "named", 401>>, <<q.user = "", 401>> >>)

CanGetParent(user, o) ==
    Refusal(<< <<user \in SARBroken, 503>>,
               <<user \notin DOMAIN Access \/ o \notin Access[user], 403>> >>)

\* The parent that the path names.
Object(q) == <<q.kind, q.ns, q.name>>

\* handleProbe up to the concurrency gates; q.ctrl: the control headers are in range,
\* are not, or ask for the embedded CRS.
probeChecks(q) ==
    Refusal(<< <<"probes" \in Disabled, 404>>,
               <<q.method = "OPTIONS", 204>>,
               <<q.method \notin {"GET", "HEAD", "POST", "PUT", "PATCH", "DELETE"}, 405>>,
               <<authenticate(q) # 0, authenticate(q)>>,
               <<q.parse # 0, q.parse>>,
               <<CanGetParent(q.user, Object(q)) # 0, CanGetParent(q.user, Object(q))>>,
               <<q.ctrl = "bad", 400>>,
               <<q.ctrl = "crs", 422>>,
               <<q.body > MaxBody, 413>> >>)

\* The handlers of the WAF's GET subresources up to the gate.
wafChecks(q, flag) ==
    Refusal(<< <<q.method \notin {"GET", "HEAD"}, 405>>,
               <<flag \in Disabled, 404>>,
               <<authenticate(q) # 0, authenticate(q)>>,
               <<CanGetParent(q.user, Object(q)) # 0, CanGetParent(q.user, Object(q))>> >>)

TooLong(q) == q.body > MaxBody
handleWAFMetrics(q) == Refusal(<< <<wafChecks(q, "query") # 0, wafChecks(q, "query")>>, <<TooLong(q), 400>> >>)
handleWAFTraces(q) == wafChecks(q, "query")
handleClusterMetrics(q) ==
    Refusal(<< <<q.method \notin {"GET", "HEAD"}, 405>>, <<"query" \in Disabled, 404>>,
               <<authenticate(q) # 0, authenticate(q)>>, <<TooLong(q), 400>> >>)

-----------------------------------------------------------------------------
(* The document a probe evaluates.  A rule object has the ids of its rules    *)
(* (0 where metadata.id is unset), status.ruleId, status.assignedIds and, for *)
(* every rule, the data files it names.                                       *)

\* An id the spec leaves out is filled from status.assignedIds.
ApplyAssignedIDs(l) ==
    [l EXCEPT !.ids = [i \in DOMAIN l.ids |->
        IF l.ids[i] <= 0 /\ i <= Len(l.assigned) /\ l.assigned[i] > 0 THEN l.assigned[i] ELSE l.ids[i]]]
EnsureRuleIDs(l) == l.ids # <<>> /\ \A i \in DOMAIN l.ids : l.ids[i] > 0

MaxKey == 2147483647    \* math.MaxInt32
FirstPositive(ids) ==
    LET known == SelectSeq(ids, LAMBDA i : i > 0) IN IF known = <<>> THEN MaxKey ELSE known[1]

secRuleSortKey(l) ==
    IF l.order # 0 THEN l.order ELSE IF l.ruleID > 0 THEN l.ruleID ELSE FirstPositive(l.ids)
secActionSortKey(l) == FirstPositive(l.ids)

\* By key, then by name, SecActions first.
KeyedBefore(a, b, ka, kb) ==
    \/ ka < kb
    \/ ka = kb /\ a.name < b.name
    \/ ka = kb /\ a.name = b.name /\ a.kind = "SecAction" /\ b.kind = "SecRule"
pathBItems(leaves) ==
    LET key(l) == IF l.kind = "SecRule" THEN secRuleSortKey(l) ELSE secActionSortKey(l)
    IN SortSeq(SelectSeq(leaves, LAMBDA l : l.kind \in {"SecRule", "SecAction"}),
               LAMBDA a, b : KeyedBefore(a, b, key(a), key(b)))

\* The lines of one object.
LinesOf(l) == [i \in DOMAIN l.ids |-> <<l.kind, l.ids[i], l.files[i]>>]
seclangLines(l) == LinesOf(IF l.kind = "SecRule" THEN ApplyAssignedIDs(l) ELSE l)

Preamble == << <<"SecRuleEngine", 1, {}>>, <<"SecRequestBodyAccess", 1, {}>>, <<"SecResponseBodyAccess", 0, {}>> >>
StampOnly900990 == << <<"SecAction", 900990, {}>> >>
\* spec.crs: <<>> if unset, else the ids it removes in a sequence of one element.
NoCRS == <<>>
CRSSetup(crs) == IF crs = NoCRS THEN <<>> ELSE << <<"SecAction", 900990, {}>> >>
CRSRemovals(crs) ==
    IF crs = NoCRS THEN <<>> ELSE [i \in DOMAIN crs[1] |-> <<"SecRuleRemoveById", crs[1][i], {}>>]

AssembleFromRuleLines(lines, stamp, crs) ==
    Preamble
    \o (IF crs # NoCRS THEN CRSSetup(crs) ELSE IF stamp THEN StampOnly900990 ELSE <<>>)
    \o lines \o CRSRemovals(crs)

Assembled(code, doc) == [code |-> code, doc |-> doc]
Failed(code) == Assembled(code, <<>>)

\* RuleSets and ConfigMaps among the resolved objects are skipped; one rule without
\* ids fails the whole probe.
AssembleResolved(leaves, stamp, crs) ==
    LET items == pathBItems(leaves)
        lines == FlattenSeq([i \in DOMAIN items |-> seclangLines(items[i])])
    IN IF \E i \in DOMAIN items : items[i].kind = "SecRule" /\ ~EnsureRuleIDs(ApplyAssignedIDs(items[i]))
       THEN Failed(422) ELSE Assembled(0, AssembleFromRuleLines(lines, stamp, crs))

AssembleSecRule(l) ==
    IF ~EnsureRuleIDs(ApplyAssignedIDs(l)) THEN Failed(422)
    ELSE Assembled(0, Preamble \o seclangLines(l))

PhraseListPolicyFromWAF(p) == IF p = "IgnoreUnknown" THEN p ELSE "FailClosed"

Named(lines) == UNION {lines[i][3] : i \in DOMAIN lines}
Unresolved(lines) == {f \in Named(lines) : f \notin DOMAIN FilesOf \/ FilesOf[f] # "ready"}

\* A file without a ready list fails the probe, unless the policy drops the lines that
\* name it.  failed: the calls to the API server that fail.
withDataFiles(asm, policy, failed) ==
    LET gone == Unresolved(asm.doc) IN
    IF asm.code # 0 THEN asm
    ELSE IF Named(asm.doc) # {} /\ "lists" \in failed THEN Failed(422)
    ELSE IF gone # {} /\ policy # "IgnoreUnknown" THEN Failed(422)
    ELSE Assembled(0, SelectSeq(asm.doc, LAMBDA l : l[3] \cap gone = {}))

\* A parent that is gone is 404, one that cannot be read 503.
mapKubeError(q, failed) ==
    IF "get" \in failed THEN 503 ELSE IF Object(q) \notin DOMAIN Objects THEN 404 ELSE 0
\* A reference that does not resolve is 422, whether the object or the call failed.
resolveRuleRefs(o, failed) == IF ~o.refsOK \/ "refs" \in failed THEN 422 ELSE 0

assembleSecRule(o, failed) == withDataFiles(AssembleSecRule(o.leaves[1]), "FailClosed", failed)
assembleRuleSet(o, failed) ==
    IF resolveRuleRefs(o, failed) # 0 THEN Failed(422)
    ELSE withDataFiles(AssembleResolved(o.leaves, TRUE, NoCRS), "FailClosed", failed)
assembleWAF(o, failed) ==
    IF o.crsEnable \/ resolveRuleRefs(o, failed) # 0 THEN Failed(422)
    ELSE withDataFiles(AssembleResolved(o.leaves, o.crs = NoCRS, o.crs), PhraseListPolicyFromWAF(o.policy), failed)

assemble(q, failed) ==
    IF mapKubeError(q, failed) # 0 THEN Failed(mapKubeError(q, failed))
    ELSE LET o == Objects[Object(q)] IN
         CASE q.kind = "SecRule" -> assembleSecRule(o, failed)
           [] q.kind = "RuleSet" -> assembleRuleSet(o, failed)
           [] q.kind = "WAF"     -> assembleWAF(o, failed)

-----------------------------------------------------------------------------
(* The rules the data plane is given.                                       *)

\* references2 has sort keys of its own.
langKey(l) ==
    CASE l.kind = "SecRule" /\ l.order # 0               -> l.order
      [] l.kind = "SecRule" /\ l.order = 0 /\ l.ruleID > 0 -> l.ruleID
      [] OTHER                                            -> FirstPositive(l.ids)
\* One blob of lines for every object; a rule whose ids are not assigned yet is rendered.
GetSecLang(leaves) ==
    LET items == SortSeq(SelectSeq(leaves, LAMBDA l : l.kind \in {"SecRule", "SecAction"}),
                         LAMBDA a, b : KeyedBefore(a, b, langKey(a), langKey(b)))
    IN [i \in DOMAIN items |->
            LinesOf(IF items[i].kind = "SecRule" THEN ApplyAssignedIDs(items[i]) ELSE items[i])]

\* Without the includes, the engine mode and the log level; the removals come after the
\* rules they are to remove, or after the embedded CRS.
BuildDirectives(o, blobs) ==
    LET setup == IF o.crs = NoCRS THEN <<>> ELSE <<CRSSetup(o.crs)>>
        removals == IF CRSRemovals(o.crs) = <<>> THEN <<>> ELSE <<CRSRemovals(o.crs)>>
    IN IF o.crsEnable THEN setup \o removals \o blobs ELSE setup \o blobs \o removals

\* The policy drops the blobs, not the lines, that name an unresolved file.
DropBlobs(blobs) == SelectSeq(blobs, LAMBDA b : Unresolved(b) = {})
assembleWAFDirectives(q, failed) ==
    IF mapKubeError(q, failed) # 0 THEN Failed(mapKubeError(q, failed))
    ELSE LET o == Objects[Object(q)]
             blobs == BuildDirectives(o, GetSecLang(o.leaves))
             doc == FlattenSeq(blobs)
         IN IF resolveRuleRefs(o, failed) # 0 \/ \E i \in DOMAIN blobs : blobs[i] = <<>> THEN Failed(422)
            ELSE IF Named(doc) # {} /\ "lists" \in failed THEN Failed(422)
            ELSE IF Unresolved(doc) # {} /\ o.policy # "IgnoreUnknown" THEN Failed(422)
            ELSE Assembled(0, FlattenSeq(DropBlobs(blobs)))
handleDirectives(q, failed) ==
    LET asm == assembleWAFDirectives(q, failed)
    IN IF wafChecks(q, "directives") # 0 THEN Failed(wafChecks(q, "directives"))
       ELSE IF asm.code = 0 /\ Len(asm.doc) > MaxLines THEN Failed(413) ELSE asm

-----------------------------------------------------------------------------
(* The evaluation of a document (internal/probetest/engine.go).             *)

validateEvalRequest(doc, body) ==
    Refusal(<< <<doc = <<>>, 400>>, <<Len(doc) > MaxLines, 413>>, <<body > MaxBody, 413>> >>)

\* A document compiles if no two of its rules have one id.
LoadSeclangWithFS(doc) ==
    \A i, j \in DOMAIN doc :
        i # j /\ doc[i][1] \in {"SecRule", "SecAction"} /\ doc[j][1] \in {"SecRule", "SecAction"}
        => doc[i][2] # doc[j][2]

EvalError(status, class) == [status |-> status, class |-> class]
\* early, late: the deadline passes before the document is compiled, or after.
Evaluate(doc, body, early, late) ==
    LET invalid == validateEvalRequest(doc, body) IN
    IF invalid # 0 THEN EvalError(invalid, "invalid")
    ELSE IF early THEN EvalError(504, "timeout")
    ELSE IF ~LoadSeclangWithFS(doc) THEN EvalError(500, "compile_failed")
    ELSE IF late THEN EvalError(504, "timeout") ELSE EvalError(200, "")

\* What the client makes of the Test server's status: the class of a compile failure
\* comes before the status.
Eval(v) ==
    CASE v.status = 200 -> 200
      [] v.status # 200 /\ v.class = "compile_failed" -> 422
      [] v.status \in {400, 413} /\ v.class # "compile_failed" -> 400
      [] v.status = 429 -> 429
      [] v.status = 422 -> 422
      [] OTHER -> 503

-----------------------------------------------------------------------------
(* Queries: the codes their work can end with before the backend is asked.   *)

ScopePromQL == {0, 400}
ScopePromQLToWAFs == {0, 400}
\* A review that fails ends the request; so does the list of the WAFs.
authorizedWAFIdentities(q) ==
    IF \E o \in DOMAIN Objects : o[1] = "WAF" /\ CanGetParent(q.user, o) >= 500 THEN {503} ELSE {0, 503}
validateQueryRange == {0, 400}
scopedTraceTags == {0, 400}
\* By id, a trace of which nothing is the WAF's is not found.
filterJaegerToWAF(byID) == IF byID THEN {0, 404} ELSE {0}
=============================================================================
