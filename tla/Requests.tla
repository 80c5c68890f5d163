------------------------------ MODULE Requests ------------------------------
(***************************************************************************)
(* The subresource API server and the Test server it evaluates probes on.   *)
(* Every request is a goroutine: it passes the checks of RequestRules,      *)
(* takes a slot of the process and one of its namespace, does its work and  *)
(* gives the slots back.  A probe's work is a call of the Test server, whose *)
(* handler is a goroutine of its own that can outlive the caller.           *)
(*                                                                          *)
(* A semaphore is a Go channel with an identity: evicted from the map of    *)
(* its budget it lives on in the requests that looked it up.                *)
(***************************************************************************)
EXTENDS RequestRules, FiniteSetsExt

CONSTANTS
    Slots,          \* the goroutines of the API server
    Loads,          \* [inputs: the requests that arrive, width: how many at a time,
                    \*  faults: bound on the calls abandoned and restarts of the Test server]
    Chans,          \* identities of channels, enough for the map and the requests
    PerNS,          \* budget :> slots of a namespace
    GlobalMax,      \* budget :> slots of the process
    maxNSSemEntries,
    MaxInFlight, MaxCompiles,
    MaxHandlers     \* bound on the goroutines of the Test server

VARIABLES
    req,        \* slot :> the request it handles
    nsSem,      \* budget :> namespace :> channel
    chan,       \* channel :> tokens in it
    globalSem,  \* budget :> tokens
    job,        \* slot :> where the Test server's handler of its call is
    detached,   \* where :> the number of handlers nobody waits for
    inflight,   \* the Test server's counter of requests
    compile,    \* tokens of its compile gate
    faults,
    load        \* the clients of this behaviour, one of Loads

reqvars == <<load, req, nsSem, chan, globalSem, job, detached, inflight, compile, faults>>
apiVars == <<load, nsSem, chan, globalSem>>
testVars == <<job, detached, inflight, compile, faults>>

Budgets == {"probe", "query"}
NoChan == 0
NoJob == "none"
HandlerPCs == {"enter", "gate", "brief", "eval", "compiled", "leave"}
NoQuery == [sub |-> ""]
Idle == [pc |-> "free", q |-> NoQuery, sub |-> "", ns |-> "", sem |-> NoChan, code |-> 0, doc |-> <<>>]
budget(r) == IF req[r].sub = "probes" THEN "probe" ELSE "query"
Mapped(b) == {nsSem[b][n] : n \in DOMAIN nsSem[b]}
FreshChan == CHOOSE c \in Chans : c \notin Mapped("probe") \cup Mapped("query") \cup {req[r].sem : r \in Slots}

\* A channel that neither a map nor a request refers to is garbage.
Collected(tokens, m, rq) ==
    [c \in Chans |-> IF c \in {rq[r].sem : r \in Slots} \/ \E b \in Budgets : \E n \in DOMAIN m[b] : m[b][n] = c
                     THEN tokens[c] ELSE 0]

ReqInit ==
    /\ load \in Loads
    /\ req = [r \in Slots |-> Idle]
    /\ nsSem = [b \in Budgets |-> <<>>]
    /\ chan = [c \in Chans |-> 0]
    /\ globalSem = [b \in Budgets |-> 0]
    /\ job = [r \in Slots |-> NoJob]
    /\ detached = [p \in HandlerPCs |-> 0]
    /\ inflight = 0
    /\ compile = 0
    /\ faults = 0

\* Of a request that failed only the code is left (and, before its slots are back, whose they are).
Refused(code) == [Idle EXCEPT !.pc = "done", !.code = code]
To(r, pc) == req' = [req EXCEPT ![r].pc = pc]
\* A probe gives back the channel it took from, a query the one it finds now.
Released(r) == IF budget(r) = "probe" THEN "relns" ELSE IF req[r].ns = "" THEN "relglobal" ELSE "relfind"
EndWith(r, code) == req' = [req EXCEPT ![r].pc = Released(r), ![r].code = code, ![r].doc = <<>>]

-----------------------------------------------------------------------------
(* Arrival: the checks before the slots.                                    *)

\* The calls to the API server that can fail: the parent, its references, the data files.
Calls == {"get", "refs", "lists"}

Checks(q) ==
    LET sub == handleVersionPaths(q) IN
    CASE sub = "probes"  -> probeChecks(q)
      [] sub = "metrics" -> handleWAFMetrics(q)
      [] sub = "traces"  -> handleWAFTraces(q)
      [] sub = "cluster" -> handleClusterMetrics(q)
      [] OTHER           -> 404

\* A request that takes no slot: refused, or for the directives of a WAF.
Arrive(r) ==
    /\ req[r].pc = "free"
    /\ Cardinality({s \in Slots : req[s].pc # "free"}) < load.width
    /\ \E q \in load.inputs, failed \in SUBSET Calls :
        LET sub == handleVersionPaths(q)
            asm == handleDirectives(q, failed)
            code == IF sub # "directives" THEN Checks(q) ELSE IF asm.code = 0 THEN 200 ELSE asm.code
            new == [Idle EXCEPT !.q = q, !.sub = sub, !.code = code]
        IN IF sub = "directives"
           THEN req' = [req EXCEPT ![r] = IF code = 200 THEN [new EXCEPT !.pc = "done", !.doc = asm.doc]
                                          ELSE Refused(code)]
           ELSE /\ failed = {}
                /\ req' = [req EXCEPT ![r] =
                     IF code # 0 THEN Refused(code)
                     ELSE [new EXCEPT !.pc = "global", !.ns = IF sub = "cluster" THEN "" ELSE q.ns]]
    /\ UNCHANGED <<apiVars, testVars>>

\* The client has its answer.
Close(r) ==
    /\ req[r].pc = "done"
    /\ req' = [req EXCEPT ![r] = Idle]
    /\ UNCHANGED <<apiVars, testVars>>

-----------------------------------------------------------------------------
(* The slots.                                                               *)

\* A cluster query takes no slot of a namespace.
TakeGlobal(r) ==
    /\ req[r].pc = "global"
    /\ LET b == budget(r) IN
       IF globalSem[b] < GlobalMax[b]
       THEN /\ globalSem' = [globalSem EXCEPT ![b] = @ + 1]
            /\ To(r, IF req[r].ns = "" THEN "work" ELSE "lookup")
       ELSE req' = [req EXCEPT ![r] = Refused(429)] /\ UNCHANGED globalSem
    /\ UNCHANGED <<load, nsSem, chan, testVars>>

\* Fault: the slot of the process is kept.
refuseNSLeaky(r) == req' = [req EXCEPT ![r] = Refused(429)] /\ UNCHANGED globalSem
\* Without a slot of the namespace the slot of the process goes back.
refuseNS(r) ==
    /\ req' = [req EXCEPT ![r].pc = "relglobal", ![r].code = 429, ![r].sem = NoChan]
    /\ UNCHANGED globalSem

\* Under nsMu: the namespace's channel, or a new one in place of an idle one.
LookupSem(r) ==
    /\ req[r].pc = "lookup"
    /\ LET b == budget(r)
           m == nsSem[b]
           n == req[r].ns
           idle == {k \in DOMAIN m : chan[m[k]] = 0}
           full == Cardinality(DOMAIN m) >= maxNSSemEntries
           make(keep) == /\ nsSem' = [nsSem EXCEPT ![b] = (n :> FreshChan) @@ [k \in keep |-> m[k]]]
                         /\ req' = [req EXCEPT ![r].pc = "send", ![r].sem = FreshChan]
                         /\ chan' = Collected(chan, nsSem', req')
                         /\ UNCHANGED globalSem
       IN \/ /\ n \in DOMAIN m
             /\ req' = [req EXCEPT ![r].pc = "send", ![r].sem = m[n]]
             /\ UNCHANGED <<nsSem, chan, globalSem>>
          \/ n \notin DOMAIN m /\ ~full /\ make(DOMAIN m)
          \/ n \notin DOMAIN m /\ full /\ \E k \in idle : make(DOMAIN m \ {k})
          \/ n \notin DOMAIN m /\ full /\ idle = {} /\ refuseNS(r) /\ UNCHANGED <<nsSem, chan>>
    /\ UNCHANGED <<load, testVars>>

\* After the unlock, without blocking; a query does not keep the channel.
SendSem(r) ==
    /\ req[r].pc = "send"
    /\ LET c == req[r].sem IN
       IF chan[c] < PerNS[budget(r)]
       THEN /\ req' = [req EXCEPT ![r].pc = "work", ![r].sem = IF budget(r) = "probe" THEN c ELSE NoChan]
            /\ chan' = Collected([chan EXCEPT ![c] = @ + 1], nsSem, req')
            /\ UNCHANGED globalSem
       ELSE refuseNS(r) /\ chan' = Collected(chan, nsSem, req')
    /\ UNCHANGED <<load, nsSem, testVars>>

FindSem(r) ==
    /\ req[r].pc = "relfind"
    /\ LET m == nsSem["query"]
           n == req[r].ns
       IN IF n \in DOMAIN m THEN req' = [req EXCEPT ![r].pc = "relns", ![r].sem = m[n]]
          ELSE To(r, "relglobal")
    /\ UNCHANGED <<apiVars, testVars>>

releaseNS(r) ==
    /\ req[r].pc = "relns"
    /\ req' = [req EXCEPT ![r].pc = "relglobal", ![r].sem = NoChan]
    /\ chan' = Collected([chan EXCEPT ![req[r].sem] = IF @ > 0 THEN @ - 1 ELSE 0], nsSem, req')
    /\ UNCHANGED <<load, nsSem, globalSem, testVars>>

\* The receive of a probe would block on an empty channel, a query's would not.
ReleaseGlobal(r) ==
    /\ req[r].pc = "relglobal"
    /\ budget(r) = "probe" => globalSem["probe"] > 0
    /\ globalSem' = [globalSem EXCEPT ![budget(r)] = IF @ > 0 THEN @ - 1 ELSE 0]
    /\ req' = [req EXCEPT ![r] = IF @.code = 200 THEN [@ EXCEPT !.pc = "done"] ELSE Refused(@.code)]
    /\ UNCHANGED <<load, nsSem, chan, testVars>>

-----------------------------------------------------------------------------
(* The work of a query.                                                     *)

\* The answers of a backend: a body, or unreachable, too large, an error.
Backend == {0, 503, 413, 502}

\* The work ends with the first code that is not 0.
proxyMetrics(r, scoped) ==
    \E range \in validateQueryRange, net \in Backend :
        LET code == Refusal(<< <<scoped # 0, scoped>>, <<range # 0, range>>, <<net # 0, net>> >>)
        IN EndWith(r, IF code = 0 THEN 200 ELSE code)

MetricsWork(r) ==
    /\ req[r].pc = "work" /\ req[r].sub = "metrics"
    /\ \E scoped \in ScopePromQL : proxyMetrics(r, scoped)
    /\ UNCHANGED <<apiVars, testVars>>

ClusterWork(r) ==
    /\ req[r].pc = "work" /\ req[r].sub = "cluster"
    /\ \E auth \in authorizedWAFIdentities(req[r].q), scoped \in ScopePromQLToWAFs :
        proxyMetrics(r, IF auth # 0 THEN auth ELSE scoped)
    /\ UNCHANGED <<apiVars, testVars>>

TracesWork(r) ==
    /\ req[r].pc = "work" /\ req[r].sub = "traces"
    /\ \E tags \in scopedTraceTags, net \in Backend, kept \in filterJaegerToWAF(req[r].q.byID) :
        LET code == Refusal(<< <<~req[r].q.byID /\ tags # 0, tags>>, <<net # 0, net>>, <<kept # 0, kept>> >>)
        IN EndWith(r, IF code = 0 THEN 200 ELSE code)
    /\ UNCHANGED <<apiVars, testVars>>

-----------------------------------------------------------------------------
(* The work of a probe, and the handlers of the Test server.  A handler      *)
(* nobody waits for any more is known by where it is.                        *)

Inside(pcs) == {r \in Slots : job[r] \in pcs}
Handlers(pcs) == Cardinality(Inside(pcs)) + MapThenSumSet(LAMBDA p : detached[p], pcs)

ProbeWork(r) ==
    /\ req[r].pc = "work" /\ req[r].sub = "probes"
    /\ \E failed \in SUBSET Calls :
        LET asm == assemble(req[r].q, failed)
        IN IF asm.code # 0
           THEN EndWith(r, asm.code) /\ UNCHANGED job
           ELSE /\ Handlers(HandlerPCs) < MaxHandlers
                /\ job' = [job EXCEPT ![r] = "enter"]
                /\ req' = [req EXCEPT ![r].pc = "wait", ![r].doc = asm.doc]
    /\ UNCHANGED <<apiVars, detached, inflight, compile, faults>>

\* What the handler of the call of r is sent.
EvalRequest(r) == [doc |-> req[r].doc, body |-> req[r].q.body]

\* The client's deadline, one second after the evaluation's: the call is abandoned and
\* its context cancelled, the Test server's handler goes on.
EvalTimeout(r) ==
    /\ req[r].pc = "wait"
    /\ faults < load.faults
    /\ faults' = faults + 1
    /\ EndWith(r, 503)
    /\ job' = [job EXCEPT ![r] = NoJob]
    /\ detached' = [detached EXCEPT ![job[r]] = @ + 1]
    /\ UNCHANGED <<apiVars, inflight, compile>>

Shift(from, to) ==
    /\ detached[from] > 0
    /\ detached' = [detached EXCEPT ![from] = @ - 1, ![to] = @ + 1]
    /\ UNCHANGED <<req, job>>
Advance(from, to) ==
    \/ Shift(from, to)
    \/ \E r \in Slots : /\ job[r] = from
                        /\ job' = [job EXCEPT ![r] = to]
                        /\ UNCHANGED <<req, detached>>

\* The handler of r answers v; what it has left to do nobody waits for.
Respond(r, v, to) ==
    /\ job' = [job EXCEPT ![r] = NoJob]
    /\ detached' = [detached EXCEPT ![to] = @ + 1]
    /\ IF v.status = 200
       THEN req' = [req EXCEPT ![r].pc = Released(r), ![r].code = 200]
       ELSE EndWith(r, Eval(v))
Refuse(from, v) ==
    \/ Shift(from, "leave")
    \/ \E r \in Slots : job[r] = from /\ Respond(r, v, "leave")

\* handleEval: the counter is raised before it is compared.
EvalEnter ==
    /\ inflight' = inflight + 1
    /\ IF inflight' > MaxInFlight THEN Refuse("enter", EvalError(429, "busy")) ELSE Advance("enter", "gate")
    /\ UNCHANGED <<apiVars, compile, faults>>

TakeCompile(from) ==
    /\ compile < MaxCompiles
    /\ compile' = compile + 1
    /\ Advance(from, "eval")

\* One try; the context of an abandoned call has ended.
EvalGate ==
    /\ \/ TakeCompile("gate")
       \/ Shift("gate", "leave") /\ UNCHANGED compile
       \/ /\ compile >= MaxCompiles
          /\ \E r \in Slots : job[r] = "gate" /\ job' = [job EXCEPT ![r] = "brief"]
          /\ UNCHANGED <<req, detached, compile>>
    /\ UNCHANGED <<apiVars, inflight, faults>>

\* A short wait for a token, the end of the context or the timer, and a last try.
EvalBrief ==
    /\ \/ TakeCompile("brief")
       \/ Shift("brief", "leave") /\ UNCHANGED compile
       \/ /\ compile >= MaxCompiles
          /\ Refuse("brief", EvalError(429, "busy"))
          /\ UNCHANGED compile
    /\ UNCHANGED <<apiVars, inflight, faults>>

\* The answer is written before the deferred releases.
EvalRun ==
    /\ \/ Shift("eval", "compiled")
       \/ \E r \in Slots, early \in BOOLEAN, late \in BOOLEAN :
            LET e == EvalRequest(r) IN
            /\ job[r] = "eval"
            /\ Respond(r, Evaluate(e.doc, e.body, early, late), "compiled")
    /\ UNCHANGED <<apiVars, inflight, compile, faults>>

EvalRelease ==
    /\ Shift("compiled", "leave")
    /\ compile' = compile - 1
    /\ UNCHANGED <<apiVars, inflight, faults>>

EvalLeave ==
    /\ detached["leave"] > 0
    /\ detached' = [detached EXCEPT !["leave"] = @ - 1]
    /\ inflight' = inflight - 1
    /\ UNCHANGED <<req, job, apiVars, compile, faults>>

\* The Test server restarts: its callers lose their connections.
TestServerRestart ==
    /\ faults < load.faults
    /\ Handlers(HandlerPCs) > 0
    /\ faults' = faults + 1
    /\ job' = [r \in Slots |-> NoJob]
    /\ detached' = [p \in HandlerPCs |-> 0]
    /\ inflight' = 0
    /\ compile' = 0
    /\ req' = [r \in Slots |-> IF req[r].pc = "wait" THEN [req[r] EXCEPT !.pc = Released(r), !.code = 503, !.doc = <<>>]
                              ELSE req[r]]
    /\ UNCHANGED apiVars

RequestStep(r) ==
    \/ Arrive(r) \/ Close(r) \/ TakeGlobal(r) \/ LookupSem(r) \/ SendSem(r)
    \/ FindSem(r) \/ releaseNS(r) \/ ReleaseGlobal(r)
    \/ MetricsWork(r) \/ ClusterWork(r) \/ TracesWork(r) \/ ProbeWork(r) \/ EvalTimeout(r)
TestServerStep ==
    EvalEnter \/ EvalGate \/ EvalBrief \/ EvalRun \/ EvalRelease \/ EvalLeave \/ TestServerRestart

ReqNext ==
    \/ \E r \in Slots : RequestStep(r)
    \/ TestServerStep

ReqSpec == ReqInit /\ [][ReqNext]_reqvars

-----------------------------------------------------------------------------
(* Properties.                                                              *)

\* The types of the variables.
ReqTypeOK ==
    /\ \A r \in Slots : /\ req[r].sem \in Chans \cup {NoChan}
                        /\ req[r].pc = "wait" <=> job[r] # NoJob
    /\ \A b \in Budgets : Mapped(b) \subseteq Chans /\ Cardinality(DOMAIN nsSem[b]) <= maxNSSemEntries
    /\ \A c \in Chans : chan[c] \in Nat
    /\ \A b \in Budgets : globalSem[b] \in 0..GlobalMax[b]
    /\ inflight \in Nat /\ compile \in Nat

HoldsGlobal(r) == req[r].pc \in {"lookup", "send", "work", "wait", "relfind", "relns", "relglobal"}
HoldsNS(r) == req[r].pc \in {"work", "wait", "relfind", "relns"} /\ req[r].ns # ""

\* Slots are neither lost nor invented, whatever the interleaving of requests, evictions,
\* timeouts and restarts: the process-wide counts are exactly the requests that hold a
\* slot; a probe's channel holds exactly its probes, evicted or not; a namespace's query
\* channel never holds more tokens than the namespace has queries, so an idle server
\* has all its slots (acquireNamedSem, releaseNS, acquireQuerySlot, releaseQuerySlot).
\* On the Test server the counter and the compile gate are exactly the handlers inside,
\* the abandoned ones included, and both limits hold (handleEval).
SlotsBalanced ==
    /\ \A b \in Budgets : globalSem[b] = Cardinality({r \in Slots : HoldsGlobal(r) /\ budget(r) = b})
    /\ \A c \in Chans \ Mapped("query") :
        LET probes == {r \in Slots : HoldsNS(r) /\ budget(r) = "probe" /\ req[r].sem = c}
        IN c \in Mapped("probe") \/ probes # {} => chan[c] = Cardinality(probes)
    /\ \A n \in DOMAIN nsSem["query"] :
        chan[nsSem["query"][n]] <= Cardinality({r \in Slots : HoldsNS(r) /\ budget(r) = "query" /\ req[r].ns = n})
    /\ inflight = Handlers(HandlerPCs \ {"enter"})
    /\ compile = Handlers({"eval", "compiled"})
    /\ compile <= MaxCompiles
    /\ Handlers({"gate", "brief", "eval", "compiled"}) <= MaxInFlight

=============================================================================
