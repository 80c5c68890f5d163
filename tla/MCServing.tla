----------------------------- MODULE MCServing -----------------------------
(***************************************************************************)
(* The two parts that serve others, on one instance: the manager, which     *)
(* serves the data plane (Serving), and the subresource API, which serves   *)
(* clients (Requests).  They are separate processes with no shared state: a *)
(* behaviour runs one of them, chosen at the start.                         *)
(***************************************************************************)
EXTENDS Serving, ServingScenario, RequestsScenario

CONSTANTS
    Objects, Access, SARBroken, FilesOf, Disabled, AuthMode,
    MaxBody, MaxLines,
    Slots, Loads, Chans, PerNS, GlobalMax, maxNSSemEntries,
    MaxInFlight, MaxCompiles, MaxHandlers

VARIABLES part, load, req, nsSem, chan, globalSem, job, detached, inflight, compile, reqFaults

R == INSTANCE Requests WITH faults <- reqFaults

requestVars == <<load, req, nsSem, chan, globalSem, job, detached, inflight, compile, reqFaults>>
allVars == <<part, vars, requestVars>>

\* The part that does not run starts in one state.
MCInit ==
    /\ part \in {"serving", "requests"}
    /\ Init /\ R!ReqInit
    /\ part = "serving" => load = CHOOSE l \in Loads : TRUE
    /\ part = "requests" => /\ writes = 0 /\ faults = 0
                            /\ loaded = Load(CHOOSE i \in Images : \A m \in Modules : Load(i)[m] # "")

ServingStep == part = "serving" /\ Next /\ UNCHANGED <<part, requestVars>>
RequestsStep == part = "requests" /\ R!ReqNext /\ UNCHANGED <<part, vars>>
MCNext == ServingStep \/ RequestsStep
MCSpec == MCInit /\ [][MCNext]_allVars

Symmetry == Permutations(Slots)

\* The variables of both parts have their types: no task works on a WAF that is gone,
\* and a request waits exactly while a handler works for it.
Types == TypeOK /\ R!ReqTypeOK

\* Slots of the subresource API and the Test server are neither lost nor invented
\* (acquireNamedSem, releaseNS, acquireQuerySlot, releaseQuerySlot, handleEval); see Requests.
SlotsBalanced == R!SlotsBalanced

=============================================================================
