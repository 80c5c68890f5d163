--------------------------- MODULE ConfigRegistry ---------------------------
(***************************************************************************)
(* What the ECDS server promises to its callers, without resources, names   *)
(* or snapshots: a register per WAF.  A call replaces or drops the whole    *)
(* configuration of one WAF; what Envoy is served is always the state of    *)
(* all registers after some call, never a mixture within a WAF.  A call may *)
(* fail to reach Envoy; a later one then catches up.  A restart forgets     *)
(* everything.                                                              *)
(***************************************************************************)
CONSTANTS Wafs, NoConfig,
          Whole(_, _)  \* whether a configuration of a WAF comes from one build

VARIABLES accepted, served

Empty == [w \in Wafs |-> NoConfig]

Init == accepted = Empty /\ served = Empty

Reach == served' \in {served, accepted'}

Put(w) ==
    /\ accepted'[w] # NoConfig /\ Whole(w, accepted'[w])
    /\ accepted' = [accepted EXCEPT ![w] = accepted'[w]]
    /\ Reach

Drop(w) ==
    /\ accepted' = [accepted EXCEPT ![w] = NoConfig]
    /\ Reach

Restart == accepted' = Empty /\ served' = Empty

Next == Restart \/ \E w \in Wafs : Put(w) \/ Drop(w)

Spec == Init /\ [][Next]_<<accepted, served>>
=============================================================================
