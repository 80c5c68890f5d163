-------------------------- MODULE RequestsScenario --------------------------
(* A small cluster and the requests made of it, for the model checker.      *)
EXTENDS Integers, Sequences, TLC

Rule(name, ids, assigned, files) ==
    [kind |-> "SecRule", name |-> name, order |-> 0, ruleID |-> 0, ids |-> ids, assigned |-> assigned, files |-> files]
Action(name, id) ==
    [kind |-> "SecAction", name |-> name, order |-> 0, ruleID |-> 0, ids |-> <<id>>, assigned |-> <<>>, files |-> <<{}>>]
Parent(leaves) ==
    [leaves |-> leaves, refsOK |-> TRUE, crsEnable |-> FALSE, crs |-> <<>>, policy |-> "FailClosed"]

\* w in a: ids from the pool that sort it after the others, an action, a bag of which one
\* rule names a file without a list; v in a: orders, pool ids, equal keys and names; w in b:
\* a rule that is removed; r in a: a rule without an id yet; d in b: one id twice.
MCObjects ==
    ( <<"WAF", "a", "w">> :> [Parent(<<[Rule(2, <<0, 7>>, <<9, 6>>, <<{}, {}>>) EXCEPT !.ruleID = 9],
                                       Action(1, 3), Rule(3, <<8, 10>>, <<>>, <<{"gone"}, {"list"}>>)>>)
                              EXCEPT !.policy = "IgnoreUnknown"]
   @@ <<"WAF", "a", "v">> :> Parent(<<[Rule(4, <<1>>, <<>>, <<{}>>) EXCEPT !.order = 6],
                                      [Rule(2, <<0>>, <<5>>, <<{}>>) EXCEPT !.ruleID = 5],
                                      Rule(3, <<6>>, <<>>, <<{}>>), Rule(1, <<0, 4>>, <<2>>, <<{}, {}>>),
                                      [Rule(5, <<12>>, <<>>, <<{}>>) EXCEPT !.order = 11], Action(5, 11)>>)
   @@ <<"WAF", "b", "w">> :> [Parent(<<Rule(1, <<7>>, <<>>, <<{"list"}>>)>>) EXCEPT !.crs = << <<7>> >>]
   @@ <<"SecRule", "a", "r">> :> Parent(<<Rule(1, <<0>>, <<>>, <<{}>>)>>)
   @@ <<"RuleSet", "b", "d">> :> Parent(<<Rule(1, <<4>>, <<>>, <<{}>>), Rule(2, <<4>>, <<>>, <<{}>>)>>) )
MCAccess == ("ann" :> DOMAIN MCObjects @@ "bob" :> {<<"WAF", "b", "w">>})
MCFiles == ("list" :> "ready" @@ "late" :> "notready")
MCPerNS == ("probe" :> 1 @@ "query" :> 1)
MCGlobalMax == ("probe" :> 2 @@ "query" :> 2)

Get(user, sub, kind, ns, name) ==
    [sub |-> sub, kind |-> kind, ns |-> ns, name |-> name, parse |-> 0, byID |-> FALSE,
     method |-> "GET", cert |-> "named", user |-> user, ctrl |-> "ok", body |-> 0]
Probe(user, kind, ns, name) == Get(user, "probes", kind, ns, name)
Sub(user, ns, sub) == Get(user, sub, "WAF", ns, "w")
Cluster(user) == Get(user, "cluster", "", "", "")

\* Admitted requests: in both namespaces, for the two budgets.
MCAdmitted ==
    { Probe("ann", "WAF", "a", "w"), Probe("ann", "WAF", "a", "v"), Probe("bob", "WAF", "b", "w"),
      Probe("ann", "SecRule", "a", "r"), [Probe("ann", "RuleSet", "b", "d") EXCEPT !.method = "POST"],
      Sub("ann", "a", "metrics"), Sub("ann", "b", "traces"), [Sub("ann", "b", "traces") EXCEPT !.byID = TRUE],
      Cluster("ann"), Cluster("cyd"),
      Sub("ann", "a", "directives"), Get("ann", "directives", "WAF", "a", "v") }
\* Refused before any slot is taken.
MCRefused ==
    { [Probe("ann", "WAF", "a", "w") EXCEPT !.method = "OPTIONS"],
      [Probe("ann", "WAF", "a", "w") EXCEPT !.method = "TRACE"],
      [Probe("ann", "WAF", "a", "w") EXCEPT !.cert = "none"],
      [Probe("ann", "WAF", "a", "w") EXCEPT !.ctrl = "bad"],
      [Probe("ann", "WAF", "a", "w") EXCEPT !.ctrl = "crs"],
      [Probe("ann", "WAF", "a", "w") EXCEPT !.body = 3],
      [Probe("ann", "WAF", "a", "w") EXCEPT !.parse = 400],
      Probe("bob", "WAF", "a", "w"), Probe("cyd", "WAF", "a", "w"),
      [Sub("ann", "a", "metrics") EXCEPT !.body = 3], [Sub("ann", "a", "metrics") EXCEPT !.parse = 404] }
\* All of them one at a time; probes and mixed queries two, queries of WAFs three.
MCLoads ==
    { [inputs |-> MCAdmitted \cup MCRefused, width |-> 1, faults |-> 0],
      [inputs |-> {Probe("ann", "WAF", "a", "w"), Probe("bob", "WAF", "b", "w")}, width |-> 2, faults |-> 1],
      [inputs |-> {Sub("ann", "b", "traces"), Cluster("bob")}, width |-> 2, faults |-> 0],
      [inputs |-> {Sub("ann", "a", "metrics"), Sub("bob", "b", "metrics")}, width |-> 3, faults |-> 0] }
=============================================================================
