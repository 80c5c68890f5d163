----------------------------- MODULE MCRuleRefs -----------------------------
(* Instances of RuleRefs for TLC: three RuleSets and three rules in two      *)
(* namespaces; rule (1, 11) and rule (2, 11) have one name.                  *)
EXTENDS TLC, RuleRefs

Ref(kind, ns, name) == [kind |-> kind, name |-> name, ns |-> ns, sel |-> FALSE]
MCRuleSets == {"A", "B", "C"}
MCSecRules == {"r1", "r2"}
MCSecActions == {"a1"}
MCWafs == {"w1"}
MCNsOf == [o \in {"A", "B", "r1", "a1", "w1"} |-> 1] @@ [o \in {"C", "r2"} |-> 2]
MCNameOf == ("A" :> 1 @@ "B" :> 2 @@ "C" :> 3 @@ "r1" :> 11 @@ "r2" :> 11 @@ "a1" :> 10 @@ "w1" :> 1)
MCOrderOf == ("r1" :> 0 @@ "r2" :> 0 @@ "a1" :> 0)
MCIDsOf == ("r1" :> <<0, 7>> @@ "r2" :> <<0, 0>> @@ "a1" :> <<7>>)
MCWafRefs == ("w1" :> <<Ref("", 0, 1)>>)

Select == [kind |-> "SecRule", name |-> 0, ns |-> 0, sel |-> TRUE]
MCSpecs == { [refs |-> <<Ref("SecAction", 0, 10), Select>>, from |-> "Selector"],
             [refs |-> <<Ref("RuleSet", 0, 2), Ref("SecRule", 2, 11)>>, from |-> "Same"],
             [refs |-> <<Ref("", 2, 3)>>, from |-> "All"],
             [refs |-> <<>>, from |-> "Bare"] }
Settled(refs, from, rules, actions) ==
    [spec |-> [refs |-> refs, from |-> from], rules |-> rules, actions |-> actions]
MCStartGraphs ==
    { [sets |-> ("A" :> Settled(<<Ref("RuleSet", 0, 2)>>, "All", 1, 1)
                 @@ "B" :> Settled(<<Ref("SecRule", 0, 11), Ref("SecAction", 0, 10)>>, "Same", 1, 1)
                 @@ "C" :> Settled(<<Ref("SecRule", 2, 11), Ref("SecRule", 2, 11)>>, "Same", 2, 0)),
       used |-> {"A", "B", "r1", "r2", "a1"}] }
=============================================================================
